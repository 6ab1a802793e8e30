# Meal delivery: a verification project

TLA+ models of the services of this repository, the configurations that check them with
TLC, and theorems about them that TLAPS checks. Every definition is translated from the
source; `PROJECT.json` maps each one to its lines.

## The system

Four NestJS services, each with a PostgreSQL database of its own, exchange messages over
Kafka. A customer orders, the restaurant's owner accepts, the customer pays with the
payment provider Chapa, the kitchen works and the customer collects the meal.

| component | state | operations | talks to |
| --- | --- | --- | --- |
| orders (catalog-service) | `orders`, `scheduled_jobs`, `order_pickups`, `order_events` | create, reschedule, unschedule, cancel, accept/decline, preparing, ready, complete, coming; consumers of payment.*; a cron task every minute | sends order.awaiting_payment, order.completed; consumes payment.initiated, .success, .failed |
| pickup codes (catalog-service) | `order_pickups` | issue, look up, verify | called by orders |
| payments (payment-service) | `payments`, `payout_children` | consume order.awaiting_payment, webhook, landing page | Chapa; sends payment.* |
| payouts (payment-service) | `payout_batches`, `aggregated_payouts`, `payout_children`, a BullMQ queue | aggregate, process, transfer webhook | Chapa |
| inventory (catalog-service) | `inventory`, par levels, a log, what the menu shows | deduct, replenish, update, daily reset, availability sync | consumes order.completed |
| points and promos (catalog-service) | balances, ledger, rules (cached), promo codes | earn, redeem, adjust, apply | called by orders inside its transactions |
| restaurants (auth-service, catalog-service) | the restaurant, and its replica | register, add documents, approve/reject | restaurant.* events |
| sessions (auth-service) | users, OTPs, refresh tokens | register, verify, log in, refresh, revoke, reset | - |
| reviews (catalog-service) | reviews, ratings of meals and restaurants | write, change, delete | reads orders |
| notification-service | device tokens | register, push, campaigns | consumes order.*, inventory.low_stock, reward.points.earned, identity.user.registered |
| menu, search, personalization, reports, uploads, roles | one row per request | CRUD and queries | - |
| live updates, analytics-service | connections, none | forward events | consumes order.* |

What makes it hard:

* **No locks on orders.** A handler loads a row, checks it, changes the entity and calls
  `repository.save`, which reads the row again and UPDATEs the columns that differ from the
  entity. Whatever changed in between is written back to what it was.
* **Locks on jobs**, taken by the cron task, which then calls `cancelOrder` on a second
  connection: a wait there is a deadlock the database cannot see.
* **Messages** are sent before the transaction they announce commits, are delivered at
  least once, and one consumer does not await its handler.
* **Two parties confirm a payment**: the webhook and the landing page the customer comes back to.
* **Partial failure**: nearly every emit, and some deletions, are caught and logged.
* **A worker that dies** half way through a batch leaves rows in between, and retries, webhooks and
  admins find them so.
* **Locked and unlocked writers of one row**: orders lock the stock they take, owners and the daily
  reset do not; points and promo codes are read and saved without a lock.
* **Check, then write**, guarded by a unique index for reviews, pickup codes and users, and by
  nothing for balance rows.

## Modules

| module | models | its state in the code |
| --- | --- | --- |
| `Orders` | the life of an order | `row` = `orders` (status, payment_status, isScheduled, whether a checkout is set), `job` = its `scheduled_jobs` row, `pickups`, `rowLock`/`jobLock` = row locks, `sent` = Kafka, `work` = the handlers in flight with their stale entity |
| `Payments` | taking the money | `payment` = `payments`, `children` = top-up rows of `payout_children`, `chapa` = the provider's transactions, `due` = webhooks the provider still sends, `sent`, `work` |
| `PaymentContract` | what payment-service promises about an order | `link` = the checkout links given out, `fate` = what became of each, `confirmed` = payment.success, `credited` = the restaurant's row |
| `Payouts` | paying the restaurants | `child`, `agg`, `batch` = the three payout tables, `jobs` = the BullMQ queue, `transfer`/`asked` = the provider, `work` |
| `PayoutContract` | what payment-service promises the restaurants | `covers` = the children each transfer is for, `asked` = how many workers asked for it, `fate` = what became of it, `recorded` = the children marked paid |
| `Stock` | what is in stock and on the menu | `stock` = `inventory`, `offered` = `menu_items.is_available`, `par` = the par levels, `due` = order.completed events, `task` = transactions and the cron task, with the rows they have locked |
| `Loyalty` | points, promo codes and the cached rules | `balance` = the rows of a customer, `granted` = the sum of the ledger's grants, `promo`, `rule`, `cached`, `work` = transactions with what they have written |
| `Reviews` | reviews and the ratings made of them | `review`, `mealRating`, `rating`, `ordered` = who has an order of which meal, from AWAITING_PAYMENT on, `work` |
| `Pickup` | the codes of paid orders | `record` = `order_pickups`, `shown` = the codes customers have seen, `paid`, `work` |
| `Accounts` | users and their one-time codes | `account` = `users`, `roles`, `code` = `otp_verifications`, `last` = the newest code of a user, `proven` = who has used up a code or was made by a single sign-on, `request` |
| `Sessions` | refresh tokens | `token` = `refresh_tokens`, `parent` = which token was exchanged for it, `given` = the tokens clients hold, `request` |
| `Onboarding` | a restaurant and its replica | `restaurant`, `isOwner` = the owner's role, `replica` = the row of catalog-service, `events`, `decided`/`approved` = what admins were asked for and what was committed, `request` |
| `Notifications` | pushes | `holder` = `user_device_tokens`, `pending` = uncommitted offsets, `about`, `told`, `missed`, `work` |
| `OrdersProofs`, `PaymentsProofs`, `PayoutsProofs`, `AccountsProofs`, `StockProofs`, `LoyaltyProofs` | theorems about one component | |
| `ServicesProofs` | theorems about the smaller components, and about all those of `MCServices` together | |
| `Sums` | lemmas about sums over finite sets, for the models that add things up | |
| `MCOrders`, `MCPayments`, `MCPayouts` | one component for TLC | |
| `MCServices`, `MCProgress` | the smaller components for TLC, safety and liveness | |

**How they fit together.** `Payments` implements `PaymentContract` under the refinement mapping
`Contract` of `Payments`: a link is given out when payment.initiated is sent, its fate is the
state of the transaction at Chapa, an order is confirmed when payment.success is sent, and
credited when its `payout_children` row is there. What catalog-service may rely on is the
contract; `Orders` takes less for granted, any answer to a payment request at any time. `Payouts`
implements `PayoutContract` in the same way: a payout is a transfer at Chapa with the children its
aggregate links, and the record is the status of the children. The
children that the webhook of `Payments` inserts are the ones `Payouts` aggregates
(`InsertChild` of both). `Commit` of `Loyalty` is the commit of the transaction of `createOrder`
or `markAsComplete` that `Orders` has as one step, `HandleOrderCompleted` of `Stock` consumes
the event that `markAsComplete` sends, and `PaymentChanges` of `Pickup` is what `Orders` does to
`payment_status`. The refresh tokens of `Sessions` and the rows of `Accounts` are two views of
one service: they share the user, whose deletion is an action of both.

**One component in focus.** `MCServices` and `MCProgress` hold nine and five components that
share no variable. A behaviour of all of them side by side is, for each, one of its own
behaviours with steps that leave its variables alone in between, so a property of one component
holds of all of them together if it holds of the component alone. A run therefore picks one
component in its initial state, the others stand still, and the state space is the sum of the
components' and not their product. `ServicesProofs` proves the first half of that argument.

**Correspondence.** A handler is cut at its round trips: load and check (an action named
after the method), `Compare` (the SELECT of `save`), then the UPDATE, alone (`Save`,
`CommitEntity`) or with what follows in the same transaction (`LockRow`, then
`DeleteJobAndCommit` or `SaveJobAndCommit`). `work[w].entity` is the entity in memory, and
`work[w].cols` the columns of the UPDATE. Between two of these steps every other handler may
run. A statement that would wait for a lock is not enabled while the lock is held.
`ClaimJob` locks a job (`SELECT ... FOR UPDATE`); `NestedCancel` to `NestedCommit` is
`cancelOrder` inside the cron task; `MarkProcessed` its end. `Abort` is a crash, or an error
that rolls back; `DefuseFails`, `NestedCancelFails`, `WebhookFails`, `EmitResultFails` and
`SaveFails` are the errors the code catches. Kafka is a set nobody removes from: any message
may come late, again, or in another order.

The other modules are cut the same way. What a handler read is a field of its record (`copy`,
`old`, `total`, `answer`), and the step that writes uses that field and not what the table says
by then. A transaction's writes stay in its record until `Commit`, and the rows it has written
block other writers (`BalanceLocked`, `PromoLocked`, `Locked`, `WaitsFor`): PostgreSQL's READ
COMMITTED. A unique index is a condition on the insert (`Unique`, `Taken`, `InsertPickup`), and
the other branch, the refused statement, is an action of its own (`Requery`, `RegisterRefused`,
`StatementRefused`). TypeORM's save of a row that was loaded and is gone inserts it again, where
its key allows that.

Left out of `Orders`: items, prices, the events table, notifications and Socket.IO messages
sent after a commit, the checks of who may call what (a caller who may not changes
nothing); points and promo are in `Loyalty`. Left out of `Payments`: the split between
restaurant and platform, and what the provider's errors say (`OpenTransaction` is the attempt
that succeeds, `InitFails` the case that none does). Left out of `Payouts`: amounts, the minimum
of a batch and its filters (any set of pending children may be gathered), and how many times the
queue starts a job that failed. A password, a hash or
a code is the identity of what it stands for, except where its comparison is the point: bcrypt
compares a refresh token with the hash of another of the same user (`Matches` of `Sessions`).
Left out of `Accounts`: a token of a single sign-on that is not genuine (`InsertSsoUser`). Left out
of `Loyalty`: promo codes whose `max_uses` is null or 0, which have no bound to reach.

Time is a choice: what expires may have expired or not. A batch that is being processed can be
claimed after 15 minutes without a change. `MayBeStale` says only that no live worker has it, so a
request for the batch of a worker that died is refused (`RefuseClaim`, then the inspection) or
claims it. A live worker, which waits for the provider three times ten seconds, is never taken for
a dead one. `ExpireCode` of `Accounts` may come as soon as the code is stored, with
its mail still on the way.

A request to Chapa that fails is repeated twice with the same references (`AttemptFails`), and the
provider may have taken it all the same (`TakenOrNot`); after the last attempt (`TransferFails`) the
items become failed. A lookup of devices that fails ends some handlers of notification-service
(`LookUpFails`, it is caught) and lets Kafka deliver the event to the others again (`LookUpThrows`).

## Runs

| run | instance | shows |
| --- | --- | --- |
| `orders_all` | every handler; 1 request, 1 consumer, 1 cron tick at once; 1 fault | `TypeOK`; `KitchenOnlyAfterPayment`: what is prepared, ready, completed or collectable was reported as paid |
| `orders_race` | what races up to the payment; 2 requests, 1 consumer, 1 tick; 1 fault | `CancelJobMeansImmediate`, `NoHiddenDeadlock`, `DefusedBeforePaid`, `AutoCancelSparesPaid` |
| `orders_live` | fair; who can hold the locks or change what `cancelOrder` checks | `CancelJobSettles`, `SuccessIsRecorded` |
| `orders_cancel_paid` | violation | "Prevent cancellation after payment succeeded" does not hold |
| `orders_lost_job` | violation | a scheduled order may lose its job |
| `payments` | 2 consumers, 1 webhook at a time, 1 visit; 1 fault | `OneCheckout`, `PaidMeansCharged`, `ToppedUpOnce`, and the refinement `ImplementsContract` |
| `payments_live` | fair, 1 fault; a provider that says "success" or "completed" | `SuccessIsReported`: a charge is reported in a word catalog-service understands, unless a landing page or a fault came first, or the word is "completed" |
| `payments_topup_twice` | 2 webhooks at once; violation | the top-up is not idempotent |
| `payments_unreported` | fair, no fault; violation | a charge the landing page records is never reported |
| `services` | nine components, one at work; 2 handlers of any kind at once, 1 webhook, 1 crash | `ServicesTypeOK` and the safety properties below |
| `progress` | five components, one at work; the same, fair | the liveness properties below |
| `payouts_completed` | 1 batch, 2 workers, 2 requests, no webhook, no crash; violation | a batch whose items all failed becomes completed |

What `services` shows: that the claim of a batch lets one worker at most ask for its transfers,
whatever is retried and whoever dies (`SentByOneWorker`; the worker itself repeats a request that
fails, with the same references), that nothing is marked paid without a transfer, though
answers and webhooks overtake each other (`PaidMeansTransferred`), no child is paid twice
(`PaidOutOnce`), and that the payouts as a whole do what `PayoutContract` promises
(`PaysByContract`); that a revoked token stays revoked (`RevokedStaysRevoked`, of the tokens
clients hold), and one exchanged twice at once has no more successors than requests
(`SuccessorsBounded`); that no late save verifies a user (`VerifiedWasProven`), and none puts a
restaurant online (`OnlyApprovedGoLive`); that a delivery of an order took exactly its items while
others write the rows (`DeductionsExact`); that points were granted before they are spent
(`PointsWereGranted`); that of a customer's
reviews of a meal one counts (`OneReviewPerMeal`); that a pickup code a customer was shown is the
one the restaurant checks (`CodesShownAreKept`).

What `progress` shows: a batch a dead worker left behind with all its items settled is settled when
it is asked for again, claimed or refused and inspected (`AskingAgainSettles`; items that were left
processing wait for their webhook); a user is verified in the end, whatever mail or request is lost or late
(`EventuallyVerified`); what is sold out is hidden (`SoldOutIsHidden`); a rule that is switched off
is forgotten (`SwitchedOffIsForgotten`); every device is told (`EveryDeviceIsTold`).

**Bounds.** One order: two orders share no row, job, lock or payment, so a counterexample
with two contains one with one. One consumer per result is what Kafka gives a partition,
and one cron tick more than the lock on the job serialises would wait. Two requests give
every pair of handlers, and with the consumer and the tick every interleaving of four. One
fault reaches every place a handler can stop. Two transactions are what two consumers can
open at once; a third can only follow a crash, which the one fault allows. In `services` two
handlers at once are every pair of handlers of a component, and a third that ran before them is
in what they find; one user, meal or promo is enough where rows of different ones never meet,
and where they do (emails and users of `Accounts`, devices, items that are locked in turn,
balance rows of one customer, two batches that could take the same child) there are two.
`progress` has one of most things, because what must happen in the end concerns one of them.
`MaxEdits`, `MaxChanges`, `MaxGrants`, `MaxRegistered`, `MaxAttempts` bound how often users ask for
something, `MaxTokens` how many tokens there ever are: enough to exchange one twice. Symmetry is used
only in runs without liveness, over handlers, webhooks and transactions, which nothing
distinguishes.

**Deadlock** is checked in `orders_all`. The other runs leave out requests, or end when the
order and its payment are final and every bounded fault is used, so they may stop.

**Fairness.** Handlers run on; PostgreSQL queues who waits for a row, so a statement that is
enabled again and again runs (strong fairness), and breaks the deadlocks it sees; the cron
task runs every minute; Kafka redelivers until the consumer returns; Chapa sends a webhook
until it is acknowledged, which is what the handler's "ack webhook" relies on. In `progress`,
BullMQ hands a job to a worker and the worker runs on; the cron task of the stock comes back every
ten minutes; codes and cache entries expire; a user who is not verified goes on asking for a code
and presenting what came, and of the mails that are sent again and again some arrive before their
code expires (`MailInTime`): a mail that always took longer than the one minute a code lives would
lock the user out. Otherwise no request is ever assumed to be
sent, and no fault is. The strong fairness of several components is stated as that of one
disjunction, since one of them is in focus: that is the same, and cheaper for TLC.

**What the violations show.** They are the five findings of `PROJECT.json`. Under
`orders_cancel_paid` both handlers load the order while it awaits payment; the success is
saved first, and the cancellation's UPDATE then sets only `status`, leaving a CANCELLED order
that is PAID. In `orders_lost_job` the un-awaited handler of payment.initiated loads the row
before `ownerResponse` commits. In `payouts_completed` the attempts of the request to the provider
fail; its items and the batch are saved as failed, and `processAggregatedBatch` returns, so that the
queue does not try again. When somebody asks for the batch again it is claimed, no item of it is
batched, and it is completed; its items are still failed, and their children still batched.

**What nobody promises** is modelled, and no property is about it: a late failure declines a
completed order, a replayed success makes a completed one PAID, CUSTOMER_COMING cannot be left; a
promo code may be used more often than its limit by orders at once; a wrong attempt at a pickup code that is saved late takes a verification back; a rating that
was computed earlier may be saved later; a completed order that is delivered again is deducted again, and a count
of the stock that was read before may be written over a deduction; an order completed twice at once
is awarded twice; a refresh token that was not given out yet when a password is reset is valid
afterwards; a payment the provider calls "completed" is declined by catalog-service; the items of a
batch whose worker died stay processing until a webhook reports them; events that come out of order
leave the replica of a restaurant behind; a document an owner uploads leaves a restaurant active
though it is under review again; a par level of 0 empties the stock.

## Proofs

`OrdersProofs` proves, for any finite or infinite sets of orders, handlers, consumers and
ticks, any requests and any number of faults, that `Spec` implies `TypeOK`,
`CancelJobMeansImmediate`, `NoHiddenDeadlock`, `DefusedBeforePaid`,
`KitchenOnlyAfterPayment` and `AutoCancelSparesPaid`. It uses only `OrdersAssumption`
(requests, consumers and ticks are different things).

The argument is the inductive invariant `Inv`. `NoHiddenDeadlock` alone is not inductive: a
tick waits for a job inside `cancelOrder` only if its entity says `isScheduled`, so the
invariant has to know that a job a tick has locked is a cancellation job
(`TickHoldsItsJob`), and that a cancellation job belongs to an order no copy of which is
scheduled (`CancelJobMeansImmediate`). That in turn needs
that a request which reschedules or unschedules found a scheduled order, whose job is no
cancellation job (`ReschedulesScheduled`), and that a row locked before a job is touched is a
scheduled one (`LockedIsScheduled`). The
order of `handlePaymentResult`, job first and row second, gives `DefusedBeforePaid`, and with
the tick's lock on the job `AutoCancelSparesPaid`: while a tick works, the job exists, so the
order is not paid. `PaidMeansSuccess` carries the success a consumer has read into its
entity, the row and the pickup record. The lemma `Summary` sorts the steps by what they do to
rows, jobs and handlers, so that each conjunct is proved against a few kinds of step instead of
forty actions.

`PaymentsProofs` proves, for any orders, transactions, consumers, webhooks and visits in flight
and any number of faults, that `Spec` implies `TypeOK`, `OneCheckout` and `PaidMeansCharged`,
from `PaymentsAssumption`. Handlers of payment-service hold no lock, so the argument is that
what they rely on cannot change under them (`Steady`): a row, once it is there, keeps its
`tx_ref`, and a transaction that has succeeded at the provider stays so. `Inv` says what each
handler has read by the stage it is at (`HandlerOK`: a replayed row, an opened transaction, an
answer that is genuine for the transaction it is about), what the row and the top-up rest on
(`RowOK`) and what a message claims (`MsgOK`). `OneCheckout` is not inductive without it: a
consumer announces the transaction it has saved, or has read, some steps before. By the lemma
`Combine` a step is checked only on the rows, messages and handlers it changes.

The second part of `PaymentsProofs` proves that `Payments` implements `PaymentContract`, for any
orders, transactions and handlers, with `Contract` as the mapping. Initial states map to initial
states; a step of `Payments` maps to a step of the contract or to none: `OfferCheckout` is the emit
of payment.initiated, `CheckOut` what the customer does at Chapa, `Confirm` the emit of
payment.success, `Credit` the insert of the child. The mapping needs that no two orders share a
transaction, which `Inv` does not say: `Owned` does, of the payments, of the handlers that hold one
they have opened, and of what they may still open. `StepsSorted` sorts the steps into those that
open a transaction, those that record one, and the quiet rest, which keep `Owned` for one reason.

Its third part proves `ToppedUpOnce` for any consumers and visits, but one webhook at a time
(`OneWebhook`). The hypothesis is needed: the run `payments_topup_twice` is the same model with two.
The webhook looks for the child and inserts one it has not found, with nothing to lock and no index;
`OnceInv` says that who is about to insert still finds none, which another webhook could undo, and a
consumer or the landing page cannot, since only the webhook inserts.

`PayoutsProofs` proves `PaidMeansTransferred`. A row that says "paid" rests on what a handler was
told (`TasksSound`), that on the provider, which never takes back a transfer it has made
(`AggsBacked`); the children that were paid for stay those of the aggregate, because no two
workers create a batch of the same id at once (`GatherersApart`). Assumed of the constants:
every child has a restaurant, the bounds are numbers.

It proves `SentByOneWorker` under `MayForce = FALSE`: an admin who forces a claim may
have a second worker send a batch, and that is what forcing it means. The claim alone is not the argument: a
claim that is stale is taken over, and a webhook or a worker that ends may reset the status that
guards it. But a batch is fresh as long as it has batched aggregates; nobody resets the status of
a fresh batch, one worker at most has claimed it (`EarlyApart`), and that worker marks all of its
aggregates in one step, after which a second worker finds none (`TasksCareful`, `MarkedOnce`,
`RowsFresh`).

It proves `PaidOutOnce`, forced claims included, for one request at a time that creates batches
(`OneCreator`). Again the hypothesis is needed: two requests gather the same pending children, and
both link them, as the hazard at payment.service.ts:1244 says. That the transfers of two aggregates
never cover one child follows from three facts that keep one another (`ApartInv`): no two
aggregates have a child in common, a child that is pending is in none, and what a request has
gathered is pending until it links it. The last one would break if some step made a linked child
pending again: none does, not even the one that marks a failed batch.

Its last part proves that `Payouts` implements `PayoutContract`, for one request at a time that
creates batches and `MayForce = FALSE`, the hypotheses of the two theorems it rests on. `Bundle` is
the commit of a batch, `Ask` the bulk transfer, whose answer may be lost, and `Settle` what the
provider decides, now or when a request is repeated; every other step leaves covers, requests and fates alone and is a `Record`
(`StepsSorted`). The first attempt of a worker is the `Ask`, its repetitions
are a `Settle`. That nobody else has asked comes from `MarkedOnce`, that its
children are in no other from `ApartInv`, and that the record holds only what was paid out from
`ChildrenBacked`, of the state after the step. New is `LinkInv`: an aggregate that is there has
children and one that is not has none, so that a new batch changes no payout there is, and the
provider has settled no transfer it was not asked for.

`AccountsProofs` proves the types and `VerifiedWasProven`: a copy that verifies a user, unless a
single sign-on made it, is saved only after the code was used up (`CopiesProven`), so a save that comes late repeats what was
proven. Assumed: "customer" is a role.

`StockProofs` proves `DeductionsExact` for any orders, with several lines for one item too. What is
there when an order commits is compared with what was there before, several steps and locks
earlier, so the invariant is about a transaction half way: the rows it has written are locked by
it, nobody else writes a locked row, no two tasks hold one lock, and what it has written so far is
what was there less the lines it has handled (`Done`, `Deducting`). The unlocked writers do not
matter: an UPDATE waits for the lock, and what it overwrites before or after belongs to another
transaction. The second part bounds the counts, which is the type of a stock: none is negative, as
the check in the deduction is made under the lock, and none exceeds what it was at first by more
than owners have added. That is not inductive as it stands, since an addition reads the count and
saves it later: an item may have `MaxStock` and one more for each edit there ever was, except for
those whose line is not saved yet (`Cap`, `Within`).

`LoyaltyProofs` proves `PointsWereGranted`. A customer may have several balance rows, since nothing
keeps two requests from creating one each, and a row is saved with a total that was worked out from
an earlier read. The invariant is that the points of the ledger can be shared out among the rows so
that no row holds more than its share, and no transaction is about to save more than the share of
its row and what its own commit adds to the ledger (`Shares`); a row that is not there yet needs no
share before that. The sums of these shares are what `Sums` is for. Its induction over the subsets
of a finite set is by the well-founded order of strict subsets, of which a smallest counterexample
is taken: the prover cannot instantiate an induction theorem that takes a predicate.

`ServicesProofs` proves the rest of what `services` checks. Sessions: a token that was exchanged
had been revoked before its successor came, so a request that rotates it had read it by then; the
tokens made for it and the requests that are going to make one are never more than the requests
(`SessionsBounded`, kept by a lemma for the first exchange and one for each later step). A
revocation is taken back by one save only, the one with the hash of a token, which no client has
yet (`RowsStay`, `FreshApart`). Onboarding: the row, the copies that are about to be saved and the
events, late or doubled, say "active" only if an admin was behind it (`RowsDecided`,
`CopiesDecided`, `EventsDecided`). Reviews: a copy is saved to its own id and never changes its
customer or its meal, so the index decides of every write that could make a second one count
(`RequestsFit`). Pickup: there is one record for an order, and no save changes its code, since a
copy that is about to be saved has the code of the record (`WorkFits`). Notifications: types. The last part
composes: a behaviour of `ServicesSpec` is one of each component, because a step that is not its own
leaves its variables alone (`SessionsRuns` and so on), so that each theorem about a component is one
about the services, and `ServicesTypeOK` the conjunction of nine. Assumed is `ServicesAssumption`:
sets are finite where they are counted, bounds are numbers, what is absent is no value, there is an
item, and the bound on a stock is not zero, since `Ordered` asks for one of each item.

Every invariant and action property of the passing runs and both refinements are proved, then. Only
model-checked: the liveness properties, which need fairness and are beyond the prover. `OneWebhook`,
`OneCreator` and `MayForce = FALSE` are hypotheses about how the services are used, and nothing in
the code ensures them: without them the three properties they are for do not hold.

## Plan

1. `Orders`, `Payments`, `PaymentContract` and their proofs: done.
2. `Payouts`, `Stock`, `Loyalty`, `Reviews`, `Pickup`, `Accounts`, `Sessions`, `Onboarding`,
   `Notifications`: modelled and checked.
3. Proofs of every safety property the runs check: done.
4. `PayoutContract`, and the proof that `Payouts` implements it: done.
5. Next: the invariants the proofs strengthen are stated by the proof modules only; contracts for
   `Stock` and `Sessions` would say what orders and clients may rely on, as the two there are do for
   payments.

## Not modelled

* `validateSchedulingTime` and `computeSharedPromo`: pure functions of dates with time zones and of
  decimal prices; they change nothing, and a model would have to invent the calendar and the
  rounding they rely on.
* Restaurant subaccounts: one request to Chapa, one row from its answer.
* `upsertBankDetails`, categories, search, personalization, reports, analytics, uploads, audit,
  roles and permissions: queries, or one row per request that no other request reads before it
  writes.
* The Socket.IO gateway: it forwards events to whoever is connected, at most once, and is asked
  nothing back.
* analytics-service has no handlers; nginx and docker files are deployment.
