------------------------------ MODULE Payments ------------------------------
(***************************************************************************)
(* Taking the money for an order, in payment-service: the `payments` row,  *)
(* the payout child that tops the restaurant up, and the handlers that     *)
(* write them: the consumer of order.awaiting_payment, the webhook of the  *)
(* payment provider (Chapa) and the landing page the customer is sent back *)
(* to.  The provider is external: it opens a transaction, takes the money  *)
(* or not, sends webhooks, and tells whoever asks what became of it.       *)
(*                                                                         *)
(* A handler interleaves with the others at every round trip, to the       *)
(* database, to the provider or to Kafka.                                  *)
(***************************************************************************)
EXTENDS Naturals

CONSTANTS
    Orders,        \* order ids
    Txs,           \* tx_refs: a fresh one for every transaction opened
    Consumers,     \* consumers of order.awaiting_payment
    Webhooks,      \* webhook requests in flight at once
    Visits,        \* visits of the landing page in flight at once
    Nothing,       \* no order, no tx_ref
    TopUp,         \* orders whose promo the platform pays for
    SuccessWords,  \* how the provider words a success
    MaxFaults      \* bound on crashes and failed calls

Workers == Consumers \cup Webhooks \cup Visits

\* What the provider says of a transaction, where the handlers look for it.
Word == {"absent", "pending", "failed", "success", "paid", "completed"}

ASSUME PaymentsAssumption ==
    /\ Nothing \notin Orders \cup Txs
    /\ TopUp \subseteq Orders
    /\ SuccessWords \subseteq {"success", "paid", "completed"}
    /\ Consumers \cap (Webhooks \cup Visits) = {}
    /\ Webhooks \cap Visits = {}
    /\ MaxFaults \in Nat

VARIABLES
    awaiting,  \* awaiting[o]: was order.awaiting_payment sent, and for what amount
    payment,   \* payment[o]: the payments row (order_id is unique)
    children,  \* children[o]: payout_children rows topping up order o
    sent,      \* messages sent to catalog-service
    chapa,     \* chapa[t]: the transaction at the provider
    due,       \* transactions whose webhook has not been acknowledged
    missed,    \* orders whose success may go unreported: see SuccessIsReported
    faults,    \* faults so far
    work       \* work[w]: the handler w runs

vars == <<awaiting, payment, children, sent, chapa, due, missed, faults, work>>

----------------------------------------------------------------------------
(* Types *)

Payment == [status : {"none", "initiated", "paid", "failed"},
            tx : Txs \cup {Nothing}, data : Word]

Message == [topic : {"payment.initiated", "payment.success", "payment.failed"},
            order : Orders, tx : Txs \cup {Nothing}, word : Word]

Op == {"idle", "await", "webhook", "visit"}

Stage == {"idle", "replay", "init", "save", "announce", "loaded", "verified", "compared",
          "saved", "topup", "insert"}

\* row: the payment a consumer found.  tx, word: the transaction and what the provider
\* said of it.  cols: the columns the next UPDATE writes.
Task == [op : Op, order : Orders \cup {Nothing}, stage : Stage, row : Payment,
         tx : Txs \cup {Nothing}, word : Word, cols : SUBSET {"status", "data"}]

TypeOK ==
    /\ awaiting \in [Orders -> {"no", "due", "free"}]
    /\ payment \in [Orders -> Payment]
    /\ children \in [Orders -> Nat]
    /\ sent \subseteq Message
    /\ chapa \in [Txs -> {"none", "open", "success", "failed"}]
    /\ due \subseteq Txs
    /\ missed \subseteq Orders
    /\ faults \in 0 .. MaxFaults
    /\ work \in [Workers -> Task]

----------------------------------------------------------------------------
(* Operators *)

NoPayment == [status |-> "none", tx |-> Nothing, data |-> "absent"]

Idle == [op |-> "idle", order |-> Nothing, stage |-> "idle", row |-> NoPayment,
         tx |-> Nothing, word |-> "absent", cols |-> {}]

Active(w) == work[w].op # "idle"
At(w, op, stage) == work[w].op = op /\ work[w].stage = stage

Msg(topic, o, tx, word) == [topic |-> topic, order |-> o, tx |-> tx, word |-> word]

\* What verifyTransaction may answer.
Answers(t) ==
    CASE chapa[t] = "success" -> SuccessWords
      [] chapa[t] = "failed"  -> {"failed"}
      [] OTHER                -> {"pending"}

\* The webhook takes any of these for a success; the landing page and
\* catalog-service do not know 'completed'.
WebhookSuccess(word) == word \in {"success", "paid", "completed"}
PageSuccess_OrPending(word) == word \in {"success", "paid", "pending"}
PageSuccess(word) == word \in {"success", "paid"}
CatalogSuccess(word) == word \in {"success", "paid"}

\* The payment in the state in which a webhook is ignored.
Ignored_Settled(status) == status # "initiated"
Ignored(status) == status = "paid"

\* The status a handler is about to save.
NewStatus_ProviderWord(w) == work[w].word
NewStatus(w) ==
    IF \/ (work[w].op = "webhook" /\ WebhookSuccess(work[w].word))
       \/ (work[w].op = "visit" /\ PageSuccess(work[w].word))
    THEN "paid" ELSE "failed"

SuccessSent(o) == \E m \in sent : m.order = o /\ CatalogSuccess(m.word)

\* A success was reported in a word that catalog-service does not take for one.
Misread(o) == \E m \in sent : m.topic = "payment.success" /\ m.order = o /\ ~ CatalogSuccess(m.word)

\* Was the customer charged for order o?
Charged(o) ==
    \E t \in Txs : /\ chapa[t] = "success"
                   /\ \E m \in sent : m.topic = "payment.initiated" /\ m.order = o /\ m.tx = t

Goto(w, stage) == work' = [work EXCEPT ![w].stage = stage]
Finish(w) == work' = [work EXCEPT ![w] = Idle]

Begin(w, op, o, stage, row, tx, word) ==
    /\ ~ Active(w)
    /\ work' = [work EXCEPT ![w] = [op |-> op, order |-> o, stage |-> stage, row |-> row,
                                    tx |-> tx, word |-> word, cols |-> {}]]
    /\ UNCHANGED <<awaiting, payment, children, sent, chapa, due, missed, faults>>

\* Send a message and end.
EmitAndFinish(w, message) ==
    /\ sent' = sent \cup {message}
    /\ Finish(w)
    /\ UNCHANGED <<awaiting, payment, children, chapa, due, missed, faults>>

----------------------------------------------------------------------------
Init ==
    /\ awaiting = [o \in Orders |-> "no"]
    /\ payment = [o \in Orders |-> NoPayment]
    /\ children = [o \in Orders |-> 0]
    /\ sent = {}
    /\ chapa = [t \in Txs |-> "none"]
    /\ due = {}
    /\ missed = {}
    /\ faults = 0
    /\ work = [w \in Workers |-> Idle]

----------------------------------------------------------------------------
(* handleOrderAwaitingPayment *)

\* A payload without an amount, and 0 is none, is refused.
RefuseOrder(c, o) ==
    /\ awaiting[o] = "free"
    /\ ~ Active(c)
    /\ EmitAndFinish(c, Msg("payment.failed", o, Nothing, "absent"))

\* A message may be delivered again at any time.
HandleOrderAwaitingPayment(c, o) ==
    /\ awaiting[o] = "due"
    /\ Begin(c, "await", o, IF payment[o].status = "none" THEN "init" ELSE "replay",
             payment[o], Nothing, "absent")

\* There is a payment already: send again what became of it when it was read.
ReplayExisting(c) ==
    LET r == work[c].row
        o == work[c].order IN
    /\ At(c, "await", "replay")
    /\ EmitAndFinish(c, CASE r.status = "initiated" -> Msg("payment.initiated", o, r.tx, "absent")
                          [] r.status = "paid"      -> Msg("payment.success", o, r.tx, r.data)
                          [] OTHER                  -> Msg("payment.failed", o, r.tx, "absent"))

\* The provider opens a transaction, at the first or at a later attempt.
OpenTransaction(c, t) ==
    /\ At(c, "await", "init")
    /\ chapa[t] = "none"
    /\ chapa' = [chapa EXCEPT ![t] = "open"]
    /\ work' = [work EXCEPT ![c].stage = "save", ![c].tx = t]
    /\ UNCHANGED <<awaiting, payment, children, sent, due, missed, faults>>

\* Every attempt fails.  No row is written.
InitFails(c) ==
    /\ At(c, "await", "init")
    /\ EmitAndFinish(c, Msg("payment.failed", work[c].order, Nothing, "absent"))

SavePayment(c) ==
    LET o == work[c].order IN
    /\ At(c, "await", "save")
    /\ payment[o].status = "none"
    /\ payment' = [payment EXCEPT ![o] = [status |-> "initiated", tx |-> work[c].tx,
                                          data |-> "absent"]]
    /\ Goto(c, "announce")
    /\ UNCHANGED <<awaiting, children, sent, chapa, due, missed, faults>>

SaveConflict_OwnTx(c) ==
    LET o == work[c].order IN
    /\ At(c, "await", "save")
    /\ payment[o].status # "none"
    /\ EmitAndFinish(c, Msg("payment.initiated", o, work[c].tx, "absent"))

\* order_id is taken: announce the transaction of the row that is there, whatever its
\* status is.
SaveConflict(c) ==
    LET o == work[c].order IN
    /\ At(c, "await", "save")
    /\ payment[o].status # "none"
    /\ EmitAndFinish(c, Msg("payment.initiated", o, payment[o].tx, "absent"))

\* The row cannot be written, and there is none.
SaveFails(c) ==
    LET o == work[c].order IN
    /\ At(c, "await", "save")
    /\ payment[o].status = "none"
    /\ faults < MaxFaults
    /\ faults' = faults + 1
    /\ sent' = sent \cup {Msg("payment.failed", o, work[c].tx, "absent")}
    /\ Finish(c)
    /\ UNCHANGED <<awaiting, payment, children, chapa, due, missed>>

AnnouncePayment(c) ==
    /\ At(c, "await", "announce")
    /\ EmitAndFinish(c, Msg("payment.initiated", work[c].order, work[c].tx, "absent"))

----------------------------------------------------------------------------
(* handleChapaWebhook, payments *)

\* A webhook for a transaction that has come to its end, sent once or more often.
\* It is ignored (and so acknowledged) if the payment is marked paid.
ReceiveWebhook(w, o) ==
    /\ payment[o].tx # Nothing
    /\ chapa[payment[o].tx] \in {"success", "failed"}
    /\ ~ Ignored(payment[o].status)
    /\ Begin(w, "webhook", o, "loaded", NoPayment, payment[o].tx, "absent")

IgnoreWebhook(w, o) ==
    /\ Ignored(payment[o].status)
    /\ payment[o].tx \in due
    /\ ~ Active(w)
    /\ due' = due \ {payment[o].tx}
    /\ UNCHANGED <<awaiting, payment, children, sent, chapa, missed, faults, work>>

\* Ask the provider.
VerifyTransaction(w) ==
    /\ At(w, "webhook", "loaded")
    /\ \E word \in Answers(work[w].tx) :
          work' = [work EXCEPT ![w].stage = "verified", ![w].word = word]
    /\ UNCHANGED <<awaiting, payment, children, sent, chapa, due, missed, faults>>

\* The provider does not answer, or a statement fails: the handler catches it and the
\* webhook is acknowledged.
WebhookFails(w) ==
    /\ work[w].op = "webhook"
    /\ work[w].stage # "saved"
    /\ faults < MaxFaults
    /\ faults' = faults + 1
    /\ missed' = missed \cup {work[w].order}
    /\ due' = due \ {work[w].tx}
    /\ Finish(w)
    /\ UNCHANGED <<awaiting, payment, children, sent, chapa>>

\* repository.save compares the entity with the row...
ComparePayment(w) ==
    LET r == payment[work[w].order] IN
    /\ work[w].stage = "verified"
    /\ work' = [work EXCEPT ![w].stage = "compared",
                            ![w].cols = {c \in {"status", "data"} :
                                \/ c = "status" /\ NewStatus(w) # r.status
                                \/ c = "data" /\ work[w].word # r.data}]
    /\ UNCHANGED <<awaiting, payment, children, sent, chapa, due, missed, faults>>

\* ... and updates the columns that differ.
UpdatePayment(w) ==
    LET o == work[w].order IN
    payment' = [payment EXCEPT
                    ![o].status = IF "status" \in work[w].cols THEN NewStatus(w) ELSE @,
                    ![o].data = IF "data" \in work[w].cols THEN work[w].word ELSE @]

SaveWebhook(w) ==
    /\ At(w, "webhook", "compared")
    /\ UpdatePayment(w)
    /\ Goto(w, "saved")
    /\ UNCHANGED <<awaiting, children, sent, chapa, due, missed, faults>>

\* The end of a webhook request: it is acknowledged.
Acknowledge(w) ==
    /\ due' = due \ {work[w].tx}
    /\ Finish(w)

\* payment.success, then the top-up; or payment.failed.
EmitResult(w) ==
    LET o == work[w].order IN
    /\ At(w, "webhook", "saved")
    /\ sent' = sent \cup {Msg(IF NewStatus(w) = "paid" THEN "payment.success" ELSE "payment.failed",
                              o, work[w].tx, work[w].word)}
    /\ IF NewStatus(w) = "paid" /\ o \in TopUp
       THEN Goto(w, "topup") /\ due' = due
       ELSE Acknowledge(w)
    /\ UNCHANGED <<awaiting, payment, children, chapa, missed, faults>>

\* Kafka refuses the message: that is logged, and the handler goes on.
EmitResultFails(w) ==
    LET o == work[w].order IN
    /\ At(w, "webhook", "saved")
    /\ faults < MaxFaults
    /\ faults' = faults + 1
    /\ missed' = missed \cup {o}
    /\ IF NewStatus(w) = "paid" /\ o \in TopUp
       THEN Goto(w, "topup") /\ due' = due
       ELSE Acknowledge(w)
    /\ UNCHANGED <<awaiting, payment, children, sent, chapa>>

FindChild_Skipped(w) ==
    /\ At(w, "webhook", "topup")
    /\ Goto(w, "insert") /\ due' = due
    /\ UNCHANGED <<awaiting, payment, children, sent, chapa, missed, faults>>

\* Is there a payout child for this order already?
FindChild(w) ==
    /\ At(w, "webhook", "topup")
    /\ IF children[work[w].order] > 0
       THEN Acknowledge(w)
       ELSE Goto(w, "insert") /\ due' = due
    /\ UNCHANGED <<awaiting, payment, children, sent, chapa, missed, faults>>

InsertChild(w) ==
    /\ At(w, "webhook", "insert")
    /\ children' = [children EXCEPT ![work[w].order] = @ + 1]
    /\ Acknowledge(w)
    /\ UNCHANGED <<awaiting, payment, sent, chapa, missed, faults>>

----------------------------------------------------------------------------
(* verifyTxRef: the landing page *)

\* The provider is asked first, the payment is read afterwards.
VisitLandingPage(v, o) ==
    /\ payment[o].tx # Nothing
    /\ \E word \in Answers(payment[o].tx) :
          Begin(v, "visit", o, "verified", NoPayment, payment[o].tx, word)

\* The payment is saved, and nobody is told.
SaveVisit(v) ==
    /\ At(v, "visit", "compared")
    /\ UpdatePayment(v)
    /\ missed' = missed \cup {o \in Orders : o = work[v].order /\ NewStatus(v) = "paid"}
    /\ Finish(v)
    /\ UNCHANGED <<awaiting, children, sent, chapa, due, faults>>

----------------------------------------------------------------------------
(* Faults and the environment *)

\* The process crashes, and the webhook is not acknowledged; or the call a consumer or a
\* landing page makes fails, a message not sent included.
Crash(w) ==
    /\ Active(w)
    /\ faults < MaxFaults
    /\ faults' = faults + 1
    /\ missed' = missed \cup {o \in Orders : o = work[w].order /\ work[w].stage = "saved"}
    /\ Finish(w)
    /\ UNCHANGED <<awaiting, payment, children, sent, chapa, due>>

\* catalog-service sends order.awaiting_payment.
AwaitPayment(o, amount) ==
    /\ awaiting[o] = "no"
    /\ awaiting' = [awaiting EXCEPT ![o] = amount]
    /\ UNCHANGED <<payment, children, sent, chapa, due, missed, faults, work>>

\* The customer, who got the checkout link with payment.initiated, pays or fails to.
Settle(t, outcome) ==
    /\ chapa[t] = "open"
    /\ \E m \in sent : m.topic = "payment.initiated" /\ m.tx = t
    /\ chapa' = [chapa EXCEPT ![t] = outcome]
    /\ due' = due \cup {t}
    /\ UNCHANGED <<awaiting, payment, children, sent, missed, faults, work>>

----------------------------------------------------------------------------
(* Specification *)

Progress(w) ==
    \/ ReplayExisting(w)
    \/ \E t \in Txs : OpenTransaction(w, t)
    \/ InitFails(w)
    \/ SavePayment(w)
    \/ SaveConflict(w)
    \/ AnnouncePayment(w)
    \/ VerifyTransaction(w)
    \/ ComparePayment(w)
    \/ SaveWebhook(w)
    \/ EmitResult(w)
    \/ FindChild(w)
    \/ InsertChild(w)
    \/ SaveVisit(w)

Fault(w) == SaveFails(w) \/ WebhookFails(w) \/ EmitResultFails(w) \/ Crash(w)

Environment ==
    \/ \E o \in Orders, amount \in {"due", "free"} : AwaitPayment(o, amount)
    \/ \E t \in Txs, outcome \in {"success", "failed"} : Settle(t, outcome)

Next ==
    \/ \E c \in Consumers, o \in Orders : RefuseOrder(c, o) \/ HandleOrderAwaitingPayment(c, o)
    \/ \E w \in Webhooks, o \in Orders : ReceiveWebhook(w, o) \/ IgnoreWebhook(w, o)
    \/ \E v \in Visits, o \in Orders : VisitLandingPage(v, o)
    \/ \E w \in Workers : Progress(w) \/ Fault(w)
    \/ Environment

Spec == Init /\ [][Next]_vars

\* Handlers run on, and the provider sends a webhook until it is acknowledged.
Fairness ==
    /\ \A w \in Workers : WF_vars(Progress(w))
    /\ \A o \in Orders :
          WF_vars(\E w \in Webhooks : payment[o].tx \in due
                                      /\ (ReceiveWebhook(w, o) \/ IgnoreWebhook(w, o)))

FairSpec == Spec /\ Fairness

----------------------------------------------------------------------------
(* The abstract specification *)

\* What the rest of the system sees: the links in the messages sent, what became of the
\* transactions, which orders were reported as paid and which restaurants topped up.
Link(o) == {t \in Txs : \E m \in sent : m.topic = "payment.initiated" /\ m.order = o /\ m.tx = t}

Fate(t) == IF chapa[t] \in {"success", "failed"} THEN chapa[t] ELSE "none"

Contract == INSTANCE PaymentContract
    WITH link <- [o \in Orders |-> Link(o)],
         fate <- [t \in Txs |-> Fate(t)],
         confirmed <- {o \in Orders : SuccessSent(o)},
         credited <- {o \in Orders : children[o] > 0}

----------------------------------------------------------------------------
(* Properties *)

\* However often order.awaiting_payment is delivered, and to however many consumers at
\* once, the customer only ever gets the checkout link of the one transaction the
\* payments row records: another could be paid and its webhook would find no payment.
OneCheckout ==
    \A m \in sent : m.topic = "payment.initiated" =>
        payment[m.order].status # "none" /\ payment[m.order].tx = m.tx

\* A payment is marked paid, catalog-service is told of a success, and the restaurant is
\* topped up, only if the provider was paid, and in the very transaction the payment
\* records, which no other consumer has replaced since.
PaidMeansCharged ==
    \A o \in Orders :
        payment[o].status = "paid" \/ SuccessSent(o) \/ children[o] > 0 =>
            chapa[payment[o].tx] = "success"

\* "create a payout child (idempotent)": no order is topped up twice, though a landing
\* page with an old answer makes the next webhook do everything again.  It is so while
\* one webhook is handled at a time, and no longer when two are.
ToppedUpOnce == \A o \in Orders : children[o] <= 1

\* A charge is reported to catalog-service in a word it takes for a success, with three
\* exceptions: a landing page marked the payment as paid, a webhook failed or was cut off before
\* the report, or the report says "completed", on which catalog-service declines the order.  A
\* payment marked as failed by a landing page that asked too early, or that does not know
\* "completed", recovers.
SuccessIsReported ==
    \A o \in Orders : Charged(o) ~> SuccessSent(o) \/ o \in missed \/ Misread(o)

\* "emit payment.success event": without crash or failed call, a charge is reported.
\* That is not so: the payment that a landing page marked as paid is ignored when its
\* webhook comes.
ChargeIsReported == \A o \in Orders : Charged(o) ~> SuccessSent(o)

\* The handlers, their retries and their races implement the contract: they offer one link for
\* an order and never another order's, and confirm and credit what was charged through it.
ImplementsContract == Contract!Spec

=============================================================================
