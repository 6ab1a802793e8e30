--------------------------- MODULE PaymentsProofs ---------------------------
(***************************************************************************)
(* Theorems about Payments, for any orders, consumers, webhooks and visits *)
(* in flight, any provider of transactions and any number of faults.       *)
(***************************************************************************)
EXTENDS Payments, TLAPS

----------------------------------------------------------------------------
(* The inductive invariant *)

\* What calls itself a success of transaction t is one at the provider.
Genuine(word, t) == WebhookSuccess(word) => t \in Txs /\ chapa[t] = "success"

\* The payment of an order, and the top-up that rests on it.
RowOK(o) ==
    /\ payment[o].status = "none" <=> payment[o].tx = Nothing
    /\ Genuine(payment[o].data, payment[o].tx)
    /\ payment[o].status = "paid" \/ children[o] > 0 =>
           payment[o].tx \in Txs /\ chapa[payment[o].tx] = "success"

\* A message names the transaction of the payment, and claims no success it has not had.
MsgOK(m) ==
    /\ m.topic = "payment.initiated" =>
           payment[m.order].tx \in Txs /\ payment[m.order].tx = m.tx
    /\ CatalogSuccess(m.word) =>
           payment[m.order].tx \in Txs /\ chapa[payment[m.order].tx] = "success"

\* What a handler has read still holds when it is used: the transaction of a payment
\* never changes, and a success never goes.
HandlerOK(w) ==
    /\ Active(w) => work[w].order \in Orders
    /\ At(w, "await", "replay") =>
           /\ work[w].row.tx \in Txs
           /\ work[w].row.tx = payment[work[w].order].tx
           /\ Genuine(work[w].row.data, work[w].row.tx)
    /\ At(w, "await", "save") => work[w].tx \in Txs
    /\ At(w, "await", "announce") \/ work[w].op \in {"webhook", "visit"} =>
           work[w].tx \in Txs /\ work[w].tx = payment[work[w].order].tx
    /\ Genuine(work[w].word, work[w].tx)
    /\ work[w].op = "await" => ~ WebhookSuccess(work[w].word)
    /\ work[w].stage \in {"verified", "compared"} => work[w].op \in {"webhook", "visit"}
    /\ work[w].stage \in {"topup", "insert"} =>
           work[w].op = "webhook" /\ WebhookSuccess(work[w].word)

Inv ==
    /\ TypeOK
    /\ \A o \in Orders : RowOK(o)
    /\ \A m \in sent : MsgOK(m)
    /\ \A w \in Workers : HandlerOK(w)

----------------------------------------------------------------------------
(* What no step does *)

\* The transaction of a payment never changes, and a success never goes.
Steady ==
    /\ \A o \in Orders : payment[o].tx # Nothing => payment'[o].tx = payment[o].tx
    /\ \A t \in Txs : chapa[t] = "success" => chapa'[t] = "success"

\* What a handler relies on survives the steps of the others.
LEMMA HandlerKept ==
    ASSUME TypeOK, Steady, NEW w \in Workers, HandlerOK(w), work'[w] = work[w]
    PROVE  HandlerOK(w)'
  <1>1. work[w] \in Task
    BY DEF TypeOK
  <1>2. work[w].op # "idle" => work[w].order \in Orders
    BY DEF HandlerOK, Active
  <1>3. \A t \in Txs : t # Nothing
    BY PaymentsAssumption
  <1>4. \A word, t : Genuine(word, t) => Genuine(word, t)'
    BY DEF Steady, Genuine, WebhookSuccess
  <1>5. (Active(w) => work[w].order \in Orders)'
    BY <1>2 DEF Active
  <1>6. At(w, "await", "replay")' =>
           /\ work'[w].row.tx \in Txs
           /\ work'[w].row.tx = payment'[work'[w].order].tx
           /\ Genuine(work[w].row.data, work[w].row.tx)'
    BY <1>1, <1>2, <1>3, <1>4 DEF HandlerOK, At, Steady, Task, Payment
  <1>7. (At(w, "await", "announce") \/ work[w].op \in {"webhook", "visit"})' =>
           work'[w].tx \in Txs /\ work'[w].tx = payment'[work'[w].order].tx
    BY <1>1, <1>2, <1>3 DEF HandlerOK, At, Steady
  <1>8. Genuine(work[w].word, work[w].tx)'
    BY <1>4 DEF HandlerOK, Genuine
  <1> QED BY <1>5, <1>6, <1>7, <1>8 DEF HandlerOK, At, WebhookSuccess

\* A payment no step touches, and a message sent, stay right.
LEMMA RowKept ==
    ASSUME TypeOK, Steady, NEW o \in Orders, RowOK(o),
           payment'[o] = payment[o], children'[o] = children[o]
    PROVE  RowOK(o)'
  BY DEF RowOK, Genuine, Steady, WebhookSuccess

LEMMA MsgKept ==
    ASSUME TypeOK, Steady, NEW m \in sent, MsgOK(m)
    PROVE  MsgOK(m)'
  <1>1. m.order \in Orders
    BY DEF TypeOK, Message
  <1>2. Nothing \notin Txs
    BY PaymentsAssumption
  <1> QED BY <1>1, <1>2 DEF MsgOK, Steady, CatalogSuccess

\* So it is enough to look at what a step changes.
LEMMA Combine ==
    ASSUME Inv, TypeOK', Steady,
           \A w \in Workers : work'[w] = work[w] \/ HandlerOK(w)',
           \A o \in Orders : \/ payment'[o] = payment[o] /\ children'[o] = children[o]
                             \/ RowOK(o)',
           \A m \in sent' : m \in sent \/ MsgOK(m)'
    PROVE  Inv'
  <1>1. (\A w \in Workers : HandlerOK(w))'
    BY HandlerKept DEF Inv
  <1>2. (\A o \in Orders : RowOK(o))'
    BY RowKept DEF Inv
  <1>3. (\A m \in sent : MsgOK(m))'
    BY MsgKept DEF Inv
  <1> QED BY <1>1, <1>2, <1>3 DEF Inv

\* A handler that has ended has read nothing.
LEMMA IdleOK ==
    ASSUME TypeOK, NEW v \in Workers, Finish(v)
    PROVE  \A w \in Workers : work'[w] = work[w] \/ HandlerOK(w)'
  BY DEF TypeOK, Finish, Idle, HandlerOK, At, Active, Genuine, WebhookSuccess

----------------------------------------------------------------------------
(* Steps of the same shape *)

\* Nothing but handlers and bookkeeping changes.
LEMMA OnlyWork ==
    ASSUME Inv, UNCHANGED <<payment, children, sent, chapa>>,
           awaiting' \in [Orders -> {"no", "due", "free"}], due' \subseteq Txs,
           missed' \subseteq Orders, faults' \in 0 .. MaxFaults,
           work' \in [Workers -> Task],
           \A w \in Workers : work'[w] = work[w] \/ HandlerOK(w)'
    PROVE  Inv'
  <1>1. TypeOK'
    BY DEF Inv, TypeOK
  <1>2. Steady
    BY DEF Steady
  <1> QED BY <1>1, <1>2, Combine

\* A handler sends a message and ends.
LEMMA SendAndFinish ==
    ASSUME Inv, NEW w \in Workers, NEW message \in Message, MsgOK(message),
           EmitAndFinish(w, message)
    PROVE  Inv'
  <1> USE DEF EmitAndFinish
  <1>1. TypeOK'
    BY DEF Inv, TypeOK, Finish, Idle, Task, Op, Stage, Word, Payment, NoPayment
  <1>2. Steady
    BY DEF Steady
  <1>3. \A v \in Workers : work'[v] = work[v] \/ HandlerOK(v)'
    BY IdleOK DEF Inv
  <1>4. \A m \in sent' : m \in sent \/ MsgOK(m)'
    BY DEF MsgOK
  <1> QED BY <1>1, <1>2, <1>3, <1>4, Combine

\* A handler starts.
LEMMA Begun ==
    ASSUME Inv, NEW w \in Workers, NEW op \in Op, NEW o \in Orders, NEW stage \in Stage,
           NEW row \in Payment, NEW tx \in Txs \cup {Nothing}, NEW word \in Word,
           Begin(w, op, o, stage, row, tx, word), HandlerOK(w)'
    PROVE  Inv'
  <1>1. work' \in [Workers -> Task]
    BY DEF Inv, TypeOK, Begin, Task
  <1>2. \A v \in Workers : work'[v] = work[v] \/ HandlerOK(v)'
    BY DEF Inv, TypeOK, Begin
  <1> QED BY <1>1, <1>2, OnlyWork DEF Inv, TypeOK, Begin

----------------------------------------------------------------------------
(* The consumer of order.awaiting_payment *)

LEMMA Consumed ==
    ASSUME Inv, NEW c \in Consumers, NEW o \in Orders,
           RefuseOrder(c, o) \/ HandleOrderAwaitingPayment(c, o)
    PROVE  Inv'
  <1>1. c \in Workers
    BY DEF Workers
  <1>2. CASE RefuseOrder(c, o)
    <2> DEFINE m == Msg("payment.failed", o, Nothing, "absent")
    <2>1. m \in Message /\ MsgOK(m)
      BY DEF Msg, Message, Word, MsgOK, CatalogSuccess
    <2>2. EmitAndFinish(c, m)
      BY <1>2 DEF RefuseOrder
    <2> HIDE DEF m
    <2> QED BY <1>1, <2>1, <2>2, SendAndFinish
  <1>3. CASE HandleOrderAwaitingPayment(c, o)
    <2> DEFINE stage == IF payment[o].status = "none" THEN "init" ELSE "replay"
    <2>1. Begin(c, "await", o, stage, payment[o], Nothing, "absent")
      BY <1>3 DEF HandleOrderAwaitingPayment
    <2>2. /\ stage \in Stage /\ "await" \in Op /\ "absent" \in Word
          /\ payment[o] \in Payment
      BY DEF Stage, Op, Word, Inv, TypeOK
    <2>3. work'[c] = [op |-> "await", order |-> o, stage |-> stage, row |-> payment[o],
                      tx |-> Nothing, word |-> "absent", cols |-> {}]
      BY <1>1, <2>1 DEF Begin, Inv, TypeOK
    <2>4. UNCHANGED <<payment, chapa>>
      BY <2>1 DEF Begin
    <2>5. stage = "replay" => payment[o].tx \in Txs
      BY <2>2 DEF Inv, RowOK, Payment
    <2>6. Genuine(payment[o].data, payment[o].tx)
      BY DEF Inv, RowOK
    <2>7. HandlerOK(c)'
      BY <2>3, <2>4, <2>5, <2>6 DEF HandlerOK, At, Active, Genuine, WebhookSuccess
    <2> HIDE DEF stage
    <2> QED BY <1>1, <2>1, <2>2, <2>7, Begun
  <1> QED BY <1>2, <1>3

LEMMA Replayed ==
    ASSUME Inv, NEW c \in Workers, ReplayExisting(c)
    PROVE  Inv'
  <1> DEFINE r == work[c].row
             o == work[c].order
             m == CASE r.status = "initiated" -> Msg("payment.initiated", o, r.tx, "absent")
                    [] r.status = "paid"      -> Msg("payment.success", o, r.tx, r.data)
                    [] OTHER                  -> Msg("payment.failed", o, r.tx, "absent")
  <1>1. EmitAndFinish(c, m) /\ At(c, "await", "replay")
    BY DEF ReplayExisting
  <1>2. o \in Orders /\ r \in Payment
    BY <1>1 DEF Inv, TypeOK, Task, HandlerOK, At, Active
  <1>3. r.tx \in Txs /\ r.tx = payment[o].tx /\ Genuine(r.data, r.tx)
    BY <1>1 DEF Inv, HandlerOK
  <1>4. m \in Message
    BY <1>2 DEF Msg, Message, Payment, Word
  <1>5. MsgOK(m)
    BY <1>3 DEF Msg, MsgOK, CatalogSuccess, Genuine, WebhookSuccess
  <1> HIDE DEF m
  <1> QED BY <1>1, <1>4, <1>5, SendAndFinish

\* The ways to end after the transaction is opened, or is not.
LEMMA Announced ==
    ASSUME Inv, NEW c \in Workers,
           InitFails(c) \/ SaveConflict(c) \/ AnnouncePayment(c)
    PROVE  Inv'
  <1> DEFINE o == work[c].order
  <1>1. o \in Orders /\ work[c] \in Task /\ payment[o] \in Payment
    BY DEF Inv, TypeOK, HandlerOK, At, Active, InitFails, SaveConflict, AnnouncePayment
  <1>2. CASE InitFails(c)
    <2> DEFINE m == Msg("payment.failed", o, Nothing, "absent")
    <2>1. m \in Message /\ MsgOK(m) /\ EmitAndFinish(c, m)
      BY <1>1, <1>2 DEF InitFails, Msg, Message, Word, MsgOK, CatalogSuccess
    <2> HIDE DEF m
    <2> QED BY <2>1, SendAndFinish
  <1>3. CASE SaveConflict(c)
    <2> DEFINE m == Msg("payment.initiated", o, payment[o].tx, "absent")
    <2>1. payment[o].tx \in Txs
      BY <1>1, <1>3 DEF SaveConflict, Inv, RowOK, Payment
    <2>2. m \in Message /\ MsgOK(m) /\ EmitAndFinish(c, m)
      BY <1>1, <1>3, <2>1 DEF SaveConflict, Msg, Message, Word, MsgOK, CatalogSuccess
    <2> HIDE DEF m
    <2> QED BY <2>2, SendAndFinish
  <1>4. CASE AnnouncePayment(c)
    <2> DEFINE m == Msg("payment.initiated", o, work[c].tx, "absent")
    <2>1. work[c].tx \in Txs /\ work[c].tx = payment[o].tx
      BY <1>4 DEF AnnouncePayment, Inv, HandlerOK
    <2>2. m \in Message /\ MsgOK(m) /\ EmitAndFinish(c, m)
      BY <1>1, <1>4, <2>1 DEF AnnouncePayment, Msg, Message, Word, MsgOK, CatalogSuccess
    <2> HIDE DEF m
    <2> QED BY <2>2, SendAndFinish
  <1> QED BY <1>2, <1>3, <1>4

LEMMA Opened ==
    ASSUME Inv, NEW c \in Workers, NEW t \in Txs, OpenTransaction(c, t)
    PROVE  Inv'
  <1> USE DEF OpenTransaction
  <1>0. work[c] \in Task /\ work \in [Workers -> Task] /\ "save" \in Stage
    BY DEF Inv, TypeOK, Stage
  <1>1. /\ work' \in [Workers -> Task]
        /\ chapa' \in [Txs -> {"none", "open", "success", "failed"}]
    <2>1. work' \in [Workers -> Task]
      BY <1>0 DEF Task
    <2> QED BY <2>1 DEF Inv, TypeOK
  <1>2. TypeOK'
    BY <1>1 DEF Inv, TypeOK
  <1>3. Steady
    BY DEF Steady, Inv, TypeOK
  <1>4. /\ work'[c].stage = "save" /\ work'[c].tx = t
        /\ work'[c].op = work[c].op /\ work'[c].order = work[c].order
        /\ work'[c].word = work[c].word
    BY <1>0 DEF Task
  <1>5. work[c].op = "await" /\ work[c].order \in Orders /\ ~ WebhookSuccess(work[c].word)
    BY DEF Inv, HandlerOK, At, Active
  <1>6. HandlerOK(c)'
    BY <1>4, <1>5 DEF HandlerOK, At, Active, Genuine, WebhookSuccess
  <1>7. \A v \in Workers : work'[v] = work[v] \/ HandlerOK(v)'
    BY <1>6 DEF Inv, TypeOK
  <1> QED BY <1>2, <1>3, <1>7, Combine

\* A handler goes on to its next stage.
LEMMA Moved ==
    ASSUME TypeOK, NEW w \in Workers, NEW stage \in Stage, Goto(w, stage)
    PROVE  /\ work' \in [Workers -> Task]
           /\ work'[w].stage = stage
           /\ work'[w].op = work[w].op /\ work'[w].order = work[w].order
           /\ work'[w].tx = work[w].tx /\ work'[w].word = work[w].word
           /\ \A v \in Workers : v # w => work'[v] = work[v]
  BY DEF TypeOK, Goto, Task

LEMMA Saved ==
    ASSUME Inv, NEW c \in Workers, SavePayment(c)
    PROVE  Inv'
  <1> USE DEF SavePayment
  <1>1. PICK o \in Orders :
            o = work[c].order /\ work[c].tx \in Txs /\ payment[o].status = "none"
    BY DEF Inv, HandlerOK, At, Active
  <1>2. /\ payment'[o] = [status |-> "initiated", tx |-> work[c].tx, data |-> "absent"]
        /\ \A p \in Orders : p # o => payment'[p] = payment[p]
    BY <1>1 DEF Inv, TypeOK
  <1>3. /\ work' \in [Workers -> Task]
        /\ work'[c].stage = "announce"
        /\ work'[c].op = work[c].op /\ work'[c].order = work[c].order
        /\ work'[c].tx = work[c].tx /\ work'[c].word = work[c].word
        /\ \A v \in Workers : v # c => work'[v] = work[v]
    BY Moved DEF Stage, Inv
  <1>4. payment' \in [Orders -> Payment]
    BY <1>1 DEF Inv, TypeOK, Payment, Word
  <1>5. TypeOK'
    BY <1>3, <1>4 DEF Inv, TypeOK
  <1>6. Steady
    <2>1. payment[o].tx = Nothing
      BY <1>1 DEF Inv, RowOK
    <2> QED BY <1>2, <2>1 DEF Steady
  <1>7. ~ (children[o] > 0)
    BY <1>1, PaymentsAssumption DEF Inv, RowOK
  <1>8. RowOK(o)'
    BY <1>1, <1>2, <1>7, PaymentsAssumption DEF RowOK, Genuine, WebhookSuccess
  <1>9. HandlerOK(c)'
    BY <1>1, <1>2, <1>3 DEF Inv, HandlerOK, At, Active, Genuine, WebhookSuccess
  <1> QED BY <1>2, <1>3, <1>5, <1>6, <1>8, <1>9, Combine

LEMMA NotSaved ==
    ASSUME Inv, NEW c \in Workers, SaveFails(c)
    PROVE  Inv'
  <1> USE DEF SaveFails
  <1>1. work[c].order \in Orders /\ work[c] \in Task
    BY DEF Inv, TypeOK, HandlerOK, At, Active
  <1>2. Msg("payment.failed", work[c].order, work[c].tx, "absent") \in Message
    BY <1>1 DEF Msg, Message, Word, Task
  <1>3. PICK m \in Message : /\ sent' = sent \cup {m}
                             /\ m.topic = "payment.failed" /\ m.word = "absent"
    BY <1>2 DEF Msg
  <1>4. \A x \in sent' : x \in sent \/ MsgOK(x)'
    BY <1>3 DEF MsgOK, CatalogSuccess
  <1>5. TypeOK'
    BY <1>3, PaymentsAssumption
    DEF Inv, TypeOK, Finish, Idle, Task, Op, Stage, Word, Payment, NoPayment
  <1>6. Steady /\ UNCHANGED <<payment, children>>
    BY DEF Steady
  <1>7. \A v \in Workers : work'[v] = work[v] \/ HandlerOK(v)'
    BY IdleOK DEF Inv
  <1> HIDE DEF SaveFails
  <1> QED BY <1>4, <1>5, <1>6, <1>7, Combine

----------------------------------------------------------------------------
(* The webhook and the landing page *)

\* The provider calls nothing a success that is not one.
LEMMA AnswersGenuine ==
    ASSUME TypeOK, NEW t \in Txs, NEW word \in Answers(t)
    PROVE  word \in Word /\ Genuine(word, t)
  BY PaymentsAssumption DEF Answers, Word, Genuine, WebhookSuccess

\* The transaction of a payment there is.
LEMMA Recorded ==
    ASSUME Inv, NEW o \in Orders, payment[o].tx # Nothing
    PROVE  payment[o].tx \in Txs
  BY DEF Inv, TypeOK, Payment

LEMMA Arrived ==
    ASSUME Inv, NEW w \in Workers, NEW o \in Orders,
           ReceiveWebhook(w, o) \/ VisitLandingPage(w, o)
    PROVE  Inv'
  <1>1. payment[o].tx \in Txs
    BY Recorded DEF ReceiveWebhook, VisitLandingPage
  <1>2. PICK op \in {"webhook", "visit"}, stage \in {"loaded", "verified"}, word \in Word :
            /\ Begin(w, op, o, stage, NoPayment, payment[o].tx, word)
            /\ Genuine(word, payment[o].tx)
    <2>1. CASE ReceiveWebhook(w, o)
      BY <2>1 DEF ReceiveWebhook, Word, Genuine, WebhookSuccess
    <2>2. CASE VisitLandingPage(w, o)
      BY <1>1, <2>2, AnswersGenuine DEF VisitLandingPage, Inv
    <2> QED BY <2>1, <2>2
  <1>3. work'[w] = [op |-> op, order |-> o, stage |-> stage, row |-> NoPayment,
                    tx |-> payment[o].tx, word |-> word, cols |-> {}]
    BY <1>2 DEF Begin, Inv, TypeOK
  <1>4. UNCHANGED <<payment, chapa>>
    BY <1>2 DEF Begin
  <1>5. HandlerOK(w)'
    BY <1>1, <1>2, <1>3, <1>4 DEF HandlerOK, At, Active, Genuine
  <1>6. op \in Op /\ stage \in Stage /\ NoPayment \in Payment /\ payment[o].tx \in Txs \cup {Nothing}
    BY <1>1 DEF Op, Stage, NoPayment, Payment, Word
  <1> QED BY <1>2, <1>5, <1>6, Begun

\* A webhook's handler moves on, having read and written nothing new.
LEMMA WebhookMoves ==
    ASSUME Inv, NEW w \in Workers, NEW stage \in Stage, Goto(w, stage),
           work[w].op = "webhook", stage \notin {"replay", "save"},
           stage \in {"topup", "insert"} => WebhookSuccess(work[w].word),
           UNCHANGED <<payment, chapa>>
    PROVE  /\ work' \in [Workers -> Task]
           /\ \A v \in Workers : work'[v] = work[v] \/ HandlerOK(v)'
  <1>1. /\ work' \in [Workers -> Task]
        /\ work'[w].stage = stage
        /\ work'[w].op = work[w].op /\ work'[w].order = work[w].order
        /\ work'[w].tx = work[w].tx /\ work'[w].word = work[w].word
        /\ \A v \in Workers : v # w => work'[v] = work[v]
    BY Moved DEF Inv
  <1>2. HandlerOK(w)'
    BY <1>1 DEF Inv, HandlerOK, At, Active, Genuine, WebhookSuccess
  <1> QED BY <1>1, <1>2

\* ... or ends.
LEMMA WorkEnds ==
    ASSUME Inv, NEW w \in Workers, Finish(w)
    PROVE  /\ work' \in [Workers -> Task]
           /\ \A v \in Workers : work'[v] = work[v] \/ HandlerOK(v)'
  <1>1. work' \in [Workers -> Task]
    BY DEF Inv, TypeOK, Finish, Idle, Task, Op, Stage, Word, Payment, NoPayment
  <1> QED BY <1>1, IdleOK DEF Inv

LEMMA Verified ==
    ASSUME Inv, NEW w \in Workers, VerifyTransaction(w)
    PROVE  Inv'
  <1>1. PICK word \in Answers(work[w].tx) :
            work' = [work EXCEPT ![w].stage = "verified", ![w].word = word]
    BY DEF VerifyTransaction
  <1>2. /\ work[w].op = "webhook" /\ work[w].order \in Orders
        /\ work[w].tx \in Txs /\ work[w].tx = payment[work[w].order].tx
    BY DEF VerifyTransaction, Inv, HandlerOK, At, Active
  <1>3. word \in Word /\ Genuine(word, work[w].tx)
    BY <1>2, AnswersGenuine DEF Inv
  <1>4. UNCHANGED <<awaiting, payment, children, sent, chapa, due, missed, faults>>
    BY DEF VerifyTransaction
  <1>5. work[w] \in Task /\ work \in [Workers -> Task] /\ "verified" \in Stage
    BY DEF Inv, TypeOK, Stage
  <1>6. work' \in [Workers -> Task]
    BY <1>1, <1>3, <1>5 DEF Task
  <1>7. /\ work'[w].stage = "verified" /\ work'[w].word = word
        /\ work'[w].op = work[w].op /\ work'[w].order = work[w].order
        /\ work'[w].tx = work[w].tx
        /\ \A v \in Workers : v # w => work'[v] = work[v]
    BY <1>1, <1>5 DEF Task
  <1>8. HandlerOK(w)'
    BY <1>2, <1>3, <1>4, <1>7 DEF HandlerOK, At, Active, Genuine
  <1> QED BY <1>4, <1>6, <1>7, <1>8, OnlyWork DEF Inv, TypeOK

LEMMA Compared ==
    ASSUME Inv, NEW w \in Workers, ComparePayment(w)
    PROVE  Inv'
  <1> DEFINE r == payment[work[w].order]
             cols == {c \in {"status", "data"} :
                         \/ c = "status" /\ NewStatus(w) # r.status
                         \/ c = "data" /\ work[w].word # r.data}
  <1>1. work' = [work EXCEPT ![w].stage = "compared", ![w].cols = cols]
    BY DEF ComparePayment
  <1>2. /\ work[w].op \in {"webhook", "visit"} /\ work[w].order \in Orders
        /\ work[w].tx \in Txs /\ work[w].tx = payment[work[w].order].tx
        /\ Genuine(work[w].word, work[w].tx)
    BY DEF ComparePayment, Inv, HandlerOK, Active
  <1>3. UNCHANGED <<awaiting, payment, children, sent, chapa, due, missed, faults>>
    BY DEF ComparePayment
  <1>4. cols \in SUBSET {"status", "data"}
    OBVIOUS
  <1>5. work[w] \in Task /\ work \in [Workers -> Task] /\ "compared" \in Stage
    BY DEF Inv, TypeOK, Stage
  <1> HIDE DEF cols
  <1>6. work' \in [Workers -> Task]
    BY <1>1, <1>4, <1>5 DEF Task
  <1>7. /\ work'[w].stage = "compared" /\ work'[w].word = work[w].word
        /\ work'[w].op = work[w].op /\ work'[w].order = work[w].order
        /\ work'[w].tx = work[w].tx
        /\ \A v \in Workers : v # w => work'[v] = work[v]
    BY <1>1, <1>5 DEF Task
  <1>8. HandlerOK(w)'
    BY <1>2, <1>3, <1>7 DEF HandlerOK, At, Active, Genuine
  <1> QED BY <1>3, <1>6, <1>7, <1>8, OnlyWork DEF Inv, TypeOK

\* The UPDATE leaves the transaction alone, and writes a success only where there is one.
LEMMA Updated ==
    ASSUME Inv, NEW w \in Workers, work[w].stage = "compared", UpdatePayment(w),
           UNCHANGED <<children, chapa>>
    PROVE  /\ payment' \in [Orders -> Payment]
           /\ Steady
           /\ \A p \in Orders : payment'[p] = payment[p] \/ RowOK(p)'
  <1>0. PICK o \in Orders : o = work[w].order
    BY DEF Inv, HandlerOK, Active
  <1> DEFINE status == IF "status" \in work[w].cols THEN NewStatus(w) ELSE payment[o].status
             data == IF "data" \in work[w].cols THEN work[w].word ELSE payment[o].data
             tx == payment[o].tx
  <1>1. /\ work[w].op \in {"webhook", "visit"}
        /\ work[w].tx \in Txs /\ work[w].tx = tx
        /\ Genuine(work[w].word, tx)
    BY <1>0 DEF Inv, HandlerOK, Active
  <1>2. work[w] \in Task /\ payment[o] \in Payment
    BY <1>1 DEF Inv, TypeOK
  <1>3. status \in {"initiated", "paid", "failed"} /\ data \in Word
    BY <1>1, <1>2, PaymentsAssumption DEF NewStatus, Payment, Task, Inv, RowOK
  <1>4. status = "paid" \/ children[o] > 0 => chapa[tx] = "success"
    BY <1>1 DEF NewStatus, Inv, RowOK, Genuine, WebhookSuccess, PageSuccess
  <1>5. Genuine(data, tx)
    BY <1>1 DEF Inv, RowOK
  <1>6. payment' = [payment EXCEPT ![o].status = status, ![o].data = data]
    BY <1>0, <1>2 DEF UpdatePayment, Inv, TypeOK, Payment
  <1> HIDE DEF status, data
  <1>7. payment' \in [Orders -> Payment]
    BY <1>1, <1>2, <1>3, <1>6 DEF Payment, Inv, TypeOK
  <1>8. /\ payment'[o].status = status /\ payment'[o].data = data /\ payment'[o].tx = tx
        /\ \A p \in Orders : p # o => payment'[p] = payment[p]
    BY <1>1, <1>2, <1>6 DEF Payment, Inv, TypeOK
  <1>9. Steady
    BY <1>8 DEF Steady
  <1>10. RowOK(o)'
    BY <1>1, <1>3, <1>4, <1>5, <1>8, PaymentsAssumption DEF RowOK, Genuine
  <1> QED BY <1>7, <1>8, <1>9, <1>10

LEMMA SavedAnswer ==
    ASSUME Inv, NEW w \in Workers, SaveWebhook(w) \/ SaveVisit(w)
    PROVE  Inv'
  <1>1. /\ work[w].stage = "compared" /\ UpdatePayment(w)
        /\ UNCHANGED <<awaiting, children, sent, chapa, due, faults>>
    BY DEF SaveWebhook, SaveVisit, At
  <1>2. /\ payment' \in [Orders -> Payment] /\ Steady
        /\ \A p \in Orders : payment'[p] = payment[p] \/ RowOK(p)'
    BY <1>1, Updated
  <1>3. work' \in [Workers -> Task] /\ \A v \in Workers : work'[v] = work[v] \/ HandlerOK(v)'
    <2>1. CASE SaveVisit(w)
      BY <2>1, WorkEnds DEF SaveVisit
    <2>2. CASE SaveWebhook(w)
      <3>1. /\ work' \in [Workers -> Task]
            /\ work'[w].stage = "saved"
            /\ work'[w].op = "webhook" /\ work'[w].order = work[w].order
            /\ work'[w].tx = work[w].tx /\ work'[w].word = work[w].word
            /\ \A v \in Workers : v # w => work'[v] = work[v]
        BY <2>2, Moved DEF SaveWebhook, At, Stage, Inv
      <3>2. /\ work[w].order \in Orders /\ work[w].tx \in Txs
            /\ work[w].tx = payment[work[w].order].tx
            /\ Genuine(work[w].word, work[w].tx)
        BY <2>2 DEF SaveWebhook, At, Active, Inv, HandlerOK
      <3>3. payment'[work[w].order].tx = work[w].tx
        BY <1>2, <3>2, PaymentsAssumption DEF Steady
      <3>4. HandlerOK(w)'
        BY <1>1, <3>1, <3>2, <3>3 DEF HandlerOK, At, Active, Genuine
      <3> QED BY <3>1, <3>4
    <2> QED BY <2>1, <2>2
  <1>4. missed' \subseteq Orders
    BY DEF SaveWebhook, SaveVisit, Inv, TypeOK
  <1>5. TypeOK'
    BY <1>1, <1>2, <1>3, <1>4 DEF Inv, TypeOK
  <1> QED BY <1>1, <1>2, <1>3, <1>5, Combine

\* The message that reports the result claims a success only where there is one.
LEMMA Emitted ==
    ASSUME Inv, NEW w \in Workers, EmitResult(w) \/ EmitResultFails(w)
    PROVE  Inv'
  <1>1. /\ work[w].op = "webhook" /\ work[w].order \in Orders /\ work[w].tx \in Txs
        /\ work[w].tx = payment[work[w].order].tx /\ Genuine(work[w].word, work[w].tx)
        /\ NewStatus(w) = "paid" => WebhookSuccess(work[w].word)
    BY DEF EmitResult, EmitResultFails, At, Active, Inv, HandlerOK, NewStatus
  <1>2. work[w] \in Task
    BY DEF Inv, TypeOK
  <1>3. UNCHANGED <<awaiting, payment, children, chapa>> /\ Steady
    BY DEF EmitResult, EmitResultFails, Steady
  <1>4. /\ work' \in [Workers -> Task] /\ due' \subseteq Txs
        /\ \A v \in Workers : work'[v] = work[v] \/ HandlerOK(v)'
    <2>1. CASE Goto(w, "topup") /\ due' = due /\ NewStatus(w) = "paid"
      BY <1>1, <1>3, <2>1, WebhookMoves DEF Stage, Inv, TypeOK
    <2>2. CASE Acknowledge(w)
      BY <2>2, WorkEnds DEF Acknowledge, Inv, TypeOK
    <2> QED BY <2>1, <2>2 DEF EmitResult, EmitResultFails
  <1>5. CASE EmitResult(w)
    <2>1. PICK m : /\ sent' = sent \cup {m}
                   /\ m = Msg(IF NewStatus(w) = "paid" THEN "payment.success"
                              ELSE "payment.failed", work[w].order, work[w].tx, work[w].word)
      BY <1>5 DEF EmitResult
    <2>2. m \in Message
      BY <1>1, <1>2, <2>1 DEF Msg, Message, Task
    <2>3. MsgOK(m)'
      BY <1>1, <1>3, <2>1 DEF Msg, MsgOK, CatalogSuccess, Genuine, WebhookSuccess
    <2>4. missed' = missed /\ faults' = faults
      BY <1>5 DEF EmitResult
    <2>5. TypeOK'
      BY <1>3, <1>4, <2>1, <2>2, <2>4 DEF Inv, TypeOK
    <2> QED BY <1>3, <1>4, <2>1, <2>3, <2>5, Combine
  <1>6. CASE EmitResultFails(w)
    <2>1. sent' = sent /\ missed' \subseteq Orders /\ faults' \in 0 .. MaxFaults
      BY <1>1, <1>6, PaymentsAssumption DEF EmitResultFails, Inv, TypeOK
    <2> QED BY <1>3, <1>4, <2>1, OnlyWork DEF Inv, TypeOK
  <1> QED BY <1>5, <1>6

LEMMA ToppingUp ==
    ASSUME Inv, NEW w \in Workers, FindChild(w) \/ InsertChild(w)
    PROVE  Inv'
  <1>1. CASE FindChild(w)
    <2>1. work[w].op = "webhook" /\ WebhookSuccess(work[w].word)
      BY <1>1 DEF FindChild, At, Inv, HandlerOK
    <2>2. UNCHANGED <<awaiting, payment, children, sent, chapa, missed, faults>>
      BY <1>1 DEF FindChild
    <2>3. /\ work' \in [Workers -> Task] /\ due' \subseteq Txs
          /\ \A v \in Workers : work'[v] = work[v] \/ HandlerOK(v)'
      <3>1. CASE Goto(w, "insert") /\ due' = due
        BY <2>1, <2>2, <3>1, WebhookMoves DEF Stage, Inv, TypeOK
      <3>2. CASE Acknowledge(w)
        BY <3>2, WorkEnds DEF Acknowledge, Inv, TypeOK
      <3> QED BY <1>1, <3>1, <3>2 DEF FindChild
    <2> QED BY <2>2, <2>3, OnlyWork DEF Inv, TypeOK
  <1>2. CASE InsertChild(w)
    <2>1. PICK o \in Orders : /\ o = work[w].order /\ work[w].tx \in Txs
                              /\ work[w].tx = payment[o].tx /\ chapa[payment[o].tx] = "success"
      BY <1>2 DEF InsertChild, At, Active, Inv, HandlerOK, Genuine
    <2>2. /\ children' \in [Orders -> Nat]
          /\ \A p \in Orders : p # o => children'[p] = children[p]
      BY <1>2, <2>1 DEF InsertChild, Inv, TypeOK
    <2>3. UNCHANGED <<awaiting, payment, sent, chapa, missed, faults>> /\ Steady
      BY <1>2 DEF InsertChild, Steady
    <2>4. /\ work' \in [Workers -> Task] /\ due' \subseteq Txs
          /\ \A v \in Workers : work'[v] = work[v] \/ HandlerOK(v)'
      BY <1>2, WorkEnds DEF InsertChild, Acknowledge, Inv, TypeOK
    <2>5. RowOK(o)'
      BY <2>1, <2>3 DEF Inv, RowOK, Genuine
    <2>6. TypeOK'
      BY <2>2, <2>3, <2>4 DEF Inv, TypeOK
    <2> QED BY <2>2, <2>3, <2>4, <2>5, <2>6, Combine
  <1> QED BY <1>1, <1>2

----------------------------------------------------------------------------
(* Faults and the environment *)

LEMMA Ended ==
    ASSUME Inv, NEW w \in Workers, WebhookFails(w) \/ Crash(w)
    PROVE  Inv'
  <1>1. Finish(w) /\ UNCHANGED <<awaiting, payment, children, sent, chapa>>
    BY DEF WebhookFails, Crash
  <1>2. work[w].op # "idle" => work[w].order \in Orders
    BY DEF Inv, HandlerOK, Active
  <1>3. due' \subseteq Txs /\ missed' \subseteq Orders /\ faults' \in 0 .. MaxFaults
    BY <1>2, PaymentsAssumption DEF WebhookFails, Crash, Inv, TypeOK
  <1> QED BY <1>1, <1>3, WorkEnds, OnlyWork DEF Inv, TypeOK

LEMMA Ignoring ==
    ASSUME Inv, NEW w \in Workers, NEW o \in Orders, IgnoreWebhook(w, o)
    PROVE  Inv'
  BY OnlyWork DEF IgnoreWebhook, Inv, TypeOK

LEMMA Environs ==
    ASSUME Inv, Environment
    PROVE  Inv'
  <1>1. ASSUME NEW o \in Orders, NEW amount \in {"due", "free"}, AwaitPayment(o, amount)
        PROVE  Inv'
    <2>1. awaiting' \in [Orders -> {"no", "due", "free"}]
      BY <1>1 DEF AwaitPayment, Inv, TypeOK
    <2> QED BY <1>1, <2>1, OnlyWork DEF AwaitPayment, Inv, TypeOK
  <1>2. ASSUME NEW t \in Txs, NEW outcome \in {"success", "failed"}, Settle(t, outcome)
        PROVE  Inv'
    <2>1. TypeOK'
      BY <1>2 DEF Settle, Inv, TypeOK
    <2>2. Steady
      BY <1>2 DEF Settle, Steady, Inv, TypeOK
    <2> QED BY <1>2, <2>1, <2>2, Combine DEF Settle
  <1> QED BY <1>1, <1>2 DEF Environment

----------------------------------------------------------------------------
(* The theorems *)

LEMMA Initially == Init => Inv
  <1> SUFFICES ASSUME Init PROVE Inv
    OBVIOUS
  <1>1. TypeOK
    BY PaymentsAssumption
    DEF Init, TypeOK, NoPayment, Idle, Payment, Task, Op, Stage, Word
  <1>2. \A o \in Orders : RowOK(o)
    <2> SUFFICES ASSUME NEW o \in Orders PROVE RowOK(o)
      OBVIOUS
    <2>1. payment[o].status = "none" /\ payment[o].tx = Nothing /\ payment[o].data = "absent"
      BY DEF Init, NoPayment
    <2>2. children[o] = 0
      BY DEF Init
    <2> QED BY <2>1, <2>2 DEF RowOK, Genuine, WebhookSuccess
  <1>3. \A w \in Workers : HandlerOK(w)
    BY DEF Init, Idle, HandlerOK, Active, At, Genuine, WebhookSuccess
  <1> QED BY <1>1, <1>2, <1>3 DEF Init, Inv

LEMMA Inductive == Inv /\ [Next]_vars => Inv'
  <1> SUFFICES ASSUME Inv, [Next]_vars PROVE Inv'
    OBVIOUS
  <1>1. CASE \E c \in Consumers, o \in Orders :
                 RefuseOrder(c, o) \/ HandleOrderAwaitingPayment(c, o)
    BY <1>1, Consumed
  <1>2. CASE \E w \in Webhooks, o \in Orders : ReceiveWebhook(w, o) \/ IgnoreWebhook(w, o)
    BY <1>2, Arrived, Ignoring DEF Workers
  <1>3. CASE \E v \in Visits, o \in Orders : VisitLandingPage(v, o)
    BY <1>3, Arrived DEF Workers
  <1>4. ASSUME NEW w \in Workers, Progress(w) PROVE Inv'
    BY <1>4, Replayed, Opened, Announced, Saved, Verified, Compared, SavedAnswer, Emitted,
       ToppingUp
    DEF Progress
  <1>5. ASSUME NEW w \in Workers, Fault(w) PROVE Inv'
    BY <1>5, NotSaved, Ended, Emitted DEF Fault
  <1>6. CASE Environment
    BY <1>6, Environs
  <1>7. CASE UNCHANGED vars
    <2>1. Steady /\ TypeOK'
      BY <1>7 DEF vars, Steady, Inv, TypeOK
    <2> QED BY <1>7, <2>1, Combine DEF vars
  <1> QED BY <1>1, <1>2, <1>3, <1>4, <1>5, <1>6, <1>7 DEF Next

\* The transaction a payment records never changes, a success at the provider never goes,
\* and so what a handler read before a round trip still holds after it.
THEOREM Invariance == Spec => []Inv
  BY Initially, Inductive, PTL DEF Spec

\* Every variable stays within its type.
THEOREM TypeCorrect == Spec => []TypeOK
  <1>1. Inv => TypeOK
    BY DEF Inv
  <1> QED BY <1>1, Invariance, PTL

\* Any number of consumers, of deliveries and of retries: one checkout link for an order.
THEOREM OneCheckoutOnly == Spec => []OneCheckout
  <1>1. Inv => OneCheckout
    BY PaymentsAssumption DEF Inv, TypeOK, Message, RowOK, MsgOK, OneCheckout
  <1> QED BY <1>1, Invariance, PTL

\* Nothing is marked paid, reported as paid or topped up unless the provider was paid.
THEOREM NoMoneyWithoutCharge == Spec => []PaidMeansCharged
  <1>1. Inv => PaidMeansCharged
    BY DEF Inv, RowOK, MsgOK, PaidMeansCharged, SuccessSent
  <1> QED BY <1>1, Invariance, PTL

----------------------------------------------------------------------------
(***************************************************************************)
(* Payments implements PaymentContract, for any orders, transactions,      *)
(* handlers in flight and any number of faults.                            *)
(*                                                                         *)
(* The invariant above says of one order what its payment and  *)
(* messages rest on.  The contract also keeps the orders apart: a link     *)
(* belongs to one of them.  That rests on every transaction having one     *)
(* owner, the consumer that opened it or the payment that records it.      *)
(***************************************************************************)

(* The inductive invariant *)

\* Does consumer w hold a transaction it has opened and not saved?
Holds(w) == At(w, "await", "save")

\* Was the link of t sent?
LinkSent(t) == \E m \in sent : m.topic = "payment.initiated" /\ m.tx = t

\* Two payments, two consumers, or a payment and a consumer never share a transaction, one
\* that is held or recorded was opened, and one that came to its end was announced.
PaymentsApart ==
    \A o, p \in Orders : payment[o].tx \in Txs /\ payment[o].tx = payment[p].tx => o = p

HoldersApart ==
    \A w, v \in Workers : Holds(w) /\ Holds(v) /\ work[w].tx = work[v].tx => w = v

HeldIsFree ==
    \A w \in Workers : Holds(w) => /\ chapa[work[w].tx] # "none"
                                   /\ \A o \in Orders : payment[o].tx # work[w].tx

RecordedIsOpened == \A o \in Orders : payment[o].tx \in Txs => chapa[payment[o].tx] # "none"

SettledIsAnnounced == \A t \in Txs : chapa[t] \in {"success", "failed"} => LinkSent(t)

Owned ==
    /\ PaymentsApart
    /\ HoldersApart
    /\ HeldIsFree
    /\ RecordedIsOpened
    /\ SettledIsAnnounced

----------------------------------------------------------------------------
(* Steps that open nothing and record nothing *)

\* Payments keep their transactions, whoever holds one held it before, and no transaction
\* loses its state or is settled unannounced.
Quiet ==
    /\ \A o \in Orders : payment'[o].tx = payment[o].tx
    /\ \A w \in Workers : Holds(w)' => Holds(w) /\ work'[w].tx = work[w].tx
    /\ sent \subseteq sent'
    /\ \A t \in Txs : /\ chapa[t] # "none" => chapa'[t] # "none"
                      /\ chapa'[t] = chapa[t] \/ LinkSent(t)

LEMMA QuietKeeps ==
    ASSUME Inv, Owned, Quiet
    PROVE  Owned'
  <1>1. \A w \in Workers : Holds(w) => work[w].tx \in Txs
    BY DEF Inv, HandlerOK, Holds
  <1>2. PaymentsApart'
    BY DEF Owned, PaymentsApart, Quiet
  <1>3. HoldersApart'
    BY DEF Owned, HoldersApart, Quiet
  <1>4. HeldIsFree'
    BY <1>1 DEF Owned, HeldIsFree, Quiet
  <1>5. RecordedIsOpened'
    BY DEF Owned, RecordedIsOpened, Quiet
  <1>6. SettledIsAnnounced'
    BY DEF Owned, SettledIsAnnounced, Quiet, LinkSent
  <1> QED BY <1>2, <1>3, <1>4, <1>5, <1>6 DEF Owned

\* A handler that ends, or goes to a stage other than the save, holds nothing new.
LEMMA FinishHolds ==
    ASSUME TypeOK, NEW w \in Workers, Finish(w)
    PROVE  \A v \in Workers : Holds(v)' => Holds(v) /\ work'[v].tx = work[v].tx
  BY DEF TypeOK, Finish, Idle, Holds, At

LEMMA GotoHolds ==
    ASSUME TypeOK, NEW w \in Workers, NEW stage \in Stage \ {"save"}, Goto(w, stage)
    PROVE  \A v \in Workers : Holds(v)' => Holds(v) /\ work'[v].tx = work[v].tx
  <1>1. /\ work'[w].stage = stage
        /\ \A v \in Workers : v # w => work'[v] = work[v]
    BY Moved
  <1> QED BY <1>1 DEF Holds, At

LEMMA BeginHolds ==
    ASSUME TypeOK, NEW w \in Workers, NEW op, NEW o, NEW stage, NEW row, NEW tx, NEW word,
           Begin(w, op, o, stage, row, tx, word), stage # "save"
    PROVE  \A v \in Workers : Holds(v)' => Holds(v) /\ work'[v].tx = work[v].tx
  BY DEF TypeOK, Begin, Holds, At

\* A message and an end.
LEMMA EmitQuiet ==
    ASSUME Inv, NEW w \in Workers, NEW message, EmitAndFinish(w, message)
    PROVE  Quiet
  BY FinishHolds DEF EmitAndFinish, Inv, Quiet

\* The UPDATE of a payment keeps its transaction.
LEMMA UpdateKeepsTx ==
    ASSUME Inv, NEW w \in Workers, UpdatePayment(w)
    PROVE  \A o \in Orders : payment'[o].tx = payment[o].tx
  BY DEF UpdatePayment, Inv, TypeOK, Payment

LEMMA ConsumerQuiet ==
    ASSUME Inv, NEW c \in Workers,
           \/ \E o \in Orders : RefuseOrder(c, o) \/ HandleOrderAwaitingPayment(c, o)
           \/ ReplayExisting(c) \/ InitFails(c) \/ SaveConflict(c) \/ SaveFails(c)
           \/ AnnouncePayment(c)
    PROVE  Quiet
  <1>1. CASE SaveFails(c)
    BY <1>1, FinishHolds DEF SaveFails, Quiet, Inv
  <1>2. ASSUME NEW o \in Orders, HandleOrderAwaitingPayment(c, o) PROVE Quiet
    <2>1. PICK stage : /\ stage # "save"
                       /\ Begin(c, "await", o, stage, payment[o], Nothing, "absent")
      BY <1>2 DEF HandleOrderAwaitingPayment
    <2>2. \A v \in Workers : Holds(v)' => Holds(v) /\ work'[v].tx = work[v].tx
      BY <2>1, BeginHolds DEF Inv
    <2> QED BY <2>1, <2>2 DEF Begin, Quiet
  <1> QED BY <1>1, <1>2, EmitQuiet
          DEF RefuseOrder, ReplayExisting, InitFails, SaveConflict, AnnouncePayment

LEMMA ArrivalQuiet ==
    ASSUME Inv, NEW w \in Workers, NEW o \in Orders,
           ReceiveWebhook(w, o) \/ VisitLandingPage(w, o) \/ IgnoreWebhook(w, o)
    PROVE  Quiet
  <1>1. ASSUME NEW op, NEW stage, NEW word, stage # "save",
               Begin(w, op, o, stage, NoPayment, payment[o].tx, word)
        PROVE  Quiet
    <2>1. \A v \in Workers : Holds(v)' => Holds(v) /\ work'[v].tx = work[v].tx
      BY <1>1, BeginHolds DEF Inv
    <2> QED BY <1>1, <2>1 DEF Begin, Quiet
  <1>2. CASE IgnoreWebhook(w, o)
    BY <1>2 DEF IgnoreWebhook, Quiet, Holds, At
  <1> QED BY <1>1, <1>2 DEF ReceiveWebhook, VisitLandingPage

LEMMA WebhookQuiet ==
    ASSUME Inv, NEW w \in Workers,
           \/ VerifyTransaction(w) \/ ComparePayment(w) \/ SaveWebhook(w) \/ EmitResult(w)
           \/ EmitResultFails(w) \/ FindChild(w) \/ InsertChild(w) \/ SaveVisit(w)
           \/ WebhookFails(w) \/ Crash(w)
    PROVE  Quiet
  <1> DEFINE Kept == \A v \in Workers : Holds(v)' => Holds(v) /\ work'[v].tx = work[v].tx
  <1>1. ASSUME Finish(w) PROVE Kept
    BY <1>1, FinishHolds DEF Inv
  <1>2. ASSUME NEW stage \in Stage \ {"save"}, Goto(w, stage) PROVE Kept
    BY <1>2, GotoHolds DEF Inv
  <1>3. CASE VerifyTransaction(w) \/ ComparePayment(w)
    <2>1. /\ work'[w].stage # "save"
          /\ \A v \in Workers : v # w => work'[v] = work[v]
      BY <1>3 DEF VerifyTransaction, ComparePayment, Inv, TypeOK, Task
    <2>2. Kept
      BY <2>1 DEF Holds, At
    <2> QED BY <1>3, <2>2 DEF VerifyTransaction, ComparePayment, Quiet
  <1>4. CASE SaveWebhook(w) \/ SaveVisit(w)
    <2>1. Kept
      BY <1>1, <1>2, <1>4 DEF SaveWebhook, SaveVisit, Stage
    <2>2. \A o \in Orders : payment'[o].tx = payment[o].tx
      BY <1>4, UpdateKeepsTx DEF SaveWebhook, SaveVisit
    <2> QED BY <1>4, <2>1, <2>2 DEF SaveWebhook, SaveVisit, Quiet
  <1>5. CASE EmitResult(w) \/ EmitResultFails(w) \/ FindChild(w)
    <2>1. Kept
      BY <1>1, <1>2, <1>5
      DEF EmitResult, EmitResultFails, FindChild, Acknowledge, Stage
    <2> QED BY <1>5, <2>1 DEF EmitResult, EmitResultFails, FindChild, Quiet
  <1>6. CASE InsertChild(w) \/ WebhookFails(w) \/ Crash(w)
    <2>1. Kept
      BY <1>1, <1>6 DEF InsertChild, WebhookFails, Crash, Acknowledge
    <2> QED BY <1>6, <2>1 DEF InsertChild, WebhookFails, Crash, Quiet
  <1> QED BY <1>3, <1>4, <1>5, <1>6

LEMMA EnvironmentQuiet ==
    ASSUME Inv, Environment
    PROVE  Quiet
  <1>1. ASSUME NEW o \in Orders, NEW amount \in {"due", "free"}, AwaitPayment(o, amount)
        PROVE  Quiet
    BY <1>1 DEF AwaitPayment, Quiet, Holds, At
  <1>2. ASSUME NEW t \in Txs, NEW outcome \in {"success", "failed"}, Settle(t, outcome)
        PROVE  Quiet
    BY <1>2 DEF Settle, Quiet, Holds, At, LinkSent, Inv, TypeOK
  <1> QED BY <1>1, <1>2 DEF Environment

----------------------------------------------------------------------------
(* The steps that open a transaction and that record one *)

LEMMA OpenedApart ==
    ASSUME Inv, Owned, NEW c \in Workers, NEW t \in Txs, OpenTransaction(c, t)
    PROVE  Owned'
  <1>1. /\ Holds(c)' /\ work'[c].tx = t
        /\ \A w \in Workers : w # c => work'[w] = work[w]
    BY DEF OpenTransaction, Holds, At, Inv, TypeOK, Task
  <1>2. /\ \A o \in Orders : payment[o].tx # t
        /\ \A w \in Workers : Holds(w) => work[w].tx # t
    BY DEF OpenTransaction, Owned, RecordedIsOpened, HeldIsFree
  <1>3. /\ UNCHANGED <<payment, sent>> /\ chapa[t] = "none" /\ chapa'[t] = "open"
        /\ \A u \in Txs : u # t => chapa'[u] = chapa[u]
    BY DEF OpenTransaction, Inv, TypeOK
  <1>4. \A w \in Workers : w # c => (Holds(w)' <=> Holds(w))
    BY <1>1 DEF Holds, At
  <1>5. \A w \in Workers : Holds(w) => work[w].tx \in Txs
    BY DEF Inv, HandlerOK, Holds
  <1>6. PaymentsApart'
    BY <1>3 DEF Owned, PaymentsApart
  <1>7. HoldersApart'
    BY <1>1, <1>2, <1>4 DEF Owned, HoldersApart
  <1>8. HeldIsFree'
    BY <1>1, <1>2, <1>3, <1>4, <1>5 DEF Owned, HeldIsFree
  <1>9. RecordedIsOpened'
    BY <1>3 DEF Owned, RecordedIsOpened
  <1>10. SettledIsAnnounced'
    BY <1>3 DEF Owned, SettledIsAnnounced, LinkSent
  <1> QED BY <1>6, <1>7, <1>8, <1>9, <1>10 DEF Owned

LEMMA SavedApart ==
    ASSUME Inv, Owned, NEW c \in Workers, SavePayment(c)
    PROVE  Owned'
  <1>1. /\ Holds(c) /\ work[c].tx \in Txs /\ work[c].order \in Orders
    BY DEF SavePayment, Holds, At, Active, Inv, HandlerOK
  <1>2. /\ payment'[work[c].order].tx = work[c].tx
        /\ \A o \in Orders : o # work[c].order => payment'[o] = payment[o]
    BY <1>1 DEF SavePayment, Inv, TypeOK
  <1>3. /\ ~ Holds(c)'
        /\ \A w \in Workers : w # c => work'[w] = work[w] /\ (Holds(w)' <=> Holds(w))
    <2>1. work'[c].stage = "announce" /\ \A w \in Workers : w # c => work'[w] = work[w]
      BY Moved DEF SavePayment, Stage, Inv
    <2> QED BY <2>1 DEF Holds, At
  <1>4. UNCHANGED <<chapa, sent>>
    BY DEF SavePayment
  <1>5. PaymentsApart'
    BY <1>1, <1>2 DEF Owned, PaymentsApart, HeldIsFree
  <1>6. HoldersApart'
    BY <1>3 DEF Owned, HoldersApart
  <1>7. HeldIsFree'
    BY <1>1, <1>2, <1>3, <1>4 DEF Owned, HeldIsFree, HoldersApart
  <1>8. RecordedIsOpened'
    BY <1>1, <1>2, <1>4 DEF Owned, RecordedIsOpened, HeldIsFree
  <1>9. SettledIsAnnounced'
    BY <1>4 DEF Owned, SettledIsAnnounced, LinkSent
  <1> QED BY <1>5, <1>6, <1>7, <1>8, <1>9 DEF Owned

\* A step is quiet, or opens a transaction, or records one.
LEMMA StepsSorted ==
    ASSUME Inv, [Next]_vars
    PROVE  \/ Quiet
           \/ \E c \in Workers, t \in Txs : OpenTransaction(c, t)
           \/ \E c \in Workers : SavePayment(c)
  <1>1. CASE \E c \in Consumers, o \in Orders :
                 RefuseOrder(c, o) \/ HandleOrderAwaitingPayment(c, o)
    BY <1>1, ConsumerQuiet DEF Workers
  <1>2. CASE \E w \in Webhooks, o \in Orders : ReceiveWebhook(w, o) \/ IgnoreWebhook(w, o)
    BY <1>2, ArrivalQuiet DEF Workers
  <1>3. CASE \E v \in Visits, o \in Orders : VisitLandingPage(v, o)
    BY <1>3, ArrivalQuiet DEF Workers
  <1>4. ASSUME NEW w \in Workers, Progress(w)
        PROVE  \/ Quiet \/ SavePayment(w) \/ \E t \in Txs : OpenTransaction(w, t)
    BY <1>4, ConsumerQuiet, WebhookQuiet DEF Progress
  <1>5. ASSUME NEW w \in Workers, Fault(w) PROVE Quiet
    BY <1>5, ConsumerQuiet, WebhookQuiet DEF Fault
  <1>6. CASE Environment
    BY <1>6, EnvironmentQuiet
  <1>7. CASE UNCHANGED vars
    BY <1>7 DEF vars, Quiet, Holds, At
  <1> QED BY <1>1, <1>2, <1>3, <1>4, <1>5, <1>6, <1>7 DEF Next

LEMMA OwnedInductive == Inv /\ Owned /\ [Next]_vars => Owned'
  BY StepsSorted, QuietKeeps, OpenedApart, SavedApart

LEMMA OwnedInitially == Init => Owned
  <1>1. Init => /\ \A o \in Orders : payment[o].tx = Nothing
                /\ \A w \in Workers : work[w].stage = "idle"
                /\ \A t \in Txs : chapa[t] = "none"
    BY DEF Init, NoPayment, Idle
  <1> QED BY <1>1, PaymentsAssumption
          DEF Owned, PaymentsApart, HoldersApart, HeldIsFree, RecordedIsOpened,
              SettledIsAnnounced, Holds, At

\* Every transaction has one owner: the consumer that opened it, or the payment that records it.
THEOREM Ownership == Spec => [](Inv /\ Owned)
  BY Initially, Inductive, OwnedInitially, OwnedInductive, PTL DEF Spec

----------------------------------------------------------------------------
(* What the contract sees *)

\* The links of an order are none, or the transaction of its payment.
LEMMA LinkIsTx ==
    ASSUME Inv, NEW o \in Orders, NEW t \in Link(o)
    PROVE  t = payment[o].tx /\ t \in Txs
  BY DEF Link, Inv, MsgOK

\* A payment whose transaction succeeded is paid as the contract means it.
LEMMA ChargedIsPaid ==
    ASSUME Inv, Owned, NEW o \in Orders, payment[o].tx \in Txs,
           chapa[payment[o].tx] = "success"
    PROVE  payment[o].tx \in Link(o) /\ Fate(payment[o].tx) = "success"
  <1>1. PICK m \in sent : m.topic = "payment.initiated" /\ m.tx = payment[o].tx
    BY DEF Owned, SettledIsAnnounced, LinkSent
  <1>2. m.order \in Orders /\ payment[m.order].tx = m.tx
    BY <1>1 DEF Inv, TypeOK, Message, MsgOK
  <1>3. m.order = o
    BY <1>1, <1>2 DEF Owned, PaymentsApart
  <1> QED BY <1>1, <1>3 DEF Link, Fate

\* A step is seen as a message, a settled transaction, a top-up, or not at all.
Silent == UNCHANGED <<sent, children>> /\ \A t \in Txs : Fate(t)' = Fate(t)

Emits(m) ==
    /\ sent' = sent \cup {m}
    /\ m.topic = "payment.initiated" => ~ CatalogSuccess(m.word)
    /\ UNCHANGED <<chapa, children>>

LEMMA ConsumerSeen ==
    ASSUME Inv, NEW c \in Workers,
           \/ \E o \in Orders : RefuseOrder(c, o) \/ HandleOrderAwaitingPayment(c, o)
           \/ ReplayExisting(c) \/ InitFails(c) \/ SaveConflict(c) \/ SaveFails(c)
           \/ AnnouncePayment(c) \/ SavePayment(c)
    PROVE  Silent \/ \E m : Emits(m)
  <1>1. CASE SavePayment(c) \/ \E o \in Orders : HandleOrderAwaitingPayment(c, o)
    BY <1>1 DEF SavePayment, HandleOrderAwaitingPayment, Begin, Silent, Fate
  <1>2. CASE ReplayExisting(c)
    <2> DEFINE r == work[c].row
               o == work[c].order
               m == CASE r.status = "initiated" -> Msg("payment.initiated", o, r.tx, "absent")
                      [] r.status = "paid"      -> Msg("payment.success", o, r.tx, r.data)
                      [] OTHER                  -> Msg("payment.failed", o, r.tx, "absent")
    <2>1. EmitAndFinish(c, m)
      BY <1>2 DEF ReplayExisting
    <2>2. m.topic = "payment.initiated" => ~ CatalogSuccess(m.word)
      BY DEF Msg, CatalogSuccess
    <2> HIDE DEF m
    <2> QED BY <2>1, <2>2 DEF EmitAndFinish, Emits
  <1>3. ASSUME NEW m, m.word = "absent", EmitAndFinish(c, m)
        PROVE  Emits(m)
    BY <1>3 DEF EmitAndFinish, Emits, CatalogSuccess
  <1>4. CASE \E o \in Orders : RefuseOrder(c, o)
    BY <1>3, <1>4 DEF RefuseOrder, Msg
  <1>5. CASE InitFails(c) \/ SaveConflict(c) \/ AnnouncePayment(c)
    BY <1>3, <1>5 DEF InitFails, SaveConflict, AnnouncePayment, Msg
  <1>6. CASE SaveFails(c)
    BY <1>6 DEF SaveFails, Emits, Msg, CatalogSuccess
  <1> QED BY <1>1, <1>2, <1>4, <1>5, <1>6

LEMMA WebhookSeen ==
    ASSUME Inv, NEW w \in Workers,
           \/ VerifyTransaction(w) \/ ComparePayment(w) \/ SaveWebhook(w) \/ EmitResult(w)
           \/ EmitResultFails(w) \/ FindChild(w) \/ SaveVisit(w)
           \/ WebhookFails(w) \/ Crash(w)
           \/ \E t \in Txs : OpenTransaction(w, t)
           \/ \E o \in Orders : \/ ReceiveWebhook(w, o) \/ VisitLandingPage(w, o)
                                \/ IgnoreWebhook(w, o)
    PROVE  Silent \/ \E m : Emits(m)
  <1>1. CASE EmitResult(w)
    <2> DEFINE topic == IF NewStatus(w) = "paid" THEN "payment.success" ELSE "payment.failed"
               m == Msg(topic, work[w].order, work[w].tx, work[w].word)
    <2>1. m.topic # "payment.initiated"
      BY DEF Msg
    <2> QED BY <1>1, <2>1 DEF EmitResult, Emits
  <1>2. CASE \E t \in Txs : OpenTransaction(w, t)
    BY <1>2 DEF OpenTransaction, Silent, Fate, Inv, TypeOK
  <1>3. ASSUME UNCHANGED <<sent, children, chapa>> PROVE Silent
    BY <1>3 DEF Silent, Fate
  <1>4. CASE \/ VerifyTransaction(w) \/ ComparePayment(w) \/ SaveWebhook(w)
             \/ EmitResultFails(w) \/ FindChild(w) \/ SaveVisit(w)
             \/ WebhookFails(w) \/ Crash(w)
    BY <1>3, <1>4 DEF VerifyTransaction, ComparePayment, SaveWebhook, EmitResultFails,
                      FindChild, SaveVisit, WebhookFails, Crash
  <1>5. CASE \E o \in Orders : \/ ReceiveWebhook(w, o) \/ VisitLandingPage(w, o)
                               \/ IgnoreWebhook(w, o)
    BY <1>3, <1>5 DEF ReceiveWebhook, VisitLandingPage, IgnoreWebhook, Begin
  <1> QED BY <1>1, <1>2, <1>4, <1>5

LEMMA StepSeen ==
    ASSUME Inv, [Next]_vars
    PROVE  \/ Silent
           \/ \E m : Emits(m)
           \/ \E w \in Workers : InsertChild(w)
           \/ \E t \in Txs, outcome \in {"success", "failed"} : Settle(t, outcome)
  <1>1. CASE \E c \in Consumers, o \in Orders :
                 RefuseOrder(c, o) \/ HandleOrderAwaitingPayment(c, o)
    BY <1>1, ConsumerSeen DEF Workers
  <1>2. CASE \E w \in Webhooks, o \in Orders : ReceiveWebhook(w, o) \/ IgnoreWebhook(w, o)
    BY <1>2, WebhookSeen DEF Workers
  <1>3. CASE \E v \in Visits, o \in Orders : VisitLandingPage(v, o)
    BY <1>3, WebhookSeen DEF Workers
  <1>4. ASSUME NEW w \in Workers, Progress(w)
        PROVE  Silent \/ (\E m : Emits(m)) \/ InsertChild(w)
    BY <1>4, ConsumerSeen, WebhookSeen DEF Progress
  <1>5. ASSUME NEW w \in Workers, Fault(w)
        PROVE  Silent \/ \E m : Emits(m)
    BY <1>5, ConsumerSeen, WebhookSeen DEF Fault
  <1>6. CASE \E o \in Orders, amount \in {"due", "free"} : AwaitPayment(o, amount)
    BY <1>6 DEF AwaitPayment, Silent, Fate
  <1>7. CASE UNCHANGED vars
    BY <1>7 DEF vars, Silent, Fate
  <1> QED BY <1>1, <1>2, <1>3, <1>4, <1>5, <1>6, <1>7 DEF Next, Environment

----------------------------------------------------------------------------
(* The refinement *)

\* The contract's view of the state.
LinkView == [o \in Orders |-> Link(o)]
FateView == [t \in Txs |-> Fate(t)]
ConfirmedView == {o \in Orders : SuccessSent(o)}
CreditedView == {o \in Orders : children[o] > 0}

LEMMA SilentStep ==
    ASSUME Silent
    PROVE  UNCHANGED Contract!vars
  BY DEF Silent, Contract!vars, Link, SuccessSent

LEMMA EmitStep ==
    ASSUME Inv, Owned, Inv', Owned', NEW m, Emits(m)
    PROVE  [Contract!Next]_(Contract!vars)
  <1>1. /\ m \in sent' /\ m.order \in Orders /\ MsgOK(m)'
    BY DEF Emits, Inv, TypeOK, Message
  <1>2. FateView' = FateView /\ CreditedView' = CreditedView
    BY DEF Emits, FateView, CreditedView, Fate
  <1>3. CASE m.topic = "payment.initiated"
    <2>1. ConfirmedView' = ConfirmedView
      BY <1>3 DEF Emits, ConfirmedView, SuccessSent
    <2>2. m.tx \in Txs /\ m.tx = payment'[m.order].tx
      BY <1>1, <1>3 DEF MsgOK
    <2>3. \A o \in Orders : Link(o)' = IF o = m.order THEN Link(o) \cup {m.tx} ELSE Link(o)
      BY <1>3, <2>2 DEF Emits, Link
    <2>4. CASE Link(m.order) # {}
      <3>1. Link(m.order)' \subseteq {m.tx}
        BY <1>1, <2>2, LinkIsTx DEF Link, Inv, MsgOK
      <3>2. \A o \in Orders : Link(o)' = Link(o)
        BY <2>3, <2>4, <3>1
      <3>3. LinkView' = LinkView
        BY <3>2 DEF LinkView
      <3> QED BY <1>2, <2>1, <3>3
              DEF Contract!vars, LinkView, FateView, ConfirmedView, CreditedView
    <2>5. CASE Link(m.order) = {}
      <3>1. ASSUME NEW p \in Orders, m.tx \in Link(p)
            PROVE  FALSE
        <4>1. m.tx \in Link(p)'
          BY <2>3, <3>1
        <4>2. payment'[p].tx = m.tx
          BY <4>1 DEF Link, Inv, MsgOK
        <4>3. p = m.order
          BY <1>1, <2>2, <4>2 DEF Owned, PaymentsApart
        <4> QED BY <2>5, <3>1, <4>3
      <3>2. LinkView' = [LinkView EXCEPT ![m.order] = {m.tx}]
        BY <2>3, <2>5 DEF LinkView
      <3>3. Contract!OfferCheckout(m.order, m.tx)
        BY <1>1, <1>2, <2>1, <2>5, <3>1, <3>2
        DEF Contract!OfferCheckout, LinkView, FateView, ConfirmedView, CreditedView
      <3> QED BY <1>1, <2>2, <3>3 DEF Contract!Next
    <2> QED BY <2>4, <2>5
  <1>4. CASE m.topic # "payment.initiated"
    <2>1. \A o \in Orders : Link(o)' = Link(o)
      BY <1>4 DEF Emits, Link
    <2>2. LinkView' = LinkView
      BY <2>1 DEF LinkView
    <2>3. CASE ~ CatalogSuccess(m.word)
      <3>1. ConfirmedView' = ConfirmedView
        BY <2>3 DEF Emits, ConfirmedView, SuccessSent
      <3> QED BY <1>2, <2>2, <3>1
              DEF Contract!vars, LinkView, FateView, ConfirmedView, CreditedView
    <2>4. CASE CatalogSuccess(m.word)
      <3>1. ConfirmedView' = ConfirmedView \cup {m.order}
        BY <1>1, <2>4 DEF Emits, ConfirmedView, SuccessSent
      <3>2. /\ payment'[m.order].tx \in Txs
            /\ chapa'[payment'[m.order].tx] = "success"
        BY <1>1, <2>4 DEF MsgOK
      <3>3. PICK t \in Txs : t \in Link(m.order)' /\ Fate(t)' = "success"
        <4>1. \A n \in sent' : n.topic = "payment.initiated" =>
                  n.order \in Orders /\ payment'[n.order].tx = n.tx
          BY DEF Inv, TypeOK, Message, MsgOK
        <4>2. PICK n \in sent' : n.topic = "payment.initiated" /\ n.tx = payment'[m.order].tx
          BY <3>2 DEF Owned, SettledIsAnnounced, LinkSent
        <4>3. n.order = m.order
          BY <1>1, <3>2, <4>1, <4>2 DEF Owned, PaymentsApart
        <4> QED BY <3>2, <4>2, <4>3 DEF Link, Fate
      <3>4. t \in LinkView[m.order] /\ FateView[t] = "success"
        BY <1>1, <1>2, <2>1, <3>3 DEF LinkView, FateView, Emits, Fate
      <3>5. Contract!Confirm(m.order)
        BY <1>2, <2>2, <3>1, <3>4
        DEF Contract!Confirm, Contract!Paid, LinkView, FateView, ConfirmedView, CreditedView
      <3> QED BY <1>1, <3>5 DEF Contract!Next
    <2> QED BY <2>3, <2>4
  <1> QED BY <1>3, <1>4

LEMMA CreditStep ==
    ASSUME Inv, Owned, NEW w \in Workers, InsertChild(w)
    PROVE  [Contract!Next]_(Contract!vars)
  <1>1. PICK o \in Orders : /\ o = work[w].order /\ payment[o].tx \in Txs
                            /\ chapa[payment[o].tx] = "success"
    BY DEF InsertChild, At, Active, Inv, HandlerOK, Genuine
  <1>2. \E t \in LinkView[o] : FateView[t] = "success"
    BY <1>1, ChargedIsPaid DEF LinkView, FateView
  <1>3. LinkView' = LinkView /\ FateView' = FateView /\ ConfirmedView' = ConfirmedView
    BY DEF InsertChild, LinkView, FateView, ConfirmedView, Link, Fate, SuccessSent
  <1>4. CreditedView' = CreditedView \cup {o}
    <2>1. \A p \in Orders : children'[p] = IF p = o THEN children[p] + 1 ELSE children[p]
      BY <1>1 DEF InsertChild, Inv, TypeOK
    <2>2. children'[o] > 0
      BY <1>1, <2>1 DEF Inv, TypeOK
    <2> QED BY <2>1, <2>2 DEF CreditedView
  <1>5. Contract!Credit(o)
    BY <1>2, <1>3, <1>4
    DEF Contract!Credit, Contract!Paid, LinkView, FateView, ConfirmedView, CreditedView
  <1> QED BY <1>5 DEF Contract!Next

LEMMA CheckOutStep ==
    ASSUME Inv, NEW t \in Txs, NEW outcome \in {"success", "failed"}, Settle(t, outcome)
    PROVE  [Contract!Next]_(Contract!vars)
  <1>1. PICK m \in sent : m.topic = "payment.initiated" /\ m.tx = t
    BY DEF Settle
  <1>2. m.order \in Orders /\ t \in LinkView[m.order]
    BY <1>1 DEF Inv, TypeOK, Message, LinkView, Link
  <1>3. FateView[t] = "none" /\ FateView' = [FateView EXCEPT ![t] = outcome]
    BY DEF Settle, FateView, Fate, Inv, TypeOK
  <1>4. LinkView' = LinkView /\ ConfirmedView' = ConfirmedView /\ CreditedView' = CreditedView
    BY DEF Settle, LinkView, ConfirmedView, CreditedView, Link, SuccessSent
  <1>5. Contract!CheckOut(t, outcome)
    BY <1>2, <1>3, <1>4
    DEF Contract!CheckOut, LinkView, FateView, ConfirmedView, CreditedView
  <1> QED BY <1>5 DEF Contract!Next

LEMMA RefinementStep ==
    Inv /\ Owned /\ Inv' /\ Owned' /\ [Next]_vars => [Contract!Next]_(Contract!vars)
  BY StepSeen, SilentStep, EmitStep, CreditStep, CheckOutStep

LEMMA RefinementInitially == Init => Contract!Init
  <1> SUFFICES ASSUME Init PROVE Contract!Init
    OBVIOUS
  <1>1. \A o \in Orders : Link(o) = {} /\ ~ SuccessSent(o) /\ ~ (children[o] > 0)
    <2>1. sent = {} /\ \A o \in Orders : children[o] = 0
      BY DEF Init
    <2>2. ASSUME NEW o \in Orders PROVE Link(o) = {}
      BY <2>1 DEF Link
    <2>3. ASSUME NEW o \in Orders PROVE ~ SuccessSent(o)
      BY <2>1 DEF SuccessSent
    <2>4. ASSUME NEW o \in Orders PROVE ~ (children[o] > 0)
      <3>1. children[o] = 0
        BY <2>1
      <3> QED BY <3>1
    <2> QED BY <2>2, <2>3, <2>4
  <1>2. \A t \in Txs : Fate(t) = "none"
    BY DEF Init, Fate
  <1> QED BY <1>1, <1>2 DEF Contract!Init

\* The handlers of payment-service, their retries and their races, implement the contract.
THEOREM Refinement == Spec => ImplementsContract
  BY Initially, Inductive, OwnedInitially, OwnedInductive, RefinementInitially,
     RefinementStep, PTL DEF Spec, ImplementsContract, Contract!Spec

----------------------------------------------------------------------------
(***************************************************************************)
(* No order is topped up twice while one webhook is handled at a time: who *)
(* is about to insert a payout child has found none, and nobody else has   *)
(* inserted one since.                                                     *)
(***************************************************************************)

OneWebhook == \A v, w \in Webhooks : v = w

Inserting(w) == At(w, "webhook", "insert")

OnceInv ==
    /\ ToppedUpOnce
    /\ \A w \in Workers : /\ work[w].op = "webhook" => w \in Webhooks
                          /\ Inserting(w) => children[work[w].order] = 0

\* A step after which nobody else is about to insert a child, or is a webhook.
Harmless ==
    /\ UNCHANGED children
    /\ \A w \in Workers : /\ work'[w].op = "webhook" => w \in Webhooks \/ work[w].op = "webhook"
                          /\ Inserting(w)' => Inserting(w) /\ work'[w].order = work[w].order

LEMMA HarmlessKeeps == OnceInv /\ Harmless => OnceInv'
  BY DEF OnceInv, Harmless, ToppedUpOnce

\* What one handler does to its task, in a step that leaves the children alone.
LEMMA MovesOnce ==
    ASSUME UNCHANGED children, NEW w \in Workers, \A v \in Workers : v # w => work'[v] = work[v],
           work'[w].op = "webhook" => w \in Webhooks \/ work[w].op = "webhook",
           work'[w].stage # "insert"
    PROVE  Harmless
  BY DEF Harmless, Inserting, At

LEMMA FinishOnce ==
    ASSUME Inv, UNCHANGED children, NEW w \in Workers, Finish(w)
    PROVE  Harmless
  <1>1. work'[w] = Idle /\ \A v \in Workers : v # w => work'[v] = work[v]
    BY DEF Inv, TypeOK, Finish
  <1> QED BY <1>1, MovesOnce DEF Idle

LEMMA GotoOnce ==
    ASSUME Inv, UNCHANGED children, NEW w \in Workers, NEW stage \in Stage \ {"insert"},
           Goto(w, stage)
    PROVE  Harmless
  <1>1. /\ work'[w].op = work[w].op /\ work'[w].stage = stage
        /\ \A v \in Workers : v # w => work'[v] = work[v]
    BY DEF Inv, TypeOK, Task, Goto
  <1> QED BY <1>1, MovesOnce

LEMMA BeginOnce ==
    ASSUME Inv, NEW w \in Workers, NEW op, NEW o, NEW stage, NEW row, NEW tx, NEW word,
           Begin(w, op, o, stage, row, tx, word), stage # "insert",
           op = "webhook" => w \in Webhooks
    PROVE  Harmless
  <1>1. /\ work'[w].op = op /\ work'[w].stage = stage
        /\ \A v \in Workers : v # w => work'[v] = work[v]
    BY DEF Inv, TypeOK, Begin
  <1> QED BY <1>1, MovesOnce DEF Begin

LEMMA ConsumerOnce ==
    ASSUME Inv, NEW c \in Workers,
           \/ \E o \in Orders : RefuseOrder(c, o) \/ HandleOrderAwaitingPayment(c, o)
           \/ ReplayExisting(c) \/ InitFails(c) \/ SaveConflict(c) \/ SaveFails(c)
           \/ AnnouncePayment(c) \/ SavePayment(c) \/ \E t \in Txs : OpenTransaction(c, t)
    PROVE  Harmless
  <1>1. ASSUME NEW message, EmitAndFinish(c, message) PROVE Harmless
    BY <1>1, FinishOnce DEF EmitAndFinish
  <1>2. CASE SaveFails(c)
    BY <1>2, FinishOnce DEF SaveFails
  <1>3. ASSUME NEW o \in Orders, HandleOrderAwaitingPayment(c, o) PROVE Harmless
    <2>1. PICK stage : /\ stage # "insert"
                       /\ Begin(c, "await", o, stage, payment[o], Nothing, "absent")
      BY <1>3 DEF HandleOrderAwaitingPayment
    <2> QED BY <2>1, BeginOnce
  <1>4. CASE SavePayment(c)
    BY <1>4, GotoOnce DEF SavePayment, Stage
  <1>5. ASSUME NEW t \in Txs, OpenTransaction(c, t) PROVE Harmless
    <2>1. /\ work \in [Workers -> Task] /\ work[c] \in Task /\ UNCHANGED children
          /\ work' = [work EXCEPT ![c].stage = "save", ![c].tx = t]
      BY <1>5 DEF OpenTransaction, Inv, TypeOK
    <2>2. /\ work'[c].op = work[c].op /\ work'[c].stage = "save"
          /\ \A v \in Workers : v # c => work'[v] = work[v]
      BY <2>1 DEF Task
    <2> QED BY <2>1, <2>2, MovesOnce
  <1> QED BY <1>1, <1>2, <1>3, <1>4, <1>5
          DEF RefuseOrder, ReplayExisting, InitFails, SaveConflict, AnnouncePayment

LEMMA ArrivalOnce ==
    ASSUME Inv, NEW w \in Workers, NEW o \in Orders,
           \/ w \in Webhooks /\ (ReceiveWebhook(w, o) \/ IgnoreWebhook(w, o))
           \/ VisitLandingPage(w, o)
    PROVE  Harmless
  <1>1. CASE w \in Webhooks /\ ReceiveWebhook(w, o)
    BY <1>1, BeginOnce DEF ReceiveWebhook
  <1>2. CASE IgnoreWebhook(w, o)
    BY <1>2 DEF IgnoreWebhook, Harmless, Inserting, At
  <1>3. CASE VisitLandingPage(w, o)
    BY <1>3, BeginOnce DEF VisitLandingPage
  <1> QED BY <1>1, <1>2, <1>3

LEMMA WebhookOnce ==
    ASSUME Inv, NEW w \in Workers,
           \/ VerifyTransaction(w) \/ ComparePayment(w) \/ SaveWebhook(w) \/ EmitResult(w)
           \/ EmitResultFails(w) \/ SaveVisit(w) \/ WebhookFails(w) \/ Crash(w)
    PROVE  Harmless
  <1>1. CASE VerifyTransaction(w) \/ ComparePayment(w)
    <2>1. /\ work'[w].op = work[w].op /\ work'[w].stage # "insert"
          /\ \A v \in Workers : v # w => work'[v] = work[v]
      BY <1>1 DEF VerifyTransaction, ComparePayment, Inv, TypeOK, Task
    <2> QED BY <1>1, <2>1, MovesOnce DEF VerifyTransaction, ComparePayment
  <1>2. CASE SaveWebhook(w)
    BY <1>2, GotoOnce DEF SaveWebhook, Stage
  <1>3. CASE EmitResult(w) \/ EmitResultFails(w)
    <2>1. UNCHANGED children /\ (Goto(w, "topup") \/ Finish(w))
      BY <1>3 DEF EmitResult, EmitResultFails, Acknowledge
    <2> QED BY <2>1, GotoOnce, FinishOnce DEF Stage
  <1>4. CASE SaveVisit(w) \/ WebhookFails(w) \/ Crash(w)
    BY <1>4, FinishOnce DEF SaveVisit, WebhookFails, Crash
  <1> QED BY <1>1, <1>2, <1>3, <1>4

LEMMA EnvironmentOnce ==
    ASSUME Environment
    PROVE  Harmless
  BY DEF Environment, AwaitPayment, Settle, Harmless, Inserting, At

\* The look that finds no child, and the insert.
LEMMA TopUpOnce ==
    ASSUME Inv, OnceInv, OneWebhook, NEW w \in Workers, FindChild(w) \/ InsertChild(w)
    PROVE  OnceInv'
  <1> DEFINE o == work[w].order
  <1>1. /\ w \in Webhooks /\ o \in Orders
        /\ \A x \in Orders : children[x] \in Nat
    BY DEF OnceInv, FindChild, InsertChild, At, Inv, TypeOK, HandlerOK, Active
  <1>2. CASE FindChild(w) /\ children[o] > 0
    BY <1>2, FinishOnce, HarmlessKeeps DEF FindChild, Acknowledge
  <1>3. CASE FindChild(w) /\ ~ (children[o] > 0)
    <2>1. /\ work'[w].order = o /\ children[o] = 0 /\ UNCHANGED children
          /\ \A v \in Workers : v # w => work'[v] = work[v]
      BY <1>1, <1>3 DEF FindChild, Goto, Inv, TypeOK, Task
    <2> QED BY <1>1, <2>1 DEF OnceInv, ToppedUpOnce, Inserting, At
  <1>4. CASE InsertChild(w)
    <2>1. children[o] = 0
      BY <1>4 DEF InsertChild, OnceInv, Inserting
    <2>2. \A x \in Orders : children'[x] = IF x = o THEN 1 ELSE children[x]
      BY <1>1, <1>4, <2>1 DEF InsertChild, Inv, TypeOK
    <2>3. work'[w] = Idle /\ \A v \in Workers : v # w => work'[v] = work[v]
      BY <1>4 DEF InsertChild, Acknowledge, Finish, Inv, TypeOK
    <2>4. ToppedUpOnce'
      BY <2>2 DEF OnceInv, ToppedUpOnce
    <2>5. \A v \in Workers : v # w => ~ Inserting(v)
      BY <1>1 DEF OnceInv, OneWebhook, Inserting, At
    <2>6. \A v \in Workers : /\ work'[v].op = "webhook" => v \in Webhooks
                             /\ ~ Inserting(v)'
      BY <2>3, <2>5 DEF OnceInv, Inserting, At, Idle
    <2> QED BY <2>4, <2>6 DEF OnceInv
  <1> QED BY <1>2, <1>3, <1>4

LEMMA OnceInductive ==
    ASSUME OneWebhook, Inv, OnceInv, [Next]_vars
    PROVE  OnceInv'
  <1>1. CASE \E c \in Consumers, o \in Orders :
                 RefuseOrder(c, o) \/ HandleOrderAwaitingPayment(c, o)
    BY <1>1, ConsumerOnce, HarmlessKeeps DEF Workers
  <1>2. CASE \E w \in Webhooks, o \in Orders : ReceiveWebhook(w, o) \/ IgnoreWebhook(w, o)
    BY <1>2, ArrivalOnce, HarmlessKeeps DEF Workers
  <1>3. CASE \E v \in Visits, o \in Orders : VisitLandingPage(v, o)
    BY <1>3, ArrivalOnce, HarmlessKeeps DEF Workers
  <1>4. ASSUME NEW w \in Workers, Progress(w) PROVE OnceInv'
    BY <1>4, ConsumerOnce, WebhookOnce, TopUpOnce, HarmlessKeeps DEF Progress
  <1>5. ASSUME NEW w \in Workers, Fault(w) PROVE OnceInv'
    BY <1>5, ConsumerOnce, WebhookOnce, HarmlessKeeps DEF Fault
  <1>6. CASE Environment
    BY <1>6, EnvironmentOnce, HarmlessKeeps
  <1>7. CASE UNCHANGED vars
    BY <1>7 DEF vars, OnceInv, ToppedUpOnce, Inserting, At
  <1> QED BY <1>1, <1>2, <1>3, <1>4, <1>5, <1>6, <1>7 DEF Next

LEMMA OnceInitially == Init => OnceInv
  BY DEF Init, Idle, OnceInv, ToppedUpOnce, Inserting, At

\* "create a payout child (idempotent)": whatever landing pages, retries and crashes make of the
\* payment, no order is topped up twice, as long as one webhook is handled at a time.
THEOREM TopUpIsIdempotent ==
    ASSUME OneWebhook
    PROVE  Spec => []ToppedUpOnce
  <1>1. Init => Inv /\ OnceInv
    BY Initially, OnceInitially
  <1>2. Inv /\ OnceInv /\ [Next]_vars => (Inv /\ OnceInv)'
    BY Inductive, OnceInductive
  <1>3. OnceInv => ToppedUpOnce
    BY DEF OnceInv
  <1> QED BY <1>1, <1>2, <1>3, PTL DEF Spec

=============================================================================
