-------------------------- MODULE AfterCreation_proofs --------------------------
(***************************************************************************)
(* What workers, retries and subscriptions do to the tables, whatever      *)
(* their number, the clocks and the faults: the inductive invariant IInv   *)
(* and the lemmas that each of their actions keeps it.  The theorems about *)
(* Pipeline and DummyPay rest on them.                                     *)
(*                                                                         *)
(* That a payment settles once rests on three things: it has one work row  *)
(* of kind SETTLE_PAYMENT, a row is in one worker's hand, and what that    *)
(* worker loaded is still the payment when it writes.                      *)
(***************************************************************************)
EXTENDS AfterCreation, Database_proofs, SequenceTheorems

(* Work names payments and deliveries that exist. *)
RowsRefer ==
  \A i \in DOMAIN outbox_work :
    IF outbox_work[i].kind = "SETTLE_PAYMENT"
    THEN outbox_work[i].subject_id \in DOMAIN payments
    ELSE outbox_work[i].subject_id \in DOMAIN webhook_deliveries

(* A payment has one settlement to be done, ever. *)
OneSettlementRow ==
  \A i, j \in DOMAIN outbox_work :
    /\ outbox_work[i].kind = "SETTLE_PAYMENT"
    /\ outbox_work[j].kind = "SETTLE_PAYMENT"
    /\ outbox_work[i].subject_id = outbox_work[j].subject_id
    => i = j

HasSettlementRow(i) ==
  \E n \in DOMAIN outbox_work :
    outbox_work[n].kind = "SETTLE_PAYMENT" /\ outbox_work[n].subject_id = i

(* A payment has its settlement to be done, or done, from the start. *)
SettlementRows == \A i \in DOMAIN payments : HasSettlementRow(i)

(* A delivery is of a payment that exists, and of its terminal event only  *)
(* once the payment is terminal.                                           *)
DeliveriesRefer ==
  \A d \in DOMAIN webhook_deliveries :
    LET row == webhook_deliveries[d]
    IN  /\ row.payment_id \in DOMAIN payments
        /\ row.event_type = "payment.processing"
           \/ payments[row.payment_id].status # "PROCESSING"

(* A settlement falls due the processing delay after the payment is made.  *)
SettlementsDue ==
  \A i \in DOMAIN outbox_work :
    outbox_work[i].kind = "SETTLE_PAYMENT" =>
      outbox_work[i].due_at = payments[outbox_work[i].subject_id].created_at + ProcessingDelay

(* A settlement is dated the delay after the payment's creation or later. *)
SettledInTime(p) ==
  p.status \in TerminalStatus => p.updated_at >= p.created_at + ProcessingDelay

NoEarlySettlement == \A i \in DOMAIN payments : SettledInTime(payments[i])

(* Every POST was made for a row that was due. *)
SendsInTime == \A n \in DOMAIN sends : outbox_work[sends[n].row].due_at =< sends[n].now

TInv ==
  /\ TablesTypeOK /\ RowsRefer /\ OneSettlementRow /\ SettlementRows /\ DeliveriesRefer
  /\ OneDeliveryPerEvent /\ SettlementsDue /\ NoEarlySettlement

(* What a worker has in its registers fits the stage it is in. *)
Settling(w) == wstage[w] \in {"settle", "update", "commit"}

Delivering(w) == wstage[w] \in {"deliver", "send", "record"}

InStep(w) ==
  /\ wstage[w] = "idle" => batch[w] = {}
  /\ wstage[w] \in {"idle", "claiming", "next"} => item[w] = NoRow
  /\ wstage[w] = "claiming" => \A i \in batch[w] : outbox_work[i].state = "PENDING"
  /\ wstage[w] # "claiming" => \A i \in InHand(w) : outbox_work[i].state = "DONE"
  /\ \A i \in InHand(w) : outbox_work[i].due_at =< wnow[w]
  /\ Settling(w) => item[w] # NoRow /\ outbox_work[item[w]].kind = "SETTLE_PAYMENT"
  /\ Delivering(w) => item[w] # NoRow /\ outbox_work[item[w]].kind = "DELIVER_WEBHOOK"
  /\ wstage[w] \in {"update", "commit"} =>
       loaded[w] = payments[Subject(w)] /\ loaded[w].status = "PROCESSING"
  /\ wstage[w] = "record" =>
       \E n \in DOMAIN sends : sends[n] = Post(w, reply[w])

RetriesRefer ==
  \A c \in RetryRequest :
    rstage[c] = "enqueue" => rdelivery[c] \in DOMAIN webhook_deliveries

(* What deliveries say of their attempts, and the history of POSTs. *)
AttemptsTrue == OutcomeIsOfAPost /\ SendsInTime

IInv ==
  /\ TInv
  /\ WorkerTypeOK
  /\ \A w \in Worker : InStep(w)
  /\ RowInOneHand
  /\ RetryTypeOK
  /\ RetriesRefer
  /\ AttemptsTrue

-----------------------------------------------------------------------------
(* What any step does to the tables: rows stay, and what they refer to     *)
(* stays; a payment that left PROCESSING does not come back.               *)
PaymentsGrow ==
  /\ \A i \in DOMAIN payments :
       /\ i \in DOMAIN payments'
       /\ payments[i].status # "PROCESSING" => payments'[i].status # "PROCESSING"
       /\ payments'[i].created_at = payments[i].created_at
       /\ payments'[i] = payments[i] \/ SettledInTime(payments'[i])
  /\ \A i \in DOMAIN payments' \ DOMAIN payments :
       SettledInTime(payments'[i]) /\ HasSettlementRow(i)'

DeliveriesGrow ==
  /\ \A d \in DOMAIN webhook_deliveries :
       /\ d \in DOMAIN webhook_deliveries'
       /\ webhook_deliveries'[d].payment_id = webhook_deliveries[d].payment_id
       /\ webhook_deliveries'[d].event_type = webhook_deliveries[d].event_type
       /\ webhook_deliveries'[d].subscription_id = webhook_deliveries[d].subscription_id
       /\ webhook_deliveries'[d].payload_status = webhook_deliveries[d].payload_status
  /\ \A d \in DOMAIN webhook_deliveries' \ DOMAIN webhook_deliveries :
       LET new == webhook_deliveries'[d]
       IN  /\ d = Len(webhook_deliveries) + 1
           /\ new.payment_id \in DOMAIN payments'
           /\ new.event_type = "payment.processing"
              \/ payments'[new.payment_id].status # "PROCESSING"
           /\ ~new.attempted
           /\ \A e \in DOMAIN webhook_deliveries :
                ~(/\ webhook_deliveries[e].payment_id = new.payment_id
                  /\ webhook_deliveries[e].event_type = new.event_type)

RowsGrow ==
  /\ \A i \in DOMAIN outbox_work :
       /\ i \in DOMAIN outbox_work'
       /\ outbox_work'[i].kind = outbox_work[i].kind
       /\ outbox_work'[i].subject_id = outbox_work[i].subject_id
       /\ outbox_work'[i].due_at = outbox_work[i].due_at
       /\ outbox_work[i].state = "DONE" => outbox_work'[i].state = "DONE"
  /\ \A i \in DOMAIN outbox_work' \ DOMAIN outbox_work :
       IF outbox_work'[i].kind = "SETTLE_PAYMENT"
       THEN /\ outbox_work'[i].subject_id \in DOMAIN payments' \ DOMAIN payments
            /\ i = Len(outbox_work) + 1
            /\ outbox_work'[i].due_at =
                 payments'[outbox_work'[i].subject_id].created_at + ProcessingDelay
       ELSE outbox_work'[i].subject_id \in DOMAIN webhook_deliveries'

TablesGrow == TablesTypeOK' /\ PaymentsGrow /\ DeliveriesGrow /\ RowsGrow

(* Deliveries keep the outcome they had, or the PENDING a retry gives.  *)
OutcomesKept ==
  \A d \in DOMAIN webhook_deliveries :
    /\ webhook_deliveries'[d].attempted = webhook_deliveries[d].attempted
    /\ webhook_deliveries'[d].last_http_status = webhook_deliveries[d].last_http_status
    /\ webhook_deliveries'[d].last_attempted_at = webhook_deliveries[d].last_attempted_at
    /\ webhook_deliveries'[d].status \in {"PENDING", webhook_deliveries[d].status}

(* Tables that grow this way keep their invariant. *)
LEMMA GrowingKeepsTInv ==
  ASSUME TInv, TablesGrow
  PROVE  TInv'
<1>1. RowsRefer'
  BY DEF TInv, TablesGrow, RowsRefer, RowsGrow, PaymentsGrow, DeliveriesGrow
<1>2. OneSettlementRow'
  <2> SUFFICES ASSUME NEW i \in DOMAIN outbox_work', NEW j \in DOMAIN outbox_work',
                      outbox_work'[i].kind = "SETTLE_PAYMENT",
                      outbox_work'[j].kind = "SETTLE_PAYMENT",
                      outbox_work'[i].subject_id = outbox_work'[j].subject_id
               PROVE  i = j
    BY DEF OneSettlementRow
  <2>1. CASE i \in DOMAIN outbox_work /\ j \in DOMAIN outbox_work
    BY <2>1 DEF TInv, TablesGrow, OneSettlementRow, RowsGrow
  <2>2. CASE i \notin DOMAIN outbox_work /\ j \notin DOMAIN outbox_work
    BY <2>2 DEF TablesGrow, RowsGrow
  <2>3. CASE i \in DOMAIN outbox_work /\ j \notin DOMAIN outbox_work
    BY <2>3 DEF TInv, TablesGrow, RowsRefer, RowsGrow
  <2>4. CASE i \notin DOMAIN outbox_work /\ j \in DOMAIN outbox_work
    BY <2>4 DEF TInv, TablesGrow, RowsRefer, RowsGrow
  <2> QED  BY <2>1, <2>2, <2>3, <2>4
<1>3. DeliveriesRefer'
  BY DEF TInv, TablesGrow, DeliveriesRefer, PaymentsGrow, DeliveriesGrow
<1>4. OneDeliveryPerEvent'
  BY DEF TInv, TablesGrow, OneDeliveryPerEvent, DeliveriesGrow
<1>5. SettlementsDue'
  BY DEF TInv, TablesGrow, SettlementsDue, RowsRefer, RowsGrow, PaymentsGrow
<1>6. NoEarlySettlement'
  BY DEF TInv, TablesGrow, NoEarlySettlement, PaymentsGrow
<1>7. SettlementRows'
  BY DEF TInv, TablesGrow, SettlementRows, HasSettlementRow, RowsGrow, PaymentsGrow
<1> QED  BY <1>1, <1>2, <1>3, <1>4, <1>5, <1>6, <1>7 DEF TInv, TablesGrow

-----------------------------------------------------------------------------
(* The ways steps write tables. *)

LEMMA UntouchedGrow ==
  ASSUME TInv, UNCHANGED tables, clock' \in Nat
  PROVE  TablesGrow
  BY DEF TInv, tables, TablesGrow, TablesTypeOK, PaymentsGrow, DeliveriesGrow, RowsGrow

(* What is appended comes after what was there. *)
LEMMA Concatenated ==
  ASSUME NEW S, NEW s \in Seq(S), NEW t \in Seq(S)
  PROVE  /\ s \o t \in Seq(S)
         /\ \A i \in DOMAIN s : i \in DOMAIN (s \o t) /\ (s \o t)[i] = s[i]
         /\ \A i \in DOMAIN (s \o t) \ DOMAIN s :
              i - Len(s) \in DOMAIN t /\ (s \o t)[i] = t[i - Len(s)]
  BY ConcatProperties, LenProperties

LEMMA Appended ==
  ASSUME NEW S, NEW s \in Seq(S), NEW x \in S
  PROVE  /\ Append(s, x) \in Seq(S)
         /\ \A i \in DOMAIN s : i \in DOMAIN Append(s, x) /\ Append(s, x)[i] = s[i]
         /\ DOMAIN Append(s, x) \ DOMAIN s = {Len(s) + 1}
         /\ Append(s, x)[Len(s) + 1] = x
  BY AppendProperties, LenProperties

LEMMA Replaced ==
  ASSUME NEW S, NEW s \in Seq(S), NEW k \in DOMAIN s, NEW x \in S
  PROVE  /\ [s EXCEPT ![k] = x] \in Seq(S)
         /\ DOMAIN [s EXCEPT ![k] = x] = DOMAIN s
         /\ \A i \in DOMAIN s : [s EXCEPT ![k] = x][i] = IF i = k THEN x ELSE s[i]
  BY ExceptSeq, LenProperties

LEMMA SubscribeGrows ==
  ASSUME TInv, NEW a \in Account, NEW events \in EventSets, Subscribe(a, events),
         UNCHANGED clock
  PROVE  TablesGrow
<1>1. NewSubscription(a, events) \in SubscriptionRow
  BY EventSetsAssumption DEF NewSubscription, SubscriptionRow, TInv, TablesTypeOK
<1>2. webhook_subscriptions' \in Seq(SubscriptionRow)
  BY <1>1, Appended DEF Subscribe, TInv, TablesTypeOK
<1> QED
  BY <1>2 DEF Subscribe, TInv, TablesTypeOK, TablesGrow, PaymentsGrow, DeliveriesGrow, RowsGrow

(* Marking rows DONE changes nothing else about them. *)
LEMMA MarkDoneRows ==
  ASSUME TInv, NEW S, MarkDone(S)
  PROVE  /\ outbox_work' \in Seq(OutboxRow)
         /\ DOMAIN outbox_work' = DOMAIN outbox_work
         /\ \A i \in DOMAIN outbox_work :
              /\ outbox_work'[i].kind = outbox_work[i].kind
              /\ outbox_work'[i].subject_id = outbox_work[i].subject_id
              /\ outbox_work'[i].due_at = outbox_work[i].due_at
              /\ outbox_work'[i].state = IF i \in S THEN "DONE" ELSE outbox_work[i].state
<1> DEFINE Marked(i) == IF i \in S THEN [outbox_work[i] EXCEPT !.state = "DONE"]
                                   ELSE outbox_work[i]
<1>1. outbox_work \in Seq(OutboxRow) /\ DOMAIN outbox_work = 1..Len(outbox_work)
      /\ Len(outbox_work) \in Nat
  BY LenProperties DEF TInv, TablesTypeOK
<1>2. ASSUME NEW i \in DOMAIN outbox_work
      PROVE  /\ Marked(i) \in OutboxRow
             /\ Marked(i).kind = outbox_work[i].kind
             /\ Marked(i).subject_id = outbox_work[i].subject_id
             /\ Marked(i).due_at = outbox_work[i].due_at
             /\ Marked(i).state = IF i \in S THEN "DONE" ELSE outbox_work[i].state
  <2>1. outbox_work[i] \in OutboxRow
    BY <1>1, ElementOfSeq
  <2> QED  BY <2>1 DEF OutboxRow
<1>3. outbox_work' = [i \in 1..Len(outbox_work) |-> Marked(i)]
  BY <1>1 DEF MarkDone
<1> HIDE DEF Marked
<1>4. outbox_work' \in [1..Len(outbox_work) -> OutboxRow]
  BY <1>1, <1>2, <1>3
<1>5. outbox_work' \in Seq(OutboxRow)
  BY <1>1, <1>4, SeqDef
<1> QED  BY <1>1, <1>2, <1>3, <1>5

LEMMA MarkDoneGrows ==
  ASSUME TInv, NEW S, MarkDone(S),
         UNCHANGED <<clock, idempotency_keys, payments, webhook_subscriptions,
                     webhook_deliveries>>
  PROVE  TablesGrow
<1>1. TablesTypeOK'
  BY MarkDoneRows DEF TInv, TablesTypeOK
<1>2. RowsGrow
  BY MarkDoneRows DEF RowsGrow
<1> QED
  BY <1>1, <1>2 DEF TablesGrow, PaymentsGrow, DeliveriesGrow

(* What a payment's event appends: the delivery and its work, or nothing.  *)
LEMMA DeliverWorkRows ==
  ASSUME TInv, NEW sub \in Nat, NEW t \in Nat
  PROVE  /\ DeliverWork(sub, t) \in Seq(OutboxRow)
         /\ \A k \in DOMAIN DeliverWork(sub, t) :
              /\ sub # NoSubscription
              /\ DeliverWork(sub, t)[k].kind = "DELIVER_WEBHOOK"
              /\ DeliverWork(sub, t)[k].subject_id = Len(webhook_deliveries) + 1
<1>1. Len(webhook_deliveries) + 1 \in Nat
  BY DEF TInv, TablesTypeOK
<1>2. NewWork("DELIVER_WEBHOOK", Len(webhook_deliveries) + 1, t) \in OutboxRow
  BY <1>1 DEF NewWork, OutboxRow, OutboxKind
<1> QED  BY <1>2 DEF DeliverWork, NewWork

LEMMA DeliveriesWithRows ==
  ASSUME TInv, NEW sub \in Nat, NEW id \in Nat, NEW st \in Status, NEW t \in Nat,
         webhook_deliveries' = DeliveriesWith(sub, id, st, t)
  PROVE  /\ webhook_deliveries' \in Seq(DeliveryRow)
         /\ \A d \in DOMAIN webhook_deliveries :
              d \in DOMAIN webhook_deliveries' /\ webhook_deliveries'[d] = webhook_deliveries[d]
         /\ sub # NoSubscription => Len(webhook_deliveries) + 1 \in DOMAIN webhook_deliveries'
         /\ \A d \in DOMAIN webhook_deliveries' \ DOMAIN webhook_deliveries :
              /\ d = Len(webhook_deliveries) + 1
              /\ webhook_deliveries'[d] = NewDelivery(sub, id, st, t)
<1>1. NewDelivery(sub, id, st, t) \in DeliveryRow
  BY DEF NewDelivery, DeliveryRow, DeliveryStatus, EventTypeForStatus, EventType
<1>2. webhook_deliveries \in Seq(DeliveryRow)
  BY DEF TInv, TablesTypeOK
<1>3. CASE sub = NoSubscription
  BY <1>2, <1>3 DEF DeliveriesWith
<1>4. CASE sub # NoSubscription
  BY <1>1, <1>2, <1>4, Appended DEF DeliveriesWith
<1> QED  BY <1>3, <1>4

(* A transaction that announces a status of a payment, after it wrote the  *)
(* payment, and announces it for the first time.                           *)
LEMMA AnnouncedDeliveries ==
  ASSUME TInv, NEW sub \in Nat, NEW id \in DOMAIN payments', id \in Nat,
         NEW st \in Status, NEW t \in Nat,
         st = "PROCESSING" \/ payments'[id].status # "PROCESSING",
         \A e \in DOMAIN webhook_deliveries :
           webhook_deliveries[e].payment_id = id =>
             webhook_deliveries[e].event_type # EventTypeForStatus(st),
         webhook_deliveries' = DeliveriesWith(sub, id, st, t)
  PROVE  /\ DeliveriesGrow
         /\ webhook_deliveries' \in Seq(DeliveryRow)
         /\ sub # NoSubscription => Len(webhook_deliveries) + 1 \in DOMAIN webhook_deliveries'
<1>1. /\ webhook_deliveries' \in Seq(DeliveryRow)
      /\ \A d \in DOMAIN webhook_deliveries :
           d \in DOMAIN webhook_deliveries' /\ webhook_deliveries'[d] = webhook_deliveries[d]
      /\ sub # NoSubscription => Len(webhook_deliveries) + 1 \in DOMAIN webhook_deliveries'
      /\ \A d \in DOMAIN webhook_deliveries' \ DOMAIN webhook_deliveries :
           /\ d = Len(webhook_deliveries) + 1
           /\ webhook_deliveries'[d] = NewDelivery(sub, id, st, t)
  BY DeliveriesWithRows
<1>2. /\ NewDelivery(sub, id, st, t).payment_id = id
      /\ NewDelivery(sub, id, st, t).event_type = EventTypeForStatus(st)
      /\ ~NewDelivery(sub, id, st, t).attempted
  BY DEF NewDelivery
<1>3. EventTypeForStatus("PROCESSING") = "payment.processing"
  BY DEF EventTypeForStatus
<1>4. ASSUME NEW d \in DOMAIN webhook_deliveries' \ DOMAIN webhook_deliveries
      PROVE  /\ d = Len(webhook_deliveries) + 1
             /\ webhook_deliveries'[d].payment_id \in DOMAIN payments'
             /\ webhook_deliveries'[d].event_type = "payment.processing"
                \/ payments'[webhook_deliveries'[d].payment_id].status # "PROCESSING"
             /\ ~webhook_deliveries'[d].attempted
             /\ \A e \in DOMAIN webhook_deliveries :
                  ~(/\ webhook_deliveries[e].payment_id = webhook_deliveries'[d].payment_id
                    /\ webhook_deliveries[e].event_type = webhook_deliveries'[d].event_type)
  <2>1. d = Len(webhook_deliveries) + 1 /\ webhook_deliveries'[d] = NewDelivery(sub, id, st, t)
    BY <1>1
  <2> QED  BY <1>2, <1>3, <2>1
<1> QED  BY <1>1, <1>4 DEF DeliveriesGrow

LEMMA InsertPaymentGrows ==
  ASSUME TInv, NEW s \in Scope, NEW b \in Body, NEW t \in Nat, NEW sub \in Nat,
         InsertPayment(s, b, t, sub),
         UNCHANGED <<clock, webhook_subscriptions>>,
         idempotency_keys' \in [Scope -> IdempotencyRow]
  PROVE  /\ TablesGrow
         /\ \A i \in DOMAIN payments : payments'[i] = payments[i]
         /\ \A i \in DOMAIN outbox_work : outbox_work'[i] = outbox_work[i]
         /\ \A d \in DOMAIN webhook_deliveries :
              webhook_deliveries'[d] = webhook_deliveries[d]
<1> DEFINE id == Len(payments) + 1
           p == NewPayment(s, b, t)
<1>1. /\ id \in Nat
      /\ p \in PaymentRow
      /\ p.status = "PROCESSING" /\ p.created_at = t
      /\ payments \in Seq(PaymentRow)
  BY NewPaymentTyped DEF TInv, TablesTypeOK, NewPayment
<1>2. payments' = Append(payments, p)
  BY DEF InsertPayment
<1>3. /\ payments' \in Seq(PaymentRow)
      /\ id \in DOMAIN payments' \ DOMAIN payments
      /\ \A i \in DOMAIN payments : i \in DOMAIN payments' /\ payments'[i] = payments[i]
      /\ payments'[id] = p
      /\ DOMAIN payments' \ DOMAIN payments = {id}
  BY <1>1, <1>2, Appended
<1>5. "PROCESSING" \in Status
  BY DEF Status
<1>6. \A e \in DOMAIN webhook_deliveries : webhook_deliveries[e].payment_id # id
  BY <1>3 DEF TInv, DeliveriesRefer
<1>7. /\ SettleWork(id, t) \in Seq(OutboxRow)
      /\ 1 \in DOMAIN SettleWork(id, t)
      /\ \A k \in DOMAIN SettleWork(id, t) :
           /\ k = 1
           /\ SettleWork(id, t)[k].kind = "SETTLE_PAYMENT"
           /\ SettleWork(id, t)[k].subject_id = id
           /\ SettleWork(id, t)[k].due_at = payments'[id].created_at + ProcessingDelay
  <2>1. NewWork("SETTLE_PAYMENT", id, t + ProcessingDelay) \in OutboxRow
    BY <1>1, DelayAssumption DEF NewWork, OutboxRow, OutboxKind
  <2> QED  BY <1>1, <1>3, <2>1 DEF SettleWork, NewWork
<1>8. /\ webhook_deliveries' = DeliveriesWith(sub, id, "PROCESSING", t)
      /\ outbox_work' = (outbox_work \o SettleWork(id, t)) \o DeliverWork(sub, t)
  BY <1>1 DEF InsertPayment
<1> DEFINE first == SettleWork(id, t)
<1> HIDE DEF id, p, first
<1>10. /\ DeliveriesGrow
       /\ webhook_deliveries' \in Seq(DeliveryRow)
       /\ sub # NoSubscription => Len(webhook_deliveries) + 1 \in DOMAIN webhook_deliveries'
  BY <1>1, <1>3, <1>5, <1>6, <1>8, AnnouncedDeliveries
<1>11. /\ outbox_work \in Seq(OutboxRow)
       /\ outbox_work \o first \in Seq(OutboxRow)
       /\ DeliverWork(sub, t) \in Seq(OutboxRow)
       /\ outbox_work' = (outbox_work \o first) \o DeliverWork(sub, t)
       /\ outbox_work' \in Seq(OutboxRow)
       /\ first \in Seq(OutboxRow)
  BY <1>7, <1>8, DeliverWorkRows, Concatenated DEF TInv, TablesTypeOK, first
<1>13. ASSUME NEW i \in DOMAIN outbox_work
       PROVE  i \in DOMAIN outbox_work' /\ outbox_work'[i] = outbox_work[i]
  <2> DEFINE before == outbox_work \o first
  <2>1. i \in DOMAIN before /\ before[i] = outbox_work[i]
    BY <1>11, Concatenated
  <2> HIDE DEF before
  <2>2. outbox_work' = before \o DeliverWork(sub, t) /\ before \in Seq(OutboxRow)
    BY <1>11 DEF before
  <2> QED  BY <1>11, <2>1, <2>2, Concatenated
<1>4. PaymentsGrow
  <2>1. \E n \in DOMAIN outbox_work' :
          outbox_work'[n].kind = "SETTLE_PAYMENT" /\ outbox_work'[n].subject_id = id
    <3> DEFINE before == outbox_work \o first
               n == Len(outbox_work) + 1
    <3>1. 1 \in DOMAIN first /\ Len(first) \in Nat /\ Len(outbox_work) \in Nat
          /\ DOMAIN first = 1..Len(first)
      BY <1>7, <1>11, LenProperties DEF first
    <3>2. n \in DOMAIN before /\ before[n] = first[1]
      BY <1>11, <3>1, ConcatProperties, LenProperties
    <3> HIDE DEF before, n
    <3>3. outbox_work' = before \o DeliverWork(sub, t) /\ before \in Seq(OutboxRow)
      BY <1>11 DEF before
    <3>4. n \in DOMAIN outbox_work' /\ outbox_work'[n] = first[1]
      BY <1>11, <3>2, <3>3, Concatenated
    <3> QED  BY <1>7, <3>4 DEF first
  <2>2. SettledInTime(payments'[id])
    BY <1>1, <1>3 DEF SettledInTime, TerminalStatus
  <2>3. \A i \in DOMAIN payments' \ DOMAIN payments :
          SettledInTime(payments'[i]) /\ HasSettlementRow(i)'
    <3> SUFFICES ASSUME NEW i \in DOMAIN payments' \ DOMAIN payments
                 PROVE  SettledInTime(payments'[i]) /\ HasSettlementRow(i)'
      OBVIOUS
    <3>1. i = id
      BY <1>3
    <3>2. HasSettlementRow(i)'
      BY <2>1, <3>1 DEF HasSettlementRow
    <3> QED  BY <2>2, <3>1, <3>2
  <2>4. \A i \in DOMAIN payments :
          /\ i \in DOMAIN payments' /\ payments'[i] = payments[i]
    BY <1>3
  <2> QED  BY <2>3, <2>4 DEF PaymentsGrow
<1>12. RowsGrow
  <2>2. ASSUME NEW i \in DOMAIN outbox_work' \ DOMAIN outbox_work
        PROVE  IF outbox_work'[i].kind = "SETTLE_PAYMENT"
               THEN /\ outbox_work'[i].subject_id \in DOMAIN payments' \ DOMAIN payments
                    /\ i = Len(outbox_work) + 1
                    /\ outbox_work'[i].due_at =
                         payments'[outbox_work'[i].subject_id].created_at + ProcessingDelay
               ELSE outbox_work'[i].subject_id \in DOMAIN webhook_deliveries'
    <3>1. CASE i \in DOMAIN (outbox_work \o first)
      <4>1. outbox_work'[i] = (outbox_work \o first)[i]
        BY <1>11, <3>1, Concatenated
      <4>2. /\ i - Len(outbox_work) \in DOMAIN first
            /\ (outbox_work \o first)[i] = first[i - Len(outbox_work)]
        BY <1>11, <2>2, <3>1, Concatenated
      <4>3. i - Len(outbox_work) = 1 /\ i \in Int /\ Len(outbox_work) \in Nat
        BY <1>7, <1>11, <2>2, <4>2, LenProperties DEF first
      <4> QED  BY <1>3, <1>7, <4>1, <4>2, <4>3 DEF first
    <3>2. CASE i \notin DOMAIN (outbox_work \o first)
      <4> DEFINE before == outbox_work \o first
                 k == i - Len(before)
      <4>0. k \in DOMAIN DeliverWork(sub, t) /\ outbox_work'[i] = DeliverWork(sub, t)[k]
        BY <1>11, <2>2, <3>2, Concatenated
      <4>1. PICK n \in DOMAIN DeliverWork(sub, t) : outbox_work'[i] = DeliverWork(sub, t)[n]
        BY <4>0
      <4>2. /\ sub # NoSubscription
            /\ DeliverWork(sub, t)[n].kind = "DELIVER_WEBHOOK"
            /\ DeliverWork(sub, t)[n].subject_id = Len(webhook_deliveries) + 1
        BY DeliverWorkRows
      <4> QED  BY <1>10, <4>1, <4>2
    <3> QED  BY <3>1, <3>2
  <2> QED  BY <1>13, <2>2 DEF RowsGrow
<1>14. \A d \in DOMAIN webhook_deliveries : webhook_deliveries'[d] = webhook_deliveries[d]
  BY <1>1, <1>5, <1>8, DeliveriesWithRows
<1>15. TablesGrow
  BY <1>3, <1>4, <1>10, <1>11, <1>12 DEF TablesGrow, TInv, TablesTypeOK
<1> QED
  BY <1>3, <1>13, <1>14, <1>15

(* What the row in a worker's hand names.  *)
LEMMA InHandRefers ==
  ASSUME IInv, NEW w \in Worker
  PROVE  /\ item[w] # NoRow => item[w] \in DOMAIN outbox_work
         /\ Settling(w) => item[w] \in DOMAIN outbox_work /\ Subject(w) \in DOMAIN payments
         /\ Delivering(w) =>
              item[w] \in DOMAIN outbox_work /\ Subject(w) \in DOMAIN webhook_deliveries
<1>1. item[w] # NoRow => item[w] \in DOMAIN outbox_work
  BY DEF IInv, WorkerTypeOK
<1> QED  BY <1>1 DEF IInv, InStep, TInv, RowsRefer, Subject

LEMMA InHandRows ==
  ASSUME IInv, NEW v \in Worker
  PROVE  /\ InHand(v) \subseteq DOMAIN outbox_work
         /\ item[v] # NoRow => item[v] \in InHand(v)
  BY DEF IInv, WorkerTypeOK, InHand

(* What a settlement writes over the payment it loaded. *)
LEMMA SettledRow ==
  ASSUME IInv, NEW w \in Worker, wstage[w] \in {"update", "commit"}
  PROVE  /\ Subject(w) \in DOMAIN payments
         /\ payments[Subject(w)].status = "PROCESSING"
         /\ Settled(w) \in PaymentRow
         /\ Settled(w).status = SettledStatus(payments[Subject(w)].body.token)
         /\ Settled(w).status \in TerminalStatus
         /\ Settled(w).created_at = payments[Subject(w)].created_at
         /\ Settled(w).updated_at = wnow[w]
         /\ SettledInTime(Settled(w))
<1>1. Subject(w) \in DOMAIN payments
  BY InHandRefers DEF Settling
<1>2. /\ loaded[w] = payments[Subject(w)]
      /\ loaded[w].status = "PROCESSING"
      /\ wnow[w] \in Nat
  BY DEF IInv, InStep, WorkerTypeOK
<1>3. payments[Subject(w)] \in PaymentRow
  BY <1>1, ElementOfSeq, LenProperties DEF IInv, TInv, TablesTypeOK
<1>4. SettledStatus(loaded[w].body.token) \in TerminalStatus
  BY DEF SettledStatus, TerminalStatus
<1>5. payments[Subject(w)].created_at + ProcessingDelay =< wnow[w]
  <2>1. /\ item[w] \in DOMAIN outbox_work /\ item[w] \in InHand(w)
        /\ outbox_work[item[w]].kind = "SETTLE_PAYMENT"
    BY InHandRefers, InHandRows DEF Settling, IInv, InStep
  <2>2. outbox_work[item[w]].due_at =< wnow[w]
    BY <2>1 DEF IInv, InStep
  <2> QED  BY <2>1, <2>2 DEF IInv, TInv, SettlementsDue, Subject
<1>6. /\ Settled(w) \in PaymentRow
      /\ Settled(w).status = SettledStatus(payments[Subject(w)].body.token)
      /\ Settled(w).status \in TerminalStatus
      /\ Settled(w).created_at = payments[Subject(w)].created_at
      /\ Settled(w).updated_at = wnow[w]
  BY <1>1, <1>2, <1>3, <1>4 DEF Settled, Settle, PaymentRow, Status, TerminalStatus
<1>7. SettledInTime(Settled(w))
  <2>1. Settled(w).updated_at >= Settled(w).created_at + ProcessingDelay
    <3>1. payments[Subject(w)].created_at \in Nat /\ ProcessingDelay \in Nat
      BY <1>3, DelayAssumption DEF PaymentRow
    <3> QED  BY <1>2, <1>5, <1>6, <3>1
  <2> QED  BY <2>1 DEF SettledInTime
<1> QED  BY <1>1, <1>2, <1>6, <1>7

LEMMA WriteSettlementGrows ==
  ASSUME IInv, NEW w \in Worker, wstage[w] = "commit", WriteSettlement(w), UNCHANGED clock
  PROVE  /\ TablesGrow
         /\ payments' = [payments EXCEPT ![Subject(w)] = Settled(w)]
         /\ \A i \in DOMAIN outbox_work : outbox_work'[i] = outbox_work[i]
         /\ \A d \in DOMAIN webhook_deliveries :
              webhook_deliveries'[d] = webhook_deliveries[d]
<1> DEFINE id == Subject(w)
           st == Settled(w).status
<1>1. /\ id \in DOMAIN payments
      /\ payments[id].status = "PROCESSING"
      /\ Settled(w) \in PaymentRow
      /\ st \in TerminalStatus
      /\ Settled(w).created_at = payments[id].created_at
      /\ SettledInTime(Settled(w))
  BY SettledRow
<1>2. /\ payments \in Seq(PaymentRow)
      /\ outbox_work \in Seq(OutboxRow)
      /\ TInv /\ wtarget[w] \in Nat /\ wnow[w] \in Nat
  BY DEF IInv, TInv, TablesTypeOK, WorkerTypeOK
<1>3. payments' = [payments EXCEPT ![id] = Settled(w)]
  BY DEF WriteSettlement
<1>4. /\ payments' \in Seq(PaymentRow)
      /\ DOMAIN payments' = DOMAIN payments
      /\ \A i \in DOMAIN payments : payments'[i] = IF i = id THEN Settled(w) ELSE payments[i]
  BY <1>1, <1>2, <1>3, Replaced
<1>5. st # "PROCESSING" /\ st \in Status /\ id \in Nat
  BY <1>1, <1>2, LenProperties DEF TerminalStatus, Status
<1>6. PaymentsGrow
  BY <1>1, <1>4, <1>5 DEF PaymentsGrow
<1>7. \A e \in DOMAIN webhook_deliveries :
        webhook_deliveries[e].payment_id = id =>
          webhook_deliveries[e].event_type # EventTypeForStatus(st)
  <2>1. EventTypeForStatus(st) # "payment.processing"
    BY <1>1 DEF EventTypeForStatus, TerminalStatus
  <2> QED  BY <1>1, <1>2, <2>1 DEF TInv, DeliveriesRefer
<1>8. /\ webhook_deliveries' = DeliveriesWith(wtarget[w], id, st, wnow[w])
      /\ outbox_work' = outbox_work \o DeliverWork(wtarget[w], wnow[w])
      /\ UNCHANGED <<idempotency_keys, webhook_subscriptions>>
  BY DEF WriteSettlement
<1>9. id \in DOMAIN payments' /\ payments'[id].status # "PROCESSING"
  BY <1>1, <1>4, <1>5
<1> HIDE DEF id, st
<1>10. /\ DeliveriesGrow
       /\ webhook_deliveries' \in Seq(DeliveryRow)
       /\ wtarget[w] # NoSubscription =>
            Len(webhook_deliveries) + 1 \in DOMAIN webhook_deliveries'
  BY <1>2, <1>5, <1>7, <1>8, <1>9, AnnouncedDeliveries
<1>11. RowsGrow /\ outbox_work' \in Seq(OutboxRow)
  <2>1. /\ DeliverWork(wtarget[w], wnow[w]) \in Seq(OutboxRow)
        /\ \A k \in DOMAIN DeliverWork(wtarget[w], wnow[w]) :
             /\ wtarget[w] # NoSubscription
             /\ DeliverWork(wtarget[w], wnow[w])[k].kind = "DELIVER_WEBHOOK"
             /\ DeliverWork(wtarget[w], wnow[w])[k].subject_id = Len(webhook_deliveries) + 1
    BY <1>2, DeliverWorkRows
  <2> DEFINE more == DeliverWork(wtarget[w], wnow[w])
  <2>2. more \in Seq(OutboxRow) /\ outbox_work' = outbox_work \o more
    BY <1>8, <2>1
  <2> HIDE DEF more
  <2>3. /\ outbox_work' \in Seq(OutboxRow)
        /\ \A i \in DOMAIN outbox_work :
             i \in DOMAIN outbox_work' /\ outbox_work'[i] = outbox_work[i]
        /\ \A i \in DOMAIN outbox_work' \ DOMAIN outbox_work :
             \E k \in DOMAIN more : outbox_work'[i] = more[k]
    BY <1>2, <2>2, Concatenated
  <2>4. ASSUME NEW i \in DOMAIN outbox_work' \ DOMAIN outbox_work
        PROVE  /\ outbox_work'[i].kind # "SETTLE_PAYMENT"
               /\ outbox_work'[i].subject_id \in DOMAIN webhook_deliveries'
    BY <1>10, <2>1, <2>3 DEF more
  <2> QED  BY <2>3, <2>4 DEF RowsGrow
<1>14. TablesGrow
  BY <1>2, <1>4, <1>6, <1>8, <1>10, <1>11 DEF TablesGrow, TInv, TablesTypeOK
<1>12. \A i \in DOMAIN outbox_work : outbox_work'[i] = outbox_work[i]
  BY <1>2, <1>8, DeliverWorkRows, Concatenated
<1>13. \A d \in DOMAIN webhook_deliveries : webhook_deliveries'[d] = webhook_deliveries[d]
  BY <1>2, <1>5, <1>8, DeliveriesWithRows
<1> QED  BY <1>3, <1>14, <1>12, <1>13 DEF id


(* Writing over a delivery what does not touch which event it is of. *)
LEMMA DeliveryWritten ==
  ASSUME TInv, NEW d \in DOMAIN webhook_deliveries, NEW row \in DeliveryRow,
         row.payment_id = webhook_deliveries[d].payment_id,
         row.event_type = webhook_deliveries[d].event_type,
         row.subscription_id = webhook_deliveries[d].subscription_id,
         row.payload_status = webhook_deliveries[d].payload_status,
         webhook_deliveries' = [webhook_deliveries EXCEPT ![d] = row]
  PROVE  /\ DeliveriesGrow
         /\ webhook_deliveries' \in Seq(DeliveryRow)
         /\ DOMAIN webhook_deliveries' = DOMAIN webhook_deliveries
         /\ \A e \in DOMAIN webhook_deliveries :
              webhook_deliveries'[e] = IF e = d THEN row ELSE webhook_deliveries[e]
<1>1. webhook_deliveries \in Seq(DeliveryRow)
  BY DEF TInv, TablesTypeOK
<1>2. /\ webhook_deliveries' \in Seq(DeliveryRow)
      /\ DOMAIN webhook_deliveries' = DOMAIN webhook_deliveries
      /\ \A e \in DOMAIN webhook_deliveries :
           webhook_deliveries'[e] = IF e = d THEN row ELSE webhook_deliveries[e]
  BY <1>1, Replaced
<1> QED  BY <1>2 DEF DeliveriesGrow

LEMMA RecordAttemptGrows ==
  ASSUME IInv, NEW w \in Worker, RecordAttempt(w), UNCHANGED clock
  PROVE  /\ TablesGrow
         /\ Subject(w) \in DOMAIN webhook_deliveries
         /\ DOMAIN webhook_deliveries' = DOMAIN webhook_deliveries
         /\ \A e \in DOMAIN webhook_deliveries :
              e # Subject(w) => webhook_deliveries'[e] = webhook_deliveries[e]
         /\ webhook_deliveries'[Subject(w)].attempt_count =
              webhook_deliveries[Subject(w)].attempt_count + 1
         /\ webhook_deliveries'[Subject(w)].status = OutcomeOf(reply[w])
         /\ webhook_deliveries'[Subject(w)].last_http_status = reply[w]
         /\ webhook_deliveries'[Subject(w)].last_attempted_at = wnow[w]
<1> DEFINE d == Subject(w)
           row == Attempted(webhook_deliveries[d], reply[w], wnow[w])
<1>1. d \in DOMAIN webhook_deliveries
  BY InHandRefers DEF RecordAttempt, Delivering
<1>2. webhook_deliveries[d] \in DeliveryRow
  BY <1>1, ElementOfSeq, LenProperties DEF IInv, TInv, TablesTypeOK
<1>3. wnow[w] \in Nat /\ reply[w] \in Nat /\ OutcomeOf(reply[w]) \in DeliveryStatus
  BY DEF IInv, WorkerTypeOK, OutcomeOf, DeliveryStatus
<1>4. /\ row \in DeliveryRow
      /\ row.payment_id = webhook_deliveries[d].payment_id
      /\ row.event_type = webhook_deliveries[d].event_type
      /\ row.subscription_id = webhook_deliveries[d].subscription_id
      /\ row.payload_status = webhook_deliveries[d].payload_status
      /\ row.attempt_count = webhook_deliveries[d].attempt_count + 1
      /\ row.status = OutcomeOf(reply[w])
      /\ row.last_http_status = reply[w]
      /\ row.last_attempted_at = wnow[w]
  <2> DEFINE old == webhook_deliveries[d]
             st == OutcomeOf(reply[w])
  <2>1. old \in DeliveryRow /\ st \in DeliveryStatus /\ old.attempt_count + 1 \in Nat
    BY <1>2, <1>3 DEF DeliveryRow
  <2>2. row = [old EXCEPT !.status = st, !.attempt_count = old.attempt_count + 1,
                          !.attempted = TRUE, !.last_attempted_at = wnow[w],
                          !.last_http_status = reply[w]]
    BY DEF Attempted
  <2> HIDE DEF old, st, row
  <2>3. row \in DeliveryRow
    BY <1>3, <2>1, <2>2 DEF DeliveryRow
  <2>4. /\ row.payment_id = old.payment_id
        /\ row.event_type = old.event_type
        /\ row.subscription_id = old.subscription_id
        /\ row.payload_status = old.payload_status
        /\ row.attempt_count = old.attempt_count + 1
        /\ row.status = st
        /\ row.last_http_status = reply[w]
        /\ row.last_attempted_at = wnow[w]
    BY <2>1, <2>2 DEF DeliveryRow
  <2> QED  BY <2>3, <2>4 DEF old, st
<1>5. webhook_deliveries' = [webhook_deliveries EXCEPT ![d] = row]
  BY DEF RecordAttempt
<1>6. TInv
  BY DEF IInv
<1> HIDE DEF d, row
<1>7. /\ DeliveriesGrow
      /\ webhook_deliveries' \in Seq(DeliveryRow)
      /\ DOMAIN webhook_deliveries' = DOMAIN webhook_deliveries
      /\ \A e \in DOMAIN webhook_deliveries :
           webhook_deliveries'[e] = IF e = d THEN row ELSE webhook_deliveries[e]
  BY <1>1, <1>4, <1>5, <1>6, DeliveryWritten
<1>8. TablesGrow
  BY <1>6, <1>7 DEF RecordAttempt, TablesGrow, TInv, TablesTypeOK, PaymentsGrow, RowsGrow
<1> QED  BY <1>1, <1>4, <1>7, <1>8 DEF d

LEMMA WriteRetryGrows ==
  ASSUME IInv, NEW c \in RetryRequest, rstage[c] = "enqueue", WriteRetry(c), UNCHANGED clock
  PROVE  /\ TablesGrow
         /\ payments' = payments
         /\ \A i \in DOMAIN outbox_work : outbox_work'[i] = outbox_work[i]
         /\ OutcomesKept
<1> DEFINE d == rdelivery[c]
           row == [webhook_deliveries[d] EXCEPT !.status = "PENDING"]
<1>1. d \in DOMAIN webhook_deliveries
  BY DEF IInv, RetriesRefer
<1>2. webhook_deliveries[d] \in DeliveryRow
  BY <1>1, ElementOfSeq, LenProperties DEF IInv, TInv, TablesTypeOK
<1>3. /\ row \in DeliveryRow
      /\ row.payment_id = webhook_deliveries[d].payment_id
      /\ row.event_type = webhook_deliveries[d].event_type
      /\ row.subscription_id = webhook_deliveries[d].subscription_id
      /\ row.payload_status = webhook_deliveries[d].payload_status
      /\ row.attempted = webhook_deliveries[d].attempted
      /\ row.last_attempted_at = webhook_deliveries[d].last_attempted_at
      /\ row.last_http_status = webhook_deliveries[d].last_http_status
      /\ row.status = "PENDING"
  <2>1. "PENDING" \in DeliveryStatus
    BY DEF DeliveryStatus
  <2> QED  BY <1>2, <2>1 DEF DeliveryRow
<1>4. webhook_deliveries' = [webhook_deliveries EXCEPT ![d] = row]
  BY Zenon DEF WriteRetry
<1>5. PICK t \in Now : outbox_work' = Append(outbox_work, NewWork("DELIVER_WEBHOOK", d, t))
  BY DEF WriteRetry
<1>6. TInv /\ outbox_work \in Seq(OutboxRow) /\ d \in Nat
  BY <1>1, LenProperties DEF IInv, TInv, TablesTypeOK
<1>7. /\ NewWork("DELIVER_WEBHOOK", d, t) \in OutboxRow
      /\ NewWork("DELIVER_WEBHOOK", d, t).kind = "DELIVER_WEBHOOK"
      /\ NewWork("DELIVER_WEBHOOK", d, t).subject_id = d
  BY <1>5, <1>6, NowIsNat DEF NewWork, OutboxRow, OutboxKind
<1> HIDE DEF d, row
<1>8. /\ DeliveriesGrow
      /\ webhook_deliveries' \in Seq(DeliveryRow)
      /\ DOMAIN webhook_deliveries' = DOMAIN webhook_deliveries
      /\ \A e \in DOMAIN webhook_deliveries :
           webhook_deliveries'[e] = IF e = d THEN row ELSE webhook_deliveries[e]
  BY <1>1, <1>3, <1>4, <1>6, DeliveryWritten
<1>9. /\ outbox_work' \in Seq(OutboxRow)
      /\ \A i \in DOMAIN outbox_work :
           i \in DOMAIN outbox_work' /\ outbox_work'[i] = outbox_work[i]
      /\ DOMAIN outbox_work' \ DOMAIN outbox_work = {Len(outbox_work) + 1}
      /\ outbox_work'[Len(outbox_work) + 1] = NewWork("DELIVER_WEBHOOK", d, t)
  BY <1>5, <1>6, <1>7, Appended
<1>10. RowsGrow
  BY <1>1, <1>7, <1>8, <1>9 DEF RowsGrow
<1>11. UNCHANGED <<clock, idempotency_keys, payments, webhook_subscriptions>>
  BY DEF WriteRetry
<1>12. TablesGrow
  BY <1>6, <1>8, <1>9, <1>10, <1>11 DEF TablesGrow, TInv, TablesTypeOK, PaymentsGrow
<1>13. OutcomesKept
  BY <1>3, <1>8 DEF OutcomesKept
<1> QED  BY <1>9, <1>11, <1>12, <1>13


-----------------------------------------------------------------------------
(* Steps of others. *)

(* The history of POSTs keeps what it has; what it gets was due. *)
SendsGrow ==
  /\ \A n \in DOMAIN sends : n \in DOMAIN sends' /\ sends'[n] = sends[n]
  /\ \A n \in DOMAIN sends' \ DOMAIN sends :
       outbox_work'[sends'[n].row].due_at =< sends'[n].now

(* A step that is not worker v's. *)
Rests(v) ==
  /\ wstage'[v] = wstage[v] /\ wnow'[v] = wnow[v] /\ batch'[v] = batch[v]
  /\ item'[v] = item[v] /\ loaded'[v] = loaded[v] /\ reply'[v] = reply[v]

(* The rows worker v goes by are as they were. *)
Undisturbed(v) ==
  /\ \A i \in InHand(v) : outbox_work'[i] = outbox_work[i]
  /\ wstage[v] \in {"update", "commit"} => payments'[Subject(v)] = payments[Subject(v)]

LEMMA BystanderInStep ==
  ASSUME IInv, NEW v \in Worker, Rests(v), Undisturbed(v), SendsGrow
  PROVE  InStep(v)' /\ InHand(v)' = InHand(v)
<1>1. InHand(v)' = InHand(v)
  BY DEF Rests, InHand
<1>2. item[v] # NoRow => Subject(v)' = Subject(v)
                         /\ outbox_work'[item[v]] = outbox_work[item[v]]
  BY InHandRows DEF Rests, Undisturbed, Subject
<1>3. \A i \in batch[v] : i \in InHand(v)
  BY DEF InHand
<1>4. InStep(v)
  BY DEF IInv
<1>5. (wstage[v] = "idle" => batch[v] = {})'
  BY <1>4 DEF InStep, Rests
<1>6. (wstage[v] \in {"idle", "claiming", "next"} => item[v] = NoRow)'
  BY <1>4 DEF InStep, Rests
<1>7. (wstage[v] = "claiming" => \A i \in batch[v] : outbox_work[i].state = "PENDING")'
  BY <1>3, <1>4 DEF InStep, Rests, Undisturbed
<1>8. (wstage[v] # "claiming" => \A i \in InHand(v) : outbox_work[i].state = "DONE")'
  BY <1>1, <1>4 DEF InStep, Rests, Undisturbed
<1>9. (Settling(v) => item[v] # NoRow /\ outbox_work[item[v]].kind = "SETTLE_PAYMENT")'
  BY <1>2, <1>4 DEF InStep, Rests, Settling
<1>10. (Delivering(v) => item[v] # NoRow /\ outbox_work[item[v]].kind = "DELIVER_WEBHOOK")'
  BY <1>2, <1>4 DEF InStep, Rests, Delivering
<1>11. (wstage[v] \in {"update", "commit"} =>
          loaded[v] = payments[Subject(v)] /\ loaded[v].status = "PROCESSING")'
  <2>1. wstage[v] \in {"update", "commit"} => item[v] # NoRow
    BY <1>4 DEF InStep, Settling
  <2> QED  BY <1>2, <1>4, <2>1 DEF InStep, Rests, Undisturbed
<1>12. (wstage[v] = "record" =>
          \E n \in DOMAIN sends : sends[n] = Post(v, reply[v]))'
  <2>1. wstage[v] = "record" => item[v] # NoRow
    BY <1>4 DEF InStep, Delivering
  <2> QED  BY <1>2, <1>4, <2>1 DEF InStep, Rests, SendsGrow, Post
<1>13. (\A i \in InHand(v) : outbox_work[i].due_at =< wnow[v])'
  BY <1>1, <1>4 DEF InStep, Rests, Undisturbed
<1>14. InStep(v)'
  BY <1>5, <1>6, <1>7, <1>8, <1>9, <1>10, <1>11, <1>12, <1>13 DEF InStep
<1> QED  BY <1>1, <1>14

(* A sequence over a set is one over any larger set. *)
LEMMA WiderSeq ==
  ASSUME NEW S, NEW T, S \subseteq T, NEW s \in Seq(S)
  PROVE  s \in Seq(T)
<1>1. Len(s) \in Nat /\ s \in [1..Len(s) -> S]
  BY LenProperties
<1>2. s \in [1..Len(s) -> T]
  BY <1>1
<1> QED  BY <1>1, <1>2, SeqDef

(* The history of POSTs keeps its type when deliveries are added. *)
LEMMA SendsStayTyped ==
  ASSUME WorkerTypeOK, TablesGrow, UNCHANGED sends
  PROVE  (sends \in Seq(PostRecord))'
<1> DEFINE S == PostRecord
           T == [delivery : DOMAIN webhook_deliveries', reply : HttpReply,
                 row : DOMAIN outbox_work', now : Nat]
<1>1. S \subseteq T
  BY DEF TablesGrow, DeliveriesGrow, RowsGrow, PostRecord
<1>2. sends \in Seq(S)
  BY DEF WorkerTypeOK
<1> HIDE DEF S, T
<1>3. sends \in Seq(T)
  BY <1>1, <1>2, WiderSeq
<1> QED  BY <1>3 DEF HttpReply, PostRecord, T

(* When tables grow and no worker moves, its registers keep their type. *)
LEMMA RestingTyped ==
  ASSUME WorkerTypeOK, TablesGrow, UNCHANGED workerVars
  PROVE  WorkerTypeOK'
<1>1. DOMAIN outbox_work \subseteq DOMAIN outbox_work'
  BY DEF TablesGrow, RowsGrow
<1>2. (sends \in Seq(PostRecord))'
  BY SendsStayTyped DEF workerVars
<1>3. (batch \in [Worker -> SUBSET DOMAIN outbox_work])'
  BY <1>1 DEF WorkerTypeOK, workerVars
<1>4. (item \in [Worker -> {NoRow} \cup DOMAIN outbox_work])'
  BY <1>1 DEF WorkerTypeOK, workerVars
<1> QED
  BY <1>2, <1>3, <1>4 DEF WorkerTypeOK, workerVars

LEMMA KeptPosts ==
  ASSUME OutcomeIsOfAPost, DeliveriesGrow, SendsGrow, OutcomesKept
  PROVE  OutcomeIsOfAPost'
<1> SUFFICES ASSUME NEW d \in DOMAIN webhook_deliveries', webhook_deliveries'[d].attempted
             PROVE  \E n \in DOMAIN sends' :
                      /\ sends'[n].delivery = d
                      /\ sends'[n].reply = webhook_deliveries'[d].last_http_status
                      /\ sends'[n].now = webhook_deliveries'[d].last_attempted_at
                      /\ webhook_deliveries'[d].status = "SENT" =>
                           sends'[n].reply \div 100 = 2
                      /\ webhook_deliveries'[d].status = "FAILED" =>
                           sends'[n].reply \div 100 # 2
  BY DEF OutcomeIsOfAPost
<1>1. d \in DOMAIN webhook_deliveries
  BY DEF DeliveriesGrow
<1>2. webhook_deliveries[d].attempted
  BY <1>1 DEF OutcomesKept
<1>3. PICK n \in DOMAIN sends :
        /\ sends[n].delivery = d
        /\ sends[n].reply = webhook_deliveries[d].last_http_status
        /\ sends[n].now = webhook_deliveries[d].last_attempted_at
        /\ webhook_deliveries[d].status = "SENT" => sends[n].reply \div 100 = 2
        /\ webhook_deliveries[d].status = "FAILED" => sends[n].reply \div 100 # 2
  BY <1>1, <1>2 DEF OutcomeIsOfAPost
<1>4. n \in DOMAIN sends' /\ sends'[n] = sends[n]
  BY DEF SendsGrow
<1> QED  BY <1>1, <1>3, <1>4 DEF OutcomesKept

LEMMA PostTyped ==
  ASSUME WorkerTypeOK, NEW n \in DOMAIN sends
  PROVE  sends[n] \in PostRecord
<1>1. sends \in Seq(PostRecord)
  BY DEF WorkerTypeOK
<1> QED  BY <1>1, ElementOfSeq, LenProperties

LEMMA KeptTimes ==
  ASSUME SendsInTime, WorkerTypeOK, RowsGrow, SendsGrow
  PROVE  SendsInTime'
<1> SUFFICES ASSUME NEW n \in DOMAIN sends, n \in DOMAIN sends', sends'[n] = sends[n]
             PROVE  outbox_work'[sends[n].row].due_at =< sends[n].now
  BY DEF SendsInTime, SendsGrow
<1>1. sends[n].row \in DOMAIN outbox_work
  BY PostTyped DEF PostRecord
<1> QED  BY <1>1 DEF SendsInTime, RowsGrow

LEMMA KeptOutcomes ==
  ASSUME AttemptsTrue, WorkerTypeOK, TablesGrow, SendsGrow, OutcomesKept
  PROVE  AttemptsTrue'
  BY KeptPosts, KeptTimes DEF AttemptsTrue, TablesGrow

(* A retry request names a delivery, and deliveries are not deleted. *)
LEMMA RestingRetries ==
  ASSUME RetryTypeOK, RetriesRefer, DeliveriesGrow, UNCHANGED retryVars
  PROVE  RetryTypeOK' /\ RetriesRefer'
<1>1. DOMAIN webhook_deliveries \subseteq DOMAIN webhook_deliveries'
  BY DEF DeliveriesGrow
<1> QED  BY <1>1 DEF RetryTypeOK, RetriesRefer, retryVars

(* A step in which no worker moves. *)
LEMMA RestingWorkers ==
  ASSUME IInv, TablesGrow, UNCHANGED workerVars, OutcomesKept,
         \A i \in DOMAIN outbox_work : outbox_work'[i] = outbox_work[i],
         \A i \in DOMAIN payments : payments'[i] = payments[i]
  PROVE  /\ TInv' /\ WorkerTypeOK' /\ RowInOneHand' /\ AttemptsTrue'
         /\ (\A w \in Worker : InStep(w))'
<1>1. TInv' /\ WorkerTypeOK'
  BY GrowingKeepsTInv, RestingTyped DEF IInv
<1>2. SendsGrow
  BY DEF SendsGrow, workerVars
<1>3. ASSUME NEW v \in Worker
      PROVE  InStep(v)' /\ InHand(v)' = InHand(v)
  <2>1. Rests(v)
    BY DEF Rests, workerVars
  <2>2. Undisturbed(v)
    <3>1. wstage[v] \in {"update", "commit"} => Subject(v) \in DOMAIN payments
      BY InHandRefers DEF Settling
    <3> QED  BY <3>1, InHandRows DEF Undisturbed
  <2> QED  BY <1>2, <2>1, <2>2, BystanderInStep
<1>4. RowInOneHand'
  BY <1>3 DEF IInv, RowInOneHand
<1>5. AttemptsTrue'
  BY <1>2, KeptOutcomes DEF IInv, TablesGrow
<1> QED  BY <1>1, <1>3, <1>4, <1>5

(* The transaction of a create request, whatever it does to the keys. *)
LEMMA CreationKeepsIInv ==
  ASSUME IInv, NEW s \in Scope, NEW b \in Body, NEW t \in Nat, NEW sub \in Nat,
         InsertPayment(s, b, t, sub),
         UNCHANGED <<clock, webhook_subscriptions, workerVars, retryVars>>,
         idempotency_keys' \in [Scope -> IdempotencyRow]
  PROVE  IInv'
<1>1. TInv
  BY DEF IInv
<1>2. /\ TablesGrow
      /\ \A i \in DOMAIN payments : payments'[i] = payments[i]
      /\ \A i \in DOMAIN outbox_work : outbox_work'[i] = outbox_work[i]
      /\ \A d \in DOMAIN webhook_deliveries : webhook_deliveries'[d] = webhook_deliveries[d]
  BY <1>1, InsertPaymentGrows
<1>3. OutcomesKept
  BY <1>2 DEF OutcomesKept
<1>4. /\ TInv' /\ WorkerTypeOK' /\ RowInOneHand' /\ AttemptsTrue'
      /\ (\A w \in Worker : InStep(w))'
  BY <1>2, <1>3, RestingWorkers
<1>5. RetryTypeOK' /\ RetriesRefer'
  BY <1>2, RestingRetries DEF IInv, TablesGrow
<1> QED  BY <1>4, <1>5 DEF IInv

(* A step that leaves all this alone: the clock's, or a request's that     *)
(* writes nothing but keys.                                                *)
LEMMA ElsewhereKeepsIInv ==
  ASSUME IInv, clock' \in Nat, idempotency_keys' \in [Scope -> IdempotencyRow],
         UNCHANGED <<payments, webhook_subscriptions, webhook_deliveries, outbox_work>>,
         UNCHANGED <<workerVars, retryVars>>
  PROVE  IInv'
<1>1. TablesGrow
  BY DEF IInv, TInv, TablesGrow, TablesTypeOK, PaymentsGrow, DeliveriesGrow, RowsGrow
<1>2. OutcomesKept
  BY DEF OutcomesKept
<1>3. /\ TInv' /\ WorkerTypeOK' /\ RowInOneHand' /\ AttemptsTrue'
      /\ (\A w \in Worker : InStep(w))'
  BY <1>1, <1>2, RestingWorkers
<1>4. RetryTypeOK' /\ RetriesRefer'
  BY <1>1, RestingRetries DEF IInv, TablesGrow
<1> QED  BY <1>3, <1>4 DEF IInv

LEMMA SubscriptionKeepsIInv ==
  ASSUME IInv, SubscriptionNext, UNCHANGED <<clock, workerVars, retryVars>>
  PROVE  IInv'
<1>1. PICK a \in Account, events \in EventSets : Subscribe(a, events)
  BY DEF SubscriptionNext
<1>2. UNCHANGED <<clock, payments, webhook_deliveries, outbox_work, workerVars, retryVars>>
  BY <1>1 DEF Subscribe
<1>3. TInv
  BY DEF IInv
<1>4. TablesGrow
  BY <1>1, <1>2, <1>3, SubscribeGrows
<1>5. OutcomesKept
  BY <1>2 DEF OutcomesKept
<1>6. /\ TInv' /\ WorkerTypeOK' /\ RowInOneHand' /\ AttemptsTrue'
      /\ (\A w \in Worker : InStep(w))'
  BY <1>2, <1>4, <1>5, RestingWorkers
<1>7. RetryTypeOK' /\ RetriesRefer'
  BY <1>2, <1>4, RestingRetries DEF IInv, TablesGrow
<1> QED  BY <1>6, <1>7 DEF IInv

(* A retry request names a delivery it found, at each of its steps. *)
LEMMA RetryKeepsTypes ==
  ASSUME RetryTypeOK, RetriesRefer, DeliveriesGrow, NEW c \in RetryRequest,
         RetryLoad(c) \/ RetryCommit(c) \/ RetryFails(c)
  PROVE  RetryTypeOK' /\ RetriesRefer'
<1>1. DOMAIN webhook_deliveries \subseteq DOMAIN webhook_deliveries'
  BY DEF DeliveriesGrow
<1>2. CASE RetryLoad(c)
  <2>1. PICK d \in DOMAIN webhook_deliveries : rdelivery' = [rdelivery EXCEPT ![c] = d]
    BY <1>2 DEF RetryLoad
  <2>2. RetryTypeOK'
    BY <1>1, <1>2, <2>1 DEF RetryLoad, RetryTypeOK, RetryAnswer
  <2>3. \A x \in RetryRequest \ {c} : rstage'[x] = rstage[x] /\ rdelivery'[x] = rdelivery[x]
    BY <1>2, <2>1 DEF RetryLoad, RetryTypeOK, RetryAnswer
  <2>4. rdelivery'[c] \in DOMAIN webhook_deliveries
    BY <2>1 DEF RetryTypeOK
  <2> QED  BY <1>1, <2>2, <2>3, <2>4 DEF RetriesRefer
<1>3. CASE RetryCommit(c) \/ RetryFails(c)
  <2>1. rdelivery' = rdelivery /\ \E st \in {200, 500} : RetryAnswer(c, st)
    BY <1>3 DEF RetryCommit, RetryFails, WriteRetry
  <2>2. RetryTypeOK'
    BY <1>1, <2>1 DEF RetryTypeOK, RetryAnswer
  <2>3. RetriesRefer'
    BY <1>1, <2>1 DEF RetriesRefer, RetryTypeOK, RetryAnswer
  <2> QED  BY <2>2, <2>3
<1> QED  BY <1>2, <1>3

LEMMA RetryingKeepsIInv ==
  ASSUME IInv, RetryNext, UNCHANGED <<clock, workerVars>>
  PROVE  IInv'
<1>1. PICK c \in RetryRequest : RetryLoad(c) \/ RetryCommit(c) \/ RetryFails(c)
  BY DEF RetryNext
<1>2. UNCHANGED clock /\ UNCHANGED workerVars /\ TInv /\ clock' \in Nat
  BY DEF IInv, TInv, TablesTypeOK
<1>3. /\ TablesGrow /\ OutcomesKept
      /\ \A i \in DOMAIN outbox_work : outbox_work'[i] = outbox_work[i]
      /\ \A i \in DOMAIN payments : payments'[i] = payments[i]
  <2>1. CASE UNCHANGED tables
    <3>1. TablesGrow
      BY <1>2, <2>1, UntouchedGrow
    <3>2. OutcomesKept
      BY <2>1 DEF OutcomesKept, tables
    <3> QED  BY <2>1, <3>1, <3>2 DEF tables
  <2>2. CASE rstage[c] = "enqueue" /\ WriteRetry(c)
    <3>1. /\ TablesGrow /\ payments' = payments /\ OutcomesKept
          /\ \A i \in DOMAIN outbox_work : outbox_work'[i] = outbox_work[i]
      BY <1>2, <2>2, WriteRetryGrows
    <3> QED  BY <3>1
  <2> QED  BY <1>1, <2>1, <2>2 DEF RetryLoad, RetryCommit, RetryFails
<1>4. /\ TInv' /\ WorkerTypeOK' /\ RowInOneHand' /\ AttemptsTrue'
      /\ (\A w \in Worker : InStep(w))'
  BY <1>2, <1>3, RestingWorkers
<1>5. RetryTypeOK' /\ RetriesRefer'
  BY <1>1, <1>3, RetryKeepsTypes DEF IInv, TablesGrow
<1> QED  BY <1>4, <1>5 DEF IInv


-----------------------------------------------------------------------------
(* Steps of a worker. *)

OnlyMoves(w) == \A v \in Worker \ {w} : Rests(v)

LEMMA WorkerMoved ==
  ASSUME IInv, NEW w \in Worker, TablesGrow, WorkerTypeOK', OnlyMoves(w), SendsGrow,
         \A v \in Worker \ {w} : Undisturbed(v),
         InStep(w)',
         \A v \in Worker \ {w} : InHand(v) \cap InHand(w)' = {},
         AttemptsTrue',
         UNCHANGED retryVars
  PROVE  IInv'
<1>1. TInv'
  BY GrowingKeepsTInv DEF IInv
<1>2. ASSUME NEW v \in Worker \ {w}
      PROVE  InStep(v)' /\ InHand(v)' = InHand(v)
  BY <1>2, BystanderInStep DEF OnlyMoves
<1>3. (\A v \in Worker : InStep(v))'
  BY <1>2
<1>4. RowInOneHand'
  <2> SUFFICES ASSUME NEW u \in Worker, NEW v \in Worker, u # v
               PROVE  InHand(u)' \cap InHand(v)' = {}
    BY DEF RowInOneHand
  <2>1. CASE u # w /\ v # w
    BY <1>2, <2>1 DEF IInv, RowInOneHand
  <2>2. CASE u = w \/ v = w
    BY <1>2, <2>2
  <2> QED  BY <2>1, <2>2
<1>5. RetryTypeOK' /\ RetriesRefer'
  BY RestingRetries DEF IInv, TablesGrow
<1> QED  BY <1>1, <1>3, <1>4, <1>5 DEF IInv

(* What a worker has in hand afterwards it had before. *)
LEMMA HandsStayApart ==
  ASSUME IInv, NEW w \in Worker, InHand(w)' \subseteq InHand(w)
  PROVE  \A v \in Worker \ {w} : InHand(v) \cap InHand(w)' = {}
  BY DEF IInv, RowInOneHand

LEMMA ItemDoneMoves ==
  ASSUME IInv, NEW w \in Worker, TablesGrow, ItemDone(w), UNCHANGED sends
  PROVE  /\ WorkerTypeOK' /\ OnlyMoves(w) /\ SendsGrow
         /\ wstage'[w] = "next" /\ item'[w] = NoRow /\ batch'[w] = batch[w]
         /\ wnow'[w] = wnow[w]
         /\ InHand(w)' = batch[w] /\ InHand(w)' \subseteq InHand(w)
<1>1. WorkerTypeOK
  BY DEF IInv
<1>2. DOMAIN outbox_work \subseteq DOMAIN outbox_work'
  BY DEF TablesGrow, RowsGrow
<1>3. (sends \in Seq(PostRecord))'
  BY <1>1, SendsStayTyped
<1>4. WorkerTypeOK'
  BY <1>1, <1>2, <1>3
  DEF WorkerTypeOK, ItemDone, ClearItem, WGoTo, WorkerStage, NoSubscription
<1>5. OnlyMoves(w)
  BY <1>1 DEF WorkerTypeOK, ItemDone, ClearItem, WGoTo, OnlyMoves, Rests
<1>6. /\ wstage'[w] = "next" /\ item'[w] = NoRow /\ batch'[w] = batch[w]
      /\ wnow'[w] = wnow[w]
  BY <1>1 DEF WorkerTypeOK, ItemDone, ClearItem, WGoTo
<1> QED  BY <1>4, <1>5, <1>6 DEF SendsGrow, InHand

LEMMA EndBatchMoves ==
  ASSUME IInv, NEW w \in Worker, TablesGrow, EndBatch(w), UNCHANGED sends
  PROVE  /\ WorkerTypeOK' /\ OnlyMoves(w) /\ SendsGrow
         /\ InStep(w)' /\ InHand(w)' \subseteq InHand(w)
<1>1. WorkerTypeOK
  BY DEF IInv
<1>2. DOMAIN outbox_work \subseteq DOMAIN outbox_work'
  BY DEF TablesGrow, RowsGrow
<1>3. (sends \in Seq(PostRecord))'
  BY <1>1, SendsStayTyped
<1>4. WorkerTypeOK'
  BY <1>1, <1>2, <1>3
  DEF WorkerTypeOK, EndBatch, ClearItem, WGoTo, WorkerStage, NoSubscription
<1>5. OnlyMoves(w)
  BY <1>1 DEF WorkerTypeOK, EndBatch, ClearItem, WGoTo, OnlyMoves, Rests
<1>6. wstage'[w] = "idle" /\ item'[w] = NoRow /\ batch'[w] = {}
  BY <1>1 DEF WorkerTypeOK, EndBatch, ClearItem, WGoTo
<1>7. InHand(w)' = {}
  BY <1>6 DEF InHand
<1>8. InStep(w)'
  BY <1>6, <1>7 DEF InStep, Settling, Delivering
<1> QED  BY <1>4, <1>5, <1>7, <1>8 DEF SendsGrow

(* A worker between two items, its rows as they were. *)
LEMMA NextInStep ==
  ASSUME IInv, NEW w \in Worker, wstage[w] # "claiming",
         wstage'[w] = "next", item'[w] = NoRow, batch'[w] = batch[w], wnow'[w] = wnow[w],
         \A i \in batch[w] : outbox_work'[i] = outbox_work[i]
  PROVE  InStep(w)'
<1>1. InHand(w)' = batch[w] /\ batch[w] \subseteq InHand(w)
  BY DEF InHand
<1>2. \A i \in InHand(w)' :
        outbox_work'[i].state = "DONE" /\ outbox_work'[i].due_at =< wnow'[w]
  BY <1>1 DEF IInv, InStep
<1> QED  BY <1>2 DEF InStep, Settling, Delivering


LEMMA TablesUntouched ==
  ASSUME IInv, UNCHANGED tables, UNCHANGED clock
  PROVE  /\ TablesGrow /\ OutcomesKept
         /\ \A v \in Worker : Undisturbed(v)
<1>1. TInv /\ clock' \in Nat
  BY DEF IInv, TInv, TablesTypeOK
<1>2. TablesGrow
  BY <1>1, UntouchedGrow
<1>3. UNCHANGED <<outbox_work, payments, webhook_deliveries>>
  BY DEF tables
<1> QED  BY <1>2, <1>3 DEF OutcomesKept, Undisturbed

LEMMA ClaimDueKeepsIInv ==
  ASSUME IInv, NEW w \in Worker, ClaimDue(w), UNCHANGED <<clock, retryVars>>
  PROVE  IInv'
<1>0. PICK t \in Now :
        \E B \in SUBSET Claimable(t) :
          wnow' = [wnow EXCEPT ![w] = t] /\ batch' = [batch EXCEPT ![w] = B]
  BY DEF ClaimDue, Batches
<1>1. PICK S \in SUBSET Claimable(t) :
        wnow' = [wnow EXCEPT ![w] = t] /\ batch' = [batch EXCEPT ![w] = S]
  BY <1>0
<1>2. t \in Nat /\ WorkerTypeOK
  BY NowIsNat DEF IInv
<1>3. \A i \in S : /\ i \in DOMAIN outbox_work /\ outbox_work[i].state = "PENDING"
                 /\ outbox_work[i].due_at =< t /\ ~RowLocked(i)
  BY DEF Claimable
<1>4. /\ UNCHANGED tables /\ UNCHANGED <<item, loaded, wtarget, reply, sends>>
      /\ wstage[w] = "idle" /\ wstage' = [wstage EXCEPT ![w] = "claiming"]
  BY DEF ClaimDue, WGoTo
<1>5. TablesGrow /\ OutcomesKept /\ \A v \in Worker : Undisturbed(v)
  BY <1>4, TablesUntouched
<1>6. WorkerTypeOK'
  BY <1>1, <1>2, <1>3, <1>4 DEF WorkerTypeOK, WorkerStage, tables, PostRecord
<1>7. OnlyMoves(w) /\ SendsGrow
  BY <1>1, <1>2, <1>4 DEF WorkerTypeOK, OnlyMoves, Rests, SendsGrow
<1>8. wstage'[w] = "claiming" /\ batch'[w] = S /\ item'[w] = NoRow /\ wnow'[w] = t
  BY <1>1, <1>2, <1>4 DEF WorkerTypeOK, IInv, InStep
<1>9. InHand(w)' = S
  BY <1>8 DEF InHand
<1>10. InStep(w)'
  BY <1>3, <1>4, <1>8, <1>9 DEF InStep, Settling, Delivering, tables
<1>11. ASSUME NEW v \in Worker \ {w}
       PROVE  InHand(v) \cap S = {}
  <2> SUFFICES ASSUME NEW i \in InHand(v), i \in S
               PROVE  FALSE
    OBVIOUS
  <2>1. CASE wstage[v] = "claiming"
    <3>1. i \in batch[v]
      BY <2>1 DEF IInv, InStep, InHand
    <3> QED  BY <1>3, <2>1, <3>1 DEF RowLocked
  <2>2. CASE wstage[v] # "claiming"
    BY <1>3, <2>2 DEF IInv, InStep
  <2> QED  BY <2>1, <2>2
<1>12. AttemptsTrue'
  BY <1>5, <1>7, KeptOutcomes DEF IInv, TablesGrow
<1> QED
  BY <1>5, <1>6, <1>7, <1>9, <1>10, <1>11, <1>12, WorkerMoved

(* Marking a claimed batch DONE disturbs no other worker. *)
LEMMA MarkDoneUndisturbed ==
  ASSUME IInv, NEW w \in Worker, wstage[w] = "claiming", MarkDone(batch[w]),
         UNCHANGED <<clock, idempotency_keys, payments, webhook_subscriptions,
                     webhook_deliveries>>
  PROVE  /\ TablesGrow /\ OutcomesKept
         /\ \A v \in Worker \ {w} : Undisturbed(v)
         /\ \A i \in batch[w] :
              outbox_work'[i].state = "DONE" /\ outbox_work'[i].due_at = outbox_work[i].due_at
<1>1. TInv
  BY DEF IInv
<1>2. TablesGrow
  BY <1>1, MarkDoneGrows
<1>3. \A i \in DOMAIN outbox_work :
        /\ outbox_work'[i].state = IF i \in batch[w] THEN "DONE" ELSE outbox_work[i].state
        /\ outbox_work'[i].due_at = outbox_work[i].due_at
  BY <1>1, MarkDoneRows
<1>4. \A i \in DOMAIN outbox_work : i \notin batch[w] => outbox_work'[i] = outbox_work[i]
  BY DEF MarkDone
<1>5. batch[w] \subseteq InHand(w) /\ batch[w] \subseteq DOMAIN outbox_work
  BY InHandRows DEF InHand
<1>6. ASSUME NEW v \in Worker \ {w}
      PROVE  Undisturbed(v)
  <2>1. InHand(v) \subseteq DOMAIN outbox_work /\ InHand(v) \cap batch[w] = {}
    BY <1>5, InHandRows DEF IInv, RowInOneHand
  <2> QED  BY <1>4, <2>1 DEF Undisturbed
<1>7. OutcomesKept
  BY DEF OutcomesKept
<1> QED  BY <1>2, <1>3, <1>5, <1>6, <1>7

LEMMA ClaimCommitsKeepsIInv ==
  ASSUME IInv, NEW w \in Worker, ClaimCommits(w), UNCHANGED <<clock, retryVars>>
  PROVE  IInv'
<1>1. /\ wstage[w] = "claiming" /\ MarkDone(batch[w])
      /\ wstage' = [wstage EXCEPT ![w] = "next"]
      /\ UNCHANGED <<clock, idempotency_keys, payments, webhook_subscriptions,
                     webhook_deliveries>>
      /\ UNCHANGED <<wnow, batch, item, loaded, wtarget, reply, sends>>
  BY DEF ClaimCommits, WGoTo, workerRegisters
<1>2. /\ TablesGrow /\ OutcomesKept
      /\ \A v \in Worker \ {w} : Undisturbed(v)
      /\ \A i \in batch[w] :
           outbox_work'[i].state = "DONE" /\ outbox_work'[i].due_at = outbox_work[i].due_at
  BY <1>1, MarkDoneUndisturbed
<1>3. WorkerTypeOK /\ DOMAIN outbox_work \subseteq DOMAIN outbox_work'
  BY <1>2 DEF IInv, TablesGrow, RowsGrow
<1>10. (sends \in Seq(PostRecord))'
  BY <1>1, <1>2, <1>3, SendsStayTyped
<1>4. WorkerTypeOK'
  BY <1>1, <1>3, <1>10 DEF WorkerTypeOK, WorkerStage
<1>5. OnlyMoves(w) /\ SendsGrow
  BY <1>1, <1>3 DEF WorkerTypeOK, OnlyMoves, Rests, SendsGrow
<1>6. /\ wstage'[w] = "next" /\ batch'[w] = batch[w] /\ item'[w] = NoRow
      /\ wnow'[w] = wnow[w]
  BY <1>1, <1>3 DEF WorkerTypeOK, IInv, InStep
<1>7. InHand(w)' = batch[w] /\ InHand(w)' \subseteq InHand(w)
  BY <1>6 DEF InHand
<1>8. InStep(w)'
  <2>1. \A i \in InHand(w)' : outbox_work[i].due_at =< wnow[w]
    BY <1>7 DEF IInv, InStep
  <2> QED  BY <1>2, <1>6, <1>7, <2>1 DEF InStep, Settling, Delivering
<1>9. AttemptsTrue'
  BY <1>2, <1>5, KeptOutcomes DEF IInv, TablesGrow
<1> QED
  BY <1>2, <1>4, <1>5, <1>7, <1>8, <1>9, HandsStayApart, WorkerMoved


LEMMA NextItemKeepsIInv ==
  ASSUME IInv, NEW w \in Worker, NextItem(w), UNCHANGED <<clock, retryVars>>
  PROVE  IInv'
<1> DEFINE stage(i) == IF outbox_work[i].kind = "SETTLE_PAYMENT" THEN "settle" ELSE "deliver"
<1>1. PICK i \in batch[w] :
        /\ item' = [item EXCEPT ![w] = i]
        /\ batch' = [batch EXCEPT ![w] = batch[w] \ {i}]
        /\ wstage' = [wstage EXCEPT ![w] = stage(i)]
  BY DEF NextItem, WGoTo
<1>2. /\ wstage[w] = "next" /\ UNCHANGED tables
      /\ UNCHANGED <<wnow, loaded, wtarget, reply, sends>>
  BY DEF NextItem
<1>3. WorkerTypeOK /\ i \in DOMAIN outbox_work /\ outbox_work[i].kind \in OutboxKind
  <2>1. WorkerTypeOK /\ i \in DOMAIN outbox_work
    BY DEF IInv, WorkerTypeOK
  <2>2. outbox_work[i] \in OutboxRow
    BY <2>1, ElementOfSeq, LenProperties DEF IInv, TInv, TablesTypeOK
  <2> QED  BY <2>1, <2>2 DEF OutboxRow
<1>4. TablesGrow /\ OutcomesKept /\ \A v \in Worker : Undisturbed(v)
  BY <1>2, TablesUntouched
<1>5. stage(i) \in WorkerStage
  BY DEF WorkerStage
<1>6. WorkerTypeOK'
  BY <1>1, <1>2, <1>3, <1>5 DEF WorkerTypeOK, tables, PostRecord
<1>7. OnlyMoves(w) /\ SendsGrow
  BY <1>1, <1>2, <1>3 DEF WorkerTypeOK, OnlyMoves, Rests, SendsGrow
<1>8. wstage'[w] = stage(i) /\ batch'[w] = batch[w] \ {i} /\ item'[w] = i
  BY <1>1, <1>3 DEF WorkerTypeOK
<1>9. i # NoRow
  BY <1>3, LenProperties DEF NoRow, IInv, TInv, TablesTypeOK
<1>10. InHand(w)' = batch[w] /\ InHand(w)' \subseteq InHand(w)
  BY <1>8, <1>9 DEF InHand
<1>11. \A j \in InHand(w)' :
         outbox_work'[j].state = "DONE" /\ outbox_work'[j].due_at =< wnow'[w]
  BY <1>2, <1>10 DEF IInv, InStep, tables
<1>12. outbox_work'[i] = outbox_work[i] /\ item'[w] # NoRow
  BY <1>2, <1>8, <1>9 DEF tables
<1>13. Settling(w)' => outbox_work'[item'[w]].kind = "SETTLE_PAYMENT"
  BY <1>8, <1>12 DEF Settling
<1>14. Delivering(w)' => outbox_work'[item'[w]].kind = "DELIVER_WEBHOOK"
  BY <1>3, <1>8, <1>12 DEF Delivering, OutboxKind
<1>15. InStep(w)'
  BY <1>8, <1>11, <1>12, <1>13, <1>14 DEF InStep
<1>16. AttemptsTrue'
  BY <1>4, <1>7, KeptOutcomes DEF IInv, TablesGrow
<1> QED
  BY <1>2, <1>4, <1>6, <1>7, <1>10, <1>15, <1>16, HandsStayApart, WorkerMoved

(* The batch ends and the tables stay. *)
LEMMA EndBatchKeepsIInv ==
  ASSUME IInv, NEW w \in Worker, EndBatch(w), UNCHANGED tables, UNCHANGED <<sends, clock, retryVars>>
  PROVE  IInv'
<1>1. TablesGrow /\ OutcomesKept /\ \A v \in Worker : Undisturbed(v)
  BY TablesUntouched
<1>2. /\ WorkerTypeOK' /\ OnlyMoves(w) /\ SendsGrow
      /\ InStep(w)' /\ InHand(w)' \subseteq InHand(w)
  BY <1>1, EndBatchMoves
<1>3. AttemptsTrue'
  BY <1>1, <1>2, KeptOutcomes DEF IInv, TablesGrow
<1> QED  BY <1>1, <1>2, <1>3, HandsStayApart, WorkerMoved

LEMMA SettleLoadKeepsIInv ==
  ASSUME IInv, NEW w \in Worker, SettleLoad(w), UNCHANGED <<clock, retryVars>>
  PROVE  IInv'
<1>1. wstage[w] = "settle" /\ UNCHANGED tables /\ UNCHANGED sends /\ WorkerTypeOK
  BY DEF SettleLoad, IInv
<1>2. TablesGrow /\ OutcomesKept /\ \A v \in Worker : Undisturbed(v)
  BY <1>1, TablesUntouched
<1>3. CASE ItemDone(w)
  <2>1. /\ WorkerTypeOK' /\ OnlyMoves(w) /\ SendsGrow
        /\ wstage'[w] = "next" /\ item'[w] = NoRow /\ batch'[w] = batch[w]
        /\ wnow'[w] = wnow[w]
        /\ InHand(w)' \subseteq InHand(w)
    BY <1>1, <1>2, <1>3, ItemDoneMoves
  <2>2. InStep(w)'
    BY <1>1, <2>1, NextInStep DEF tables
  <2>3. AttemptsTrue'
    BY <1>2, <2>1, KeptOutcomes DEF IInv, TablesGrow
  <2> QED  BY <1>2, <2>1, <2>2, <2>3, HandsStayApart, WorkerMoved
<1>4. CASE payments[Subject(w)].status = "PROCESSING"
  <2> DEFINE p == payments[Subject(w)]
  <2>1. /\ loaded' = [loaded EXCEPT ![w] = p]
        /\ wstage' = [wstage EXCEPT ![w] = "update"]
        /\ UNCHANGED <<wnow, batch, item, wtarget, reply>>
    BY <1>4 DEF SettleLoad, WGoTo
  <2>2. Subject(w) \in DOMAIN payments /\ item[w] \in DOMAIN outbox_work /\ item[w] # NoRow
    BY <1>1, InHandRefers DEF Settling, IInv, InStep
  <2>3. p \in PaymentRow
    BY <2>2, ElementOfSeq, LenProperties DEF IInv, TInv, TablesTypeOK
  <2>4. WorkerTypeOK'
    BY <1>1, <2>1, <2>3 DEF WorkerTypeOK, WorkerStage, tables, PostRecord
  <2>5. OnlyMoves(w) /\ SendsGrow
    BY <1>1, <2>1 DEF WorkerTypeOK, OnlyMoves, Rests, SendsGrow
  <2>6. /\ wstage'[w] = "update" /\ loaded'[w] = p /\ wnow'[w] = wnow[w]
        /\ item'[w] = item[w] /\ batch'[w] = batch[w]
    BY <1>1, <2>1 DEF WorkerTypeOK
  <2>7. InHand(w)' = InHand(w) /\ Subject(w)' = Subject(w)
    BY <1>1, <2>6 DEF InHand, Subject, tables
  <2>8. InStep(w)'
    <3>1. outbox_work'[item'[w]].kind = "SETTLE_PAYMENT"
      BY <1>1, <2>6 DEF IInv, InStep, Settling, tables
    <3>2. \A i \in InHand(w)' :
            outbox_work'[i].state = "DONE" /\ outbox_work'[i].due_at =< wnow'[w]
      BY <1>1, <2>6, <2>7 DEF IInv, InStep, tables
    <3>3. loaded'[w] = payments'[Subject(w)'] /\ loaded'[w].status = "PROCESSING"
      BY <1>1, <1>4, <2>6, <2>7 DEF tables
    <3> QED  BY <2>2, <2>6, <3>1, <3>2, <3>3 DEF InStep, Settling, Delivering
  <2>9. AttemptsTrue'
    BY <1>2, <2>5, KeptOutcomes DEF IInv, TablesGrow
  <2> QED  BY <1>2, <2>4, <2>5, <2>7, <2>8, <2>9, HandsStayApart, WorkerMoved
<1> QED  BY <1>3, <1>4 DEF SettleLoad

LEMMA SettleUpdateKeepsIInv ==
  ASSUME IInv, NEW w \in Worker, SettleUpdate(w), UNCHANGED <<clock, retryVars>>
  PROVE  IInv'
<1>1. PICK sub \in SubscriptionToNotify(loaded[w].account, Settled(w).status) :
        wtarget' = [wtarget EXCEPT ![w] = sub]
  BY DEF SettleUpdate
<1>2. /\ wstage[w] = "update" /\ wstage' = [wstage EXCEPT ![w] = "commit"]
      /\ UNCHANGED tables /\ UNCHANGED <<wnow, batch, item, loaded, reply, sends>>
      /\ WorkerTypeOK
  BY DEF SettleUpdate, WGoTo, IInv
<1>3. TablesGrow /\ OutcomesKept /\ \A v \in Worker : Undisturbed(v)
  BY <1>2, TablesUntouched
<1>4. sub \in Nat
  <2>1. loaded[w] = payments[Subject(w)] /\ Subject(w) \in DOMAIN payments
    BY <1>2, SettledRow DEF IInv, InStep
  <2>2. loaded[w] \in PaymentRow
    BY <2>1, ElementOfSeq, LenProperties DEF IInv, TInv, TablesTypeOK
  <2>3. loaded[w].account \in Account
    BY <2>2 DEF PaymentRow
  <2> QED  BY <2>3, SubscriptionTyped DEF IInv, TInv
<1>5. WorkerTypeOK'
  BY <1>1, <1>2, <1>4 DEF WorkerTypeOK, WorkerStage, tables, PostRecord
<1>6. OnlyMoves(w) /\ SendsGrow
  BY <1>1, <1>2 DEF WorkerTypeOK, OnlyMoves, Rests, SendsGrow
<1>7. /\ wstage'[w] = "commit" /\ loaded'[w] = loaded[w] /\ wnow'[w] = wnow[w]
      /\ item'[w] = item[w] /\ batch'[w] = batch[w]
  BY <1>2 DEF WorkerTypeOK
<1>8. InHand(w)' = InHand(w) /\ Subject(w)' = Subject(w)
  BY <1>2, <1>7 DEF InHand, Subject, tables
<1>9. InStep(w)'
  <2>1. InStep(w)
    BY DEF IInv
  <2>2. item'[w] # NoRow /\ outbox_work'[item'[w]].kind = "SETTLE_PAYMENT"
    BY <1>2, <1>7, <2>1 DEF InStep, Settling, tables
  <2>3. \A i \in InHand(w)' :
          outbox_work'[i].state = "DONE" /\ outbox_work'[i].due_at =< wnow'[w]
    BY <1>2, <1>7, <1>8, <2>1 DEF InStep, tables
  <2>4. loaded'[w] = payments'[Subject(w)'] /\ loaded'[w].status = "PROCESSING"
    BY <1>2, <1>7, <1>8, <2>1 DEF InStep, tables
  <2> QED  BY <1>7, <2>2, <2>3, <2>4 DEF InStep, Settling, Delivering
<1>10. AttemptsTrue'
  BY <1>3, <1>6, KeptOutcomes DEF IInv, TablesGrow
<1> QED  BY <1>3, <1>5, <1>6, <1>8, <1>9, <1>10, HandsStayApart, WorkerMoved, <1>2


(* Another worker about to settle has another payment. *)
LEMMA OthersSettleOthers ==
  ASSUME IInv, NEW w \in Worker, NEW v \in Worker, v # w, Settling(w), Settling(v)
  PROVE  Subject(v) # Subject(w)
<1>1. /\ item[w] \in DOMAIN outbox_work /\ item[w] # NoRow
      /\ outbox_work[item[w]].kind = "SETTLE_PAYMENT"
      /\ item[v] \in DOMAIN outbox_work /\ item[v] # NoRow
      /\ outbox_work[item[v]].kind = "SETTLE_PAYMENT"
  BY InHandRefers DEF IInv, InStep
<1>2. item[v] # item[w]
  BY <1>1, InHandRows DEF IInv, RowInOneHand
<1> QED  BY <1>1, <1>2 DEF IInv, TInv, OneSettlementRow, Subject

LEMMA WriteSettlementUndisturbed ==
  ASSUME IInv, NEW w \in Worker, wstage[w] = "commit", WriteSettlement(w), UNCHANGED clock
  PROVE  /\ TablesGrow /\ OutcomesKept
         /\ \A v \in Worker \ {w} : Undisturbed(v)
         /\ \A i \in batch[w] : outbox_work'[i] = outbox_work[i]
<1>1. /\ TablesGrow
      /\ payments' = [payments EXCEPT ![Subject(w)] = Settled(w)]
      /\ \A i \in DOMAIN outbox_work : outbox_work'[i] = outbox_work[i]
      /\ \A d \in DOMAIN webhook_deliveries : webhook_deliveries'[d] = webhook_deliveries[d]
  BY WriteSettlementGrows
<1>2. OutcomesKept
  BY <1>1 DEF OutcomesKept
<1>3. ASSUME NEW v \in Worker \ {w}
      PROVE  Undisturbed(v)
  <2>1. ASSUME wstage[v] \in {"update", "commit"}
        PROVE  payments'[Subject(v)] = payments[Subject(v)]
    <3>1. Settling(v) /\ Settling(w)
      BY <2>1 DEF Settling
    <3>2. Subject(v) # Subject(w) /\ Subject(v) \in DOMAIN payments
      BY <3>1, OthersSettleOthers, InHandRefers
    <3> QED  BY <1>1, <3>2
  <2>2. \A i \in InHand(v) : outbox_work'[i] = outbox_work[i]
    BY <1>1, InHandRows
  <2> QED  BY <2>1, <2>2 DEF Undisturbed
<1>4. \A i \in batch[w] : outbox_work'[i] = outbox_work[i]
  BY <1>1, InHandRows DEF InHand
<1> QED  BY <1>1, <1>2, <1>3, <1>4

LEMMA SettleCommitKeepsIInv ==
  ASSUME IInv, NEW w \in Worker, SettleCommit(w), UNCHANGED <<clock, retryVars>>
  PROVE  IInv'
<1>1. wstage[w] = "commit" /\ WriteSettlement(w) /\ ItemDone(w) /\ UNCHANGED sends
  BY DEF SettleCommit
<1>2. /\ TablesGrow /\ OutcomesKept
      /\ \A v \in Worker \ {w} : Undisturbed(v)
      /\ \A i \in batch[w] : outbox_work'[i] = outbox_work[i]
  BY <1>1, WriteSettlementUndisturbed
<1>3. /\ WorkerTypeOK' /\ OnlyMoves(w) /\ SendsGrow
      /\ wstage'[w] = "next" /\ item'[w] = NoRow /\ batch'[w] = batch[w]
      /\ wnow'[w] = wnow[w]
      /\ InHand(w)' \subseteq InHand(w)
  BY <1>1, <1>2, ItemDoneMoves
<1>4. InStep(w)'
  BY <1>1, <1>2, <1>3, NextInStep
<1>5. AttemptsTrue'
  BY <1>2, <1>3, KeptOutcomes DEF IInv, TablesGrow
<1> QED  BY <1>2, <1>3, <1>4, <1>5, HandsStayApart, WorkerMoved

LEMMA DeliverLoadKeepsIInv ==
  ASSUME IInv, NEW w \in Worker, DeliverLoad(w), UNCHANGED <<clock, retryVars>>
  PROVE  IInv'
<1>1. /\ wstage[w] = "deliver" /\ wstage' = [wstage EXCEPT ![w] = "send"]
      /\ UNCHANGED tables /\ UNCHANGED <<wnow, batch, item, loaded, wtarget, reply, sends>>
      /\ WorkerTypeOK
  BY DEF DeliverLoad, WGoTo, IInv, workerRegisters
<1>2. TablesGrow /\ OutcomesKept /\ \A v \in Worker : Undisturbed(v)
  BY <1>1, TablesUntouched
<1>3. WorkerTypeOK'
  BY <1>1 DEF WorkerTypeOK, WorkerStage, tables, PostRecord
<1>4. OnlyMoves(w) /\ SendsGrow
  BY <1>1 DEF WorkerTypeOK, OnlyMoves, Rests, SendsGrow
<1>5. /\ wstage'[w] = "send" /\ wnow'[w] = wnow[w]
      /\ item'[w] = item[w] /\ batch'[w] = batch[w]
  BY <1>1 DEF WorkerTypeOK
<1>6. InHand(w)' = InHand(w)
  BY <1>5 DEF InHand
<1>7. InStep(w)'
  <2>1. InStep(w)
    BY DEF IInv
  <2>2. item'[w] # NoRow /\ outbox_work'[item'[w]].kind = "DELIVER_WEBHOOK"
    BY <1>1, <1>5, <2>1 DEF InStep, Delivering, tables
  <2>3. \A i \in InHand(w)' :
          outbox_work'[i].state = "DONE" /\ outbox_work'[i].due_at =< wnow'[w]
    BY <1>1, <1>5, <1>6, <2>1 DEF InStep, tables
  <2> QED  BY <1>5, <2>2, <2>3 DEF InStep, Settling, Delivering
<1>8. AttemptsTrue'
  BY <1>2, <1>4, KeptOutcomes DEF IInv, TablesGrow
<1> QED  BY <1>2, <1>3, <1>4, <1>6, <1>7, <1>8, HandsStayApart, WorkerMoved

LEMMA SendKeepsIInv ==
  ASSUME IInv, NEW w \in Worker, Send(w), UNCHANGED <<clock, retryVars>>
  PROVE  IInv'
<1>1. PICK h \in HttpReply :
        /\ reply' = [reply EXCEPT ![w] = h]
        /\ sends' = Append(sends, Post(w, h))
  BY DEF Send
<1>2. /\ wstage[w] = "send" /\ wstage' = [wstage EXCEPT ![w] = "record"]
      /\ UNCHANGED tables /\ UNCHANGED <<wnow, batch, item, loaded, wtarget>>
      /\ WorkerTypeOK
  BY DEF Send, WGoTo, IInv
<1>3. TablesGrow /\ OutcomesKept /\ \A v \in Worker : Undisturbed(v)
  BY <1>2, TablesUntouched
<1> DEFINE post == Post(w, h)
           S == PostRecord
<1>4. post \in S /\ h \in Nat
  <2>1. Subject(w) \in DOMAIN webhook_deliveries /\ item[w] \in DOMAIN outbox_work
    BY <1>2, InHandRefers DEF Delivering
  <2>2. wnow[w] \in Nat
    BY <1>2 DEF WorkerTypeOK
  <2> QED  BY <2>1, <2>2 DEF HttpReply, Post, PostRecord
<1>5. sends \in Seq(S) /\ sends' = Append(sends, post)
  BY <1>1, <1>2 DEF WorkerTypeOK
<1>6. (sends \in Seq(PostRecord))'
      <=> sends' \in Seq(S)
  BY <1>2 DEF tables, HttpReply, PostRecord
<1> HIDE DEF post, S
<1>7. /\ sends' \in Seq(S)
      /\ \A n \in DOMAIN sends : n \in DOMAIN sends' /\ sends'[n] = sends[n]
      /\ DOMAIN sends' \ DOMAIN sends = {Len(sends) + 1}
      /\ sends'[Len(sends) + 1] = post
  BY <1>4, <1>5, Appended
<1>8. WorkerTypeOK'
  BY <1>1, <1>2, <1>4, <1>6, <1>7 DEF WorkerTypeOK, WorkerStage, tables, PostRecord
<1>9. OnlyMoves(w) /\ SendsGrow
  <2>1. item[w] \in InHand(w)
    BY <1>2, InHandRows DEF Delivering, IInv, InStep
  <2>2. outbox_work'[post.row].due_at =< post.now
    BY <1>2, <2>1 DEF IInv, InStep, tables, post, Post
  <2> QED  BY <1>1, <1>2, <1>7, <2>2 DEF WorkerTypeOK, OnlyMoves, Rests, SendsGrow
<1>10. /\ wstage'[w] = "record" /\ item'[w] = item[w] /\ batch'[w] = batch[w]
       /\ reply'[w] = h /\ wnow'[w] = wnow[w]
  BY <1>1, <1>2 DEF WorkerTypeOK
<1>11. InHand(w)' = InHand(w) /\ Subject(w)' = Subject(w)
  BY <1>2, <1>10 DEF InHand, Subject, tables
<1>12. InStep(w)'
  <2>1. InStep(w)
    BY DEF IInv
  <2>2. item'[w] # NoRow /\ outbox_work'[item'[w]].kind = "DELIVER_WEBHOOK"
    BY <1>2, <1>10, <2>1 DEF InStep, Delivering, tables
  <2>3. \A i \in InHand(w)' :
          outbox_work'[i].state = "DONE" /\ outbox_work'[i].due_at =< wnow'[w]
    BY <1>2, <1>10, <1>11, <2>1 DEF InStep, tables
  <2>4. \E n \in DOMAIN sends' : sends'[n] = Post(w, reply[w])'
    BY <1>7, <1>10, <1>11 DEF post, Post
  <2> QED  BY <1>10, <2>2, <2>3, <2>4 DEF InStep, Settling, Delivering
<1>13. AttemptsTrue'
  BY <1>3, <1>9, KeptOutcomes DEF IInv, TablesGrow
<1> QED  BY <1>3, <1>8, <1>9, <1>11, <1>12, <1>13, HandsStayApart, WorkerMoved

LEMMA RecordAttemptKeepsIInv ==
  ASSUME IInv, NEW w \in Worker, RecordAttempt(w), UNCHANGED <<clock, retryVars>>
  PROVE  IInv'
<1>1. /\ wstage[w] = "record" /\ ItemDone(w)
      /\ UNCHANGED <<payments, outbox_work, sends>>
  BY DEF RecordAttempt
<1>2. /\ TablesGrow
      /\ Subject(w) \in DOMAIN webhook_deliveries
      /\ DOMAIN webhook_deliveries' = DOMAIN webhook_deliveries
      /\ \A e \in DOMAIN webhook_deliveries :
           e # Subject(w) => webhook_deliveries'[e] = webhook_deliveries[e]
      /\ webhook_deliveries'[Subject(w)].status = OutcomeOf(reply[w])
      /\ webhook_deliveries'[Subject(w)].last_http_status = reply[w]
      /\ webhook_deliveries'[Subject(w)].last_attempted_at = wnow[w]
  BY RecordAttemptGrows
<1>3. /\ WorkerTypeOK' /\ OnlyMoves(w) /\ SendsGrow
      /\ wstage'[w] = "next" /\ item'[w] = NoRow /\ batch'[w] = batch[w]
      /\ wnow'[w] = wnow[w]
      /\ InHand(w)' \subseteq InHand(w)
  BY <1>1, <1>2, ItemDoneMoves
<1>4. InStep(w)'
  BY <1>1, <1>3, NextInStep
<1>5. \A v \in Worker : Undisturbed(v)
  BY <1>1 DEF Undisturbed
<1>6. OutcomeIsOfAPost'
  <2>1. PICK n \in DOMAIN sends : sends[n] = Post(w, reply[w])
    BY <1>1 DEF IInv, InStep
  <2>2. /\ sends[n].delivery = Subject(w) /\ sends[n].reply = reply[w]
        /\ sends[n].now = wnow[w]
    BY <2>1 DEF Post
  <2>3. reply[w] \in Nat
    BY DEF IInv, WorkerTypeOK
  <2>4. /\ OutcomeOf(reply[w]) = "SENT" => reply[w] \div 100 = 2
        /\ OutcomeOf(reply[w]) = "FAILED" => reply[w] \div 100 # 2
    BY <2>3 DEF OutcomeOf
  <2> QED
    BY <1>1, <1>2, <2>2, <2>4 DEF IInv, AttemptsTrue, OutcomeIsOfAPost
<1>7. SendsInTime'
  BY <1>1 DEF IInv, AttemptsTrue, SendsInTime
<1>8. AttemptsTrue'
  BY <1>6, <1>7 DEF AttemptsTrue
<1> QED  BY <1>2, <1>3, <1>4, <1>5, <1>8, HandsStayApart, WorkerMoved

LEMMA WorkerFailsAfterKeepsIInv ==
  ASSUME IInv, NEW w \in Worker, WorkerFailsAfter(w), UNCHANGED <<clock, retryVars>>
  PROVE  IInv'
<1>1. EndBatch(w) /\ UNCHANGED sends
  BY DEF WorkerFailsAfter
<1>2. /\ TablesGrow /\ OutcomesKept
      /\ \A v \in Worker \ {w} : Undisturbed(v)
  BY MarkDoneUndisturbed, WriteSettlementUndisturbed DEF WorkerFailsAfter
<1>3. /\ WorkerTypeOK' /\ OnlyMoves(w) /\ SendsGrow
      /\ InStep(w)' /\ InHand(w)' \subseteq InHand(w)
  BY <1>1, <1>2, EndBatchMoves
<1>4. AttemptsTrue'
  BY <1>2, <1>3, KeptOutcomes DEF IInv, TablesGrow
<1> QED  BY <1>2, <1>3, <1>4, HandsStayApart, WorkerMoved


-----------------------------------------------------------------------------
(* The invariant. *)

LEMMA InitIInv ==
  ASSUME TablesInit, WorkerInit, RetryInit
  PROVE  IInv
<1>1. /\ clock = 0 /\ idempotency_keys = [s \in Scope |-> Absent]
      /\ payments = <<>> /\ webhook_subscriptions = <<>>
      /\ webhook_deliveries = <<>> /\ outbox_work = <<>> /\ sends = <<>>
  BY DEF TablesInit, WorkerInit
<1>2. Absent \in IdempotencyRow
  BY DEF Absent, IdempotencyRow, FingerprintOf, Response, NoResponse, NoPayment
<1>3. TablesTypeOK
  BY <1>1, <1>2 DEF TablesTypeOK
<1>4. TInv
  BY <1>1, <1>3 
  DEF TInv, RowsRefer, OneSettlementRow, DeliveriesRefer, OneDeliveryPerEvent,
      SettlementsDue, SettlementRows, NoEarlySettlement
<1>5. WorkerTypeOK
  BY <1>1 DEF WorkerInit, WorkerTypeOK, WorkerStage, NoSubscription
<1>6. ASSUME NEW w \in Worker
      PROVE  InHand(w) = {} /\ InStep(w)
  <2>1. wstage[w] = "idle" /\ batch[w] = {} /\ item[w] = NoRow
    BY DEF WorkerInit
  <2> QED  BY <2>1 DEF InHand, InStep, Settling, Delivering
<1>7. RowInOneHand /\ AttemptsTrue
  BY <1>1, <1>6 DEF RowInOneHand, AttemptsTrue, OutcomeIsOfAPost, SendsInTime
<1>8. RetryTypeOK /\ RetriesRefer
  BY DEF RetryInit, RetryTypeOK, RetriesRefer
<1> QED  BY <1>4, <1>5, <1>6, <1>7, <1>8 DEF IInv

LEMMA WorkingKeepsIInv ==
  ASSUME IInv, NEW w \in Worker, WorkerStep(w), UNCHANGED <<clock, retryVars>>
  PROVE  IInv'
<1>2. CASE ClaimDue(w)
  BY <1>2, ClaimDueKeepsIInv
<1>3. CASE ClaimCommits(w)
  BY <1>3, ClaimCommitsKeepsIInv
<1>4. CASE NextItem(w)
  BY <1>4, NextItemKeepsIInv
<1>5. CASE BatchDone(w)
  BY <1>5, EndBatchKeepsIInv DEF BatchDone
<1>6. CASE SettleLoad(w)
  BY <1>6, SettleLoadKeepsIInv
<1>7. CASE SettleUpdate(w)
  BY <1>7, SettleUpdateKeepsIInv
<1>8. CASE SettleCommit(w)
  BY <1>8, SettleCommitKeepsIInv
<1>9. CASE DeliverLoad(w)
  BY <1>9, DeliverLoadKeepsIInv
<1>10. CASE Send(w)
  BY <1>10, SendKeepsIInv
<1>11. CASE RecordAttempt(w)
  BY <1>11, RecordAttemptKeepsIInv
<1> QED
  BY <1>2, <1>3, <1>4, <1>5, <1>6, <1>7, <1>8, <1>9, <1>10, <1>11 DEF WorkerStep

LEMMA FaultsKeepIInv ==
  ASSUME IInv, NEW w \in Worker, WorkerFails(w) \/ WorkerFailsAfter(w),
         UNCHANGED <<clock, retryVars>>
  PROVE  IInv'
<1>1. CASE WorkerFails(w)
  BY <1>1, EndBatchKeepsIInv DEF WorkerFails
<1>2. CASE WorkerFailsAfter(w)
  BY <1>2, WorkerFailsAfterKeepsIInv
<1> QED  BY <1>1, <1>2

-----------------------------------------------------------------------------
(* Whom events are announced to.  A worker chooses it before its           *)
(* settlement commits, a create request before its transaction does; what  *)
(* matters is that the choice still fits when it is written.  It does: an  *)
(* account never gets a second subscription, and one that came in between  *)
(* is not older than the payment.                                          *)

OneSubscription ==
  \A i, j \in DOMAIN webhook_subscriptions :
    webhook_subscriptions[i].account = webhook_subscriptions[j].account => i = j

(* Subscription j is to be told of payment i. *)
Concerns(j, i) ==
  /\ webhook_subscriptions[j].account = payments[i].account
  /\ webhook_subscriptions[j].since < i

(* The choice between subscription j and none for a status. *)
TargetFor(j, status) ==
  IF EventTypeForStatus(status) \in webhook_subscriptions[j].events
  THEN j ELSE NoSubscription

TargetsFit ==
  \A w \in Worker, j \in DOMAIN webhook_subscriptions :
    wstage[w] = "commit" /\ Concerns(j, Subject(w)) =>
      wtarget[w] = TargetFor(j, Settled(w).status)

(* Nobody is chosen, or who subscribed to the event for that account. *)
Listed(sub, a, status) ==
  sub # NoSubscription =>
    /\ sub \in DOMAIN webhook_subscriptions
    /\ webhook_subscriptions[sub].account = a
    /\ EventTypeForStatus(status) \in webhook_subscriptions[sub].events

TargetsListed ==
  \A w \in Worker :
    wstage[w] = "commit" => Listed(wtarget[w], loaded[w].account, Settled(w).status)

(* A delivery is of a payment of its subscriber, for an event that the     *)
(* subscriber lists and a status the payment entered.                      *)
Fits(d) ==
  LET row == webhook_deliveries[d]
  IN  /\ row.payment_id \in DOMAIN payments
      /\ row.subscription_id \in DOMAIN webhook_subscriptions
      /\ payments[row.payment_id].account = webhook_subscriptions[row.subscription_id].account
      /\ row.event_type \in webhook_subscriptions[row.subscription_id].events
      /\ row.payload_status \in {"PROCESSING", payments[row.payment_id].status}
      /\ row.event_type = EventTypeForStatus(row.payload_status)

DeliveriesFit == \A d \in DOMAIN webhook_deliveries : Fits(d)

CInv == OneSubscription /\ TargetsFit /\ TargetsListed /\ DeliveriesFit

(* Rows of the outbox keep their subjects. *)
SubjectsKept ==
  \A i \in DOMAIN outbox_work : outbox_work'[i].subject_id = outbox_work[i].subject_id

(* Worker w is about to write the settlement it was about to write, if any. *)
ChoiceRests(w) ==
  wstage'[w] = "commit" =>
    /\ wstage[w] = "commit"
    /\ item'[w] = item[w] /\ loaded'[w] = loaded[w]
    /\ wtarget'[w] = wtarget[w] /\ wnow'[w] = wnow[w]

(* Payments keep their accounts and, once settled, their status;           *)
(* subscriptions stay and the new ones are younger than every payment.     *)
ConcernsKept ==
  /\ \A i \in DOMAIN payments :
       /\ i \in DOMAIN payments'
       /\ payments'[i].account = payments[i].account
       /\ payments'[i].status = payments[i].status \/ payments[i].status = "PROCESSING"
  /\ \A j \in DOMAIN webhook_subscriptions :
       j \in DOMAIN webhook_subscriptions' /\ webhook_subscriptions'[j] = webhook_subscriptions[j]
  /\ \A j \in DOMAIN webhook_subscriptions' \ DOMAIN webhook_subscriptions :
       \A i \in DOMAIN payments : ~(webhook_subscriptions'[j].since < i)

LEMMA ChoicesRest ==
  ASSUME IInv, TargetsFit, TargetsListed, SubjectsKept, ConcernsKept,
         \A w \in Worker : ChoiceRests(w)
  PROVE  TargetsFit' /\ TargetsListed'
<1>1. ASSUME NEW w \in Worker, wstage'[w] = "commit"
      PROVE  /\ wstage[w] = "commit" /\ item'[w] = item[w] /\ loaded'[w] = loaded[w]
             /\ wtarget'[w] = wtarget[w] /\ wnow'[w] = wnow[w]
             /\ Settled(w)' = Settled(w)
  BY <1>1 DEF ChoiceRests, Settled
<1>2. TargetsFit'
  <2> SUFFICES ASSUME NEW w \in Worker, NEW j \in DOMAIN webhook_subscriptions',
                      wstage'[w] = "commit", Concerns(j, Subject(w))'
               PROVE  (wtarget[w] = TargetFor(j, Settled(w).status))'
    BY DEF TargetsFit
  <2>1. item[w] \in DOMAIN outbox_work /\ Subject(w) \in DOMAIN payments
    BY <1>1, InHandRefers DEF Settling
  <2>2. Subject(w)' = Subject(w)
    BY <1>1, <2>1 DEF Subject, SubjectsKept
  <2>3. /\ j \in DOMAIN webhook_subscriptions
        /\ webhook_subscriptions'[j] = webhook_subscriptions[j]
    BY <2>1, <2>2 DEF ConcernsKept, Concerns
  <2>4. Concerns(j, Subject(w))
    BY <2>1, <2>2, <2>3 DEF ConcernsKept, Concerns
  <2>5. wtarget[w] = TargetFor(j, Settled(w).status)
    BY <1>1, <2>3, <2>4 DEF TargetsFit
  <2> QED  BY <1>1, <2>3, <2>5 DEF TargetFor
<1>3. TargetsListed'
  <2> SUFFICES ASSUME NEW w \in Worker, wstage'[w] = "commit"
               PROVE  Listed(wtarget[w], loaded[w].account, Settled(w).status)'
    BY DEF TargetsListed
  <2>1. Listed(wtarget[w], loaded[w].account, Settled(w).status)
    BY <1>1 DEF TargetsListed
  <2> QED  BY <1>1, <2>1 DEF Listed, ConcernsKept
<1> QED  BY <1>2, <1>3

(* Deliveries go on fitting, if the new ones do. *)
LEMMA FitsStay ==
  ASSUME DeliveriesFit, DeliveriesGrow, ConcernsKept,
         \A d \in DOMAIN webhook_deliveries' \ DOMAIN webhook_deliveries : Fits(d)'
  PROVE  DeliveriesFit'
<1>1. ASSUME NEW d \in DOMAIN webhook_deliveries
      PROVE  Fits(d)'
  <2>1. Fits(d)
    BY DEF DeliveriesFit
  <2> QED  BY <2>1 DEF Fits, DeliveriesGrow, ConcernsKept
<1> QED  BY <1>1 DEF DeliveriesFit

-----------------------------------------------------------------------------
(* A step that announces nothing and leaves what is to announce. *)
NothingToAnnounce ==
  /\ UNCHANGED <<payments, webhook_subscriptions>>
  /\ DOMAIN webhook_deliveries' = DOMAIN webhook_deliveries
  /\ DeliveriesGrow

Silent == NothingToAnnounce /\ SubjectsKept /\ \A w \in Worker : ChoiceRests(w)

(* A step that writes the settlement of worker w. *)
Settles(w) ==
  /\ wstage[w] = "commit" /\ WriteSettlement(w) /\ UNCHANGED clock
  /\ \A v \in Worker : ChoiceRests(v)

LEMMA UntouchedIsSilent ==
  ASSUME UNCHANGED <<payments, webhook_subscriptions, webhook_deliveries, outbox_work>>
  PROVE  NothingToAnnounce /\ SubjectsKept
  BY DEF NothingToAnnounce, SubjectsKept, DeliveriesGrow

(* What leaves workers and these tables alone. *)
LEMMA ElsewhereIsSilent ==
  ASSUME UNCHANGED <<payments, webhook_subscriptions, webhook_deliveries, outbox_work>>,
         UNCHANGED workerVars
  PROVE  Silent
  BY UntouchedIsSilent DEF Silent, ChoiceRests, workerVars

(* The end of an item or a batch leaves the choices of the others. *)
LEMMA EndOfWorkRests ==
  ASSUME IInv, NEW w \in Worker, ItemDone(w) \/ EndBatch(w)
  PROVE  \A v \in Worker : ChoiceRests(v)
  BY DEF IInv, WorkerTypeOK, ItemDone, EndBatch, ClearItem, WGoTo, ChoiceRests

(* What a worker does but choosing and settling announces nothing. *)
LEMMA WorkIsSilentOrSettles ==
  ASSUME IInv, NEW w \in Worker, WorkerStep(w), UNCHANGED clock
  PROVE  Silent \/ SettleUpdate(w) \/ Settles(w)
<1>0. wstage \in [Worker -> WorkerStage]
  BY DEF IInv, WorkerTypeOK
<1>1. CASE ClaimDue(w) \/ NextItem(w) \/ DeliverLoad(w) \/ Send(w)
  <2>1. PICK st \in WorkerStage \ {"commit"} : wstage' = [wstage EXCEPT ![w] = st]
    BY <1>1 DEF ClaimDue, NextItem, DeliverLoad, Send, WGoTo, WorkerStage
  <2>2. /\ UNCHANGED <<payments, webhook_subscriptions, webhook_deliveries, outbox_work>>
        /\ UNCHANGED <<loaded, wtarget>>
    BY <1>1 DEF ClaimDue, NextItem, DeliverLoad, Send, workerRegisters, tables
  <2>3. \A v \in Worker : v # w => item'[v] = item[v] /\ wnow'[v] = wnow[v]
    BY <1>1 DEF ClaimDue, NextItem, DeliverLoad, Send, workerRegisters, IInv, WorkerTypeOK
  <2>4. \A v \in Worker : ChoiceRests(v)
    BY <1>0, <2>1, <2>2, <2>3 DEF ChoiceRests
  <2> QED  BY <2>2, <2>4, UntouchedIsSilent DEF Silent
<1>2. CASE ClaimCommits(w)
  <2>1. /\ wstage' = [wstage EXCEPT ![w] = "next"]
        /\ UNCHANGED <<payments, webhook_subscriptions, webhook_deliveries,
                       wnow, item, loaded, wtarget>>
        /\ MarkDone(batch[w])
    BY <1>2 DEF ClaimCommits, WGoTo, workerRegisters
  <2>2. \A v \in Worker : ChoiceRests(v)
    BY <1>0, <2>1 DEF ChoiceRests
  <2>3. SubjectsKept
    BY <2>1, MarkDoneRows DEF SubjectsKept, IInv
  <2> QED  BY <2>1, <2>2, <2>3 DEF NothingToAnnounce, DeliveriesGrow, Silent
<1>3. CASE BatchDone(w)
  BY <1>3, EndOfWorkRests, UntouchedIsSilent DEF BatchDone, tables, Silent
<1>4. CASE SettleLoad(w)
  <2>1. UNCHANGED <<payments, webhook_subscriptions, webhook_deliveries, outbox_work>>
    BY <1>4 DEF SettleLoad, tables
  <2>2. CASE ItemDone(w)
    BY <2>1, <2>2, EndOfWorkRests, UntouchedIsSilent DEF Silent
  <2>3. CASE ~ItemDone(w)
    <3>1. /\ wstage' = [wstage EXCEPT ![w] = "update"]
          /\ UNCHANGED <<wnow, item, wtarget>>
          /\ \A v \in Worker : v # w => loaded'[v] = loaded[v]
      BY <1>4, <2>3 DEF SettleLoad, WGoTo, IInv, WorkerTypeOK
    <3>2. \A v \in Worker : ChoiceRests(v)
      BY <1>0, <3>1 DEF ChoiceRests
    <3> QED  BY <2>1, <3>2, UntouchedIsSilent DEF Silent
  <2> QED  BY <2>2, <2>3
<1>5. CASE RecordAttempt(w)
  <2>1. /\ UNCHANGED <<payments, webhook_subscriptions, outbox_work>>
        /\ ItemDone(w)
        /\ DOMAIN webhook_deliveries' = DOMAIN webhook_deliveries
        /\ DeliveriesGrow
    BY <1>5, RecordAttemptGrows DEF RecordAttempt, TablesGrow
  <2> QED  BY <2>1, EndOfWorkRests DEF NothingToAnnounce, SubjectsKept, Silent
<1>6. CASE SettleCommit(w)
  BY <1>6, EndOfWorkRests DEF SettleCommit, Settles
<1> QED  BY <1>1, <1>2, <1>3, <1>4, <1>5, <1>6 DEF WorkerStep

LEMMA FaultIsSilentOrSettles ==
  ASSUME IInv, NEW w \in Worker, WorkerFails(w) \/ WorkerFailsAfter(w), UNCHANGED clock
  PROVE  Silent \/ Settles(w)
<1>1. \A v \in Worker : ChoiceRests(v)
  BY EndOfWorkRests DEF WorkerFails, WorkerFailsAfter
<1>2. CASE UNCHANGED tables
  BY <1>1, <1>2, UntouchedIsSilent DEF tables, Silent
<1>3. CASE /\ MarkDone(batch[w])
           /\ UNCHANGED <<idempotency_keys, payments, webhook_subscriptions, webhook_deliveries>>
  <2>1. SubjectsKept
    BY <1>3, MarkDoneRows DEF SubjectsKept, IInv
  <2>2. NothingToAnnounce
    BY <1>3 DEF NothingToAnnounce, DeliveriesGrow
  <2> QED  BY <1>1, <2>1, <2>2 DEF Silent
<1>4. CASE wstage[w] = "commit" /\ WriteSettlement(w)
  BY <1>1, <1>4 DEF Settles
<1> QED  BY <1>2, <1>3, <1>4 DEF WorkerFails, WorkerFailsAfter

LEMMA RetryingIsSilent ==
  ASSUME IInv, RetryNext, UNCHANGED <<clock, workerVars>>
  PROVE  Silent
<1>1. PICK c \in RetryRequest : RetryLoad(c) \/ RetryCommit(c) \/ RetryFails(c)
  BY DEF RetryNext
<1>2. UNCHANGED clock /\ \A w \in Worker : ChoiceRests(w)
  BY DEF workerVars, ChoiceRests
<1>3. CASE UNCHANGED tables
  BY <1>2, <1>3, UntouchedIsSilent DEF tables, Silent
<1>4. CASE rstage[c] = "enqueue" /\ WriteRetry(c)
  <2>1. TablesGrow
    BY <1>2, <1>4, WriteRetryGrows
  <2>2. /\ UNCHANGED <<payments, webhook_subscriptions>>
        /\ DOMAIN webhook_deliveries' = DOMAIN webhook_deliveries
    BY <1>4 DEF WriteRetry
  <2> QED
    BY <1>2, <2>1, <2>2 DEF NothingToAnnounce, SubjectsKept, TablesGrow, RowsGrow, Silent
<1> QED  BY <1>1, <1>3, <1>4 DEF RetryLoad, RetryCommit, RetryFails

-----------------------------------------------------------------------------
(* What each kind of step does to the choices. *)

LEMMA SilentKeepsConcerns ==
  ASSUME NothingToAnnounce
  PROVE  ConcernsKept
  BY DEF ConcernsKept, NothingToAnnounce

LEMMA SilentKeepsCInv ==
  ASSUME IInv, CInv, Silent
  PROVE  CInv'
<1>1. OneSubscription'
  BY DEF CInv, OneSubscription, Silent, NothingToAnnounce
<1>2. TargetsFit' /\ TargetsListed'
  BY SilentKeepsConcerns, ChoicesRest DEF CInv, Silent
<1>3. DeliveriesFit'
  BY SilentKeepsConcerns, FitsStay DEF CInv, Silent, NothingToAnnounce
<1> QED  BY <1>1, <1>2, <1>3 DEF CInv

(* An account's subscription is the one to notify, if it lists the event.  *)
LEMMA TheOneToNotify ==
  ASSUME OneSubscription, NEW j \in DOMAIN webhook_subscriptions, NEW st,
         NEW sub \in SubscriptionToNotify(webhook_subscriptions[j].account, st)
  PROVE  sub = TargetFor(j, st)
<1>1. LoadActive(webhook_subscriptions[j].account) = {j}
  BY DEF OneSubscription, LoadActive
<1> QED  BY <1>1 DEF SubscriptionToNotify, ShouldEmitEvent, TargetFor

LEMMA TheChosenIsListed ==
  ASSUME NEW a, NEW st, NEW sub \in SubscriptionToNotify(a, st)
  PROVE  Listed(sub, a, st)
  BY DEF SubscriptionToNotify, ShouldEmitEvent, LoadActive, Listed

(* A worker chooses whom to notify. *)
LEMMA SettleUpdateChooses ==
  ASSUME IInv, CInv, NEW w \in Worker, SettleUpdate(w)
  PROVE  CInv'
<1>1. PICK sub \in SubscriptionToNotify(loaded[w].account, Settled(w).status) :
        wtarget' = [wtarget EXCEPT ![w] = sub]
  BY DEF SettleUpdate
<1>2. /\ wstage[w] = "update" /\ wstage' = [wstage EXCEPT ![w] = "commit"]
      /\ UNCHANGED tables /\ UNCHANGED <<wnow, item, loaded>>
      /\ wtarget \in [Worker -> Nat] /\ wstage \in [Worker -> WorkerStage]
  BY DEF SettleUpdate, WGoTo, IInv, WorkerTypeOK
<1>3. /\ UNCHANGED <<payments, webhook_subscriptions, webhook_deliveries, outbox_work>>
      /\ \A i, j : Concerns(j, i)' <=> Concerns(j, i)
      /\ \A v \in Worker : Subject(v)' = Subject(v) /\ Settled(v)' = Settled(v)
  BY <1>2 DEF tables, Concerns, Subject, Settled
<1>4. loaded[w] = payments[Subject(w)]
  BY <1>2 DEF IInv, InStep
<1>5. TargetsFit'
  <2> SUFFICES ASSUME NEW v \in Worker, NEW j \in DOMAIN webhook_subscriptions,
                      wstage'[v] = "commit", Concerns(j, Subject(v))
               PROVE  wtarget'[v] = TargetFor(j, Settled(v).status)
    BY <1>3 DEF TargetsFit, TargetFor
  <2>1. CASE v = w
    <3>1. sub = TargetFor(j, Settled(w).status)
      BY <1>1, <1>4, <2>1, TheOneToNotify DEF CInv, Concerns
    <3> QED  BY <1>1, <1>2, <2>1, <3>1
  <2>2. CASE v # w
    BY <1>1, <1>2, <2>2 DEF CInv, TargetsFit
  <2> QED  BY <2>1, <2>2
<1>6. TargetsListed'
  <2> SUFFICES ASSUME NEW v \in Worker, wstage'[v] = "commit"
               PROVE  Listed(wtarget'[v], loaded[v].account, Settled(v).status)
    BY <1>2, <1>3 DEF TargetsListed, Listed
  <2>1. CASE v = w
    <3>1. Listed(sub, loaded[w].account, Settled(w).status)
      BY <1>1, TheChosenIsListed
    <3> QED  BY <1>1, <1>2, <2>1, <3>1
  <2>2. CASE v # w
    BY <1>1, <1>2, <2>2 DEF CInv, TargetsListed
  <2> QED  BY <2>1, <2>2
<1>7. OneSubscription' /\ DeliveriesFit'
  BY <1>3 DEF CInv, OneSubscription, DeliveriesFit, Fits
<1> QED  BY <1>5, <1>6, <1>7 DEF CInv

LEMMA SettledAccount ==
  ASSUME NEW p \in PaymentRow, NEW t
  PROVE  Settle(p, t).account = p.account
  BY DEF Settle, PaymentRow

(* What the settlement of worker w writes. *)
LEMMA SettlementWrites ==
  ASSUME IInv, NEW w \in Worker, Settles(w)
  PROVE  /\ Subject(w) \in DOMAIN payments /\ Subject(w) \in Nat
         /\ payments[Subject(w)].status = "PROCESSING"
         /\ loaded[w] = payments[Subject(w)]
         /\ Settled(w).status \in TerminalStatus /\ Settled(w).status # "PROCESSING"
         /\ Settled(w).status \in Status
         /\ wnow[w] \in Nat /\ wtarget[w] \in Nat
         /\ DOMAIN payments' = DOMAIN payments
         /\ payments'[Subject(w)] = Settled(w)
         /\ Settled(w).account = payments[Subject(w)].account
         /\ \A i \in DOMAIN payments : i # Subject(w) => payments'[i] = payments[i]
         /\ webhook_deliveries' =
              DeliveriesWith(wtarget[w], Subject(w), Settled(w).status, wnow[w])
         /\ UNCHANGED webhook_subscriptions
         /\ TablesGrow /\ SubjectsKept /\ ConcernsKept
<1> DEFINE id == Subject(w)
<1>1. /\ id \in DOMAIN payments /\ payments[id].status = "PROCESSING"
      /\ Settled(w) \in PaymentRow /\ Settled(w).status \in TerminalStatus
      /\ loaded[w] = payments[id]
  BY SettledRow DEF IInv, InStep, Settles
<1>2. /\ wnow[w] \in Nat /\ wtarget[w] \in Nat /\ payments \in Seq(PaymentRow)
      /\ id \in Nat
  <2>1. wnow[w] \in Nat /\ wtarget[w] \in Nat /\ payments \in Seq(PaymentRow)
    BY DEF IInv, TInv, TablesTypeOK, WorkerTypeOK
  <2> QED  BY <1>1, <2>1, LenProperties
<1>3. Settled(w).account = payments[id].account
  <2>1. payments[id] \in PaymentRow
    BY <1>1, <1>2, ElementOfSeq, LenProperties
  <2> QED  BY <1>1, <2>1, SettledAccount DEF Settled
<1>4. /\ payments' = [payments EXCEPT ![id] = Settled(w)]
      /\ webhook_deliveries' = DeliveriesWith(wtarget[w], id, Settled(w).status, wnow[w])
      /\ UNCHANGED webhook_subscriptions
  BY DEF WriteSettlement, Settles
<1>5. TablesGrow
  BY WriteSettlementGrows DEF Settles
<1>6. SubjectsKept
  BY <1>5 DEF TablesGrow, RowsGrow, SubjectsKept
<1> HIDE DEF id
<1>7. /\ DOMAIN payments' = DOMAIN payments
      /\ payments'[id] = Settled(w)
      /\ \A i \in DOMAIN payments : i # id => payments'[i] = payments[i]
  BY <1>1, <1>2, <1>4, Replaced
<1>8. ConcernsKept
  <2>1. \A i \in DOMAIN payments :
          /\ i \in DOMAIN payments'
          /\ payments'[i].account = payments[i].account
          /\ payments'[i].status = payments[i].status \/ payments[i].status = "PROCESSING"
    BY <1>1, <1>3, <1>7
  <2> QED  BY <1>4, <2>1 DEF ConcernsKept
<1>9. Settled(w).status \in Status /\ Settled(w).status # "PROCESSING"
  BY <1>1 DEF TerminalStatus, Status
<1> QED  BY <1>1, <1>2, <1>3, <1>4, <1>5, <1>6, <1>7, <1>8, <1>9 DEF id

LEMMA WhatIsAnnounced ==
  ASSUME TInv, NEW sub \in Nat, NEW id \in Nat, NEW st \in Status, NEW t \in Nat,
         webhook_deliveries' = DeliveriesWith(sub, id, st, t),
         NEW d \in DOMAIN webhook_deliveries' \ DOMAIN webhook_deliveries
  PROVE  webhook_deliveries'[d] = NewDelivery(sub, id, st, t)
  BY DeliveriesWithRows

(* A delivery that is made for a choice that is listed fits. *)
LEMMA AnnouncedFits ==
  ASSUME TInv, NEW sub \in Nat, NEW id \in Nat, id \in DOMAIN payments', NEW st \in Status,
         NEW t \in Nat, NEW a,
         webhook_deliveries' = DeliveriesWith(sub, id, st, t),
         payments'[id].account = a, payments'[id].status = st,
         Listed(sub, a, st), UNCHANGED webhook_subscriptions
  PROVE  \A d \in DOMAIN webhook_deliveries' \ DOMAIN webhook_deliveries : Fits(d)'
<1> SUFFICES ASSUME NEW d \in DOMAIN webhook_deliveries' \ DOMAIN webhook_deliveries
             PROVE  Fits(d)'
  OBVIOUS
<1>1. webhook_deliveries'[d] = NewDelivery(sub, id, st, t)
  BY WhatIsAnnounced
<1>2. sub # NoSubscription
  BY DEF DeliveriesWith
<1>3. /\ NewDelivery(sub, id, st, t).payment_id = id
      /\ NewDelivery(sub, id, st, t).subscription_id = sub
      /\ NewDelivery(sub, id, st, t).payload_status = st
      /\ NewDelivery(sub, id, st, t).event_type = EventTypeForStatus(st)
  BY DEF NewDelivery
<1> QED  BY <1>1, <1>2, <1>3 DEF Fits, Listed

LEMMA SettlingKeepsCInv ==
  ASSUME IInv, CInv, NEW w \in Worker, Settles(w)
  PROVE  CInv'
<1>1. OneSubscription'
  BY SettlementWrites DEF CInv, OneSubscription
<1>2. TargetsFit' /\ TargetsListed'
  BY SettlementWrites, ChoicesRest DEF CInv, Settles
<1>3. DeliveriesFit'
  <2>1. Listed(wtarget[w], payments[Subject(w)].account, Settled(w).status)
    BY SettlementWrites DEF CInv, TargetsListed, Settles
  <2>2. \A d \in DOMAIN webhook_deliveries' \ DOMAIN webhook_deliveries : Fits(d)'
    BY <2>1, SettlementWrites, AnnouncedFits DEF IInv
  <2> QED  BY <2>2, SettlementWrites, FitsStay DEF CInv, TablesGrow
<1> QED  BY <1>1, <1>2, <1>3 DEF CInv

(* A new subscription concerns no payment there is. *)
LEMMA SubscribeKeepsConcerns ==
  ASSUME IInv, SubscriptionNext
  PROVE  /\ ConcernsKept /\ (OneSubscription => OneSubscription')
         /\ UNCHANGED <<payments, webhook_deliveries, outbox_work>>
<1>1. PICK a \in Account, events \in EventSets : Subscribe(a, events)
  BY DEF SubscriptionNext
<1> DEFINE row == NewSubscription(a, events)
<1>2. /\ row \in SubscriptionRow /\ row.account = a /\ row.since = Len(payments)
      /\ webhook_subscriptions \in Seq(SubscriptionRow)
      /\ payments \in Seq(PaymentRow)
  BY EventSetsAssumption DEF NewSubscription, SubscriptionRow, IInv, TInv, TablesTypeOK
<1>3. /\ webhook_subscriptions' = Append(webhook_subscriptions, row)
      /\ UNCHANGED <<payments, webhook_deliveries, outbox_work>>
      /\ \A j \in DOMAIN webhook_subscriptions : webhook_subscriptions[j].account # a
  BY <1>1 DEF Subscribe, LoadActive
<1> HIDE DEF row
<1>4. /\ \A j \in DOMAIN webhook_subscriptions :
           /\ j \in DOMAIN webhook_subscriptions'
           /\ webhook_subscriptions'[j] = webhook_subscriptions[j]
      /\ DOMAIN webhook_subscriptions' \ DOMAIN webhook_subscriptions
           = {Len(webhook_subscriptions) + 1}
      /\ webhook_subscriptions'[Len(webhook_subscriptions) + 1] = row
  BY <1>2, <1>3, Appended
<1>5. OneSubscription => OneSubscription'
  BY <1>2, <1>3, <1>4 DEF OneSubscription
<1>6. \A i \in DOMAIN payments : ~(Len(payments) < i)
  BY <1>2, LenProperties
<1>7. ConcernsKept
  <2>1. \A j \in DOMAIN webhook_subscriptions' \ DOMAIN webhook_subscriptions :
          webhook_subscriptions'[j].since = Len(payments)
    BY <1>2, <1>4
  <2> QED  BY <1>3, <1>4, <1>6, <2>1 DEF ConcernsKept
<1> QED  BY <1>3, <1>5, <1>7

LEMMA SubscriptionKeepsCInv ==
  ASSUME IInv, CInv, SubscriptionNext, UNCHANGED workerVars
  PROVE  CInv'
<1>1. /\ ConcernsKept /\ OneSubscription'
      /\ UNCHANGED <<payments, webhook_deliveries, outbox_work>>
  BY SubscribeKeepsConcerns DEF CInv
<1>2. TargetsFit' /\ TargetsListed'
  <2>1. SubjectsKept /\ \A w \in Worker : ChoiceRests(w)
    BY <1>1 DEF SubjectsKept, ChoiceRests, workerVars
  <2> QED  BY <1>1, <2>1, ChoicesRest DEF CInv
<1>3. DeliveriesFit'
  BY <1>1, FitsStay DEF CInv, DeliveriesGrow
<1> QED  BY <1>1, <1>2, <1>3 DEF CInv

(* What the transaction of a create request appends. *)
LEMMA CreationWrites ==
  ASSUME IInv, NEW s \in Scope, NEW b \in Body, NEW t \in Nat, NEW sub \in Nat,
         InsertPayment(s, b, t, sub),
         UNCHANGED <<clock, webhook_subscriptions>>,
         idempotency_keys' \in [Scope -> IdempotencyRow],
         NEW id, id = Len(payments) + 1
  PROVE  /\ id \in Nat /\ id \notin DOMAIN payments
         /\ DOMAIN payments' = DOMAIN payments \cup {id}
         /\ payments'[id] = NewPayment(s, b, t)
         /\ payments'[id].account = s[1] /\ payments'[id].status = "PROCESSING"
         /\ \A i \in DOMAIN payments : payments'[i] = payments[i]
         /\ webhook_deliveries' = DeliveriesWith(sub, id, "PROCESSING", t)
         /\ TablesGrow /\ SubjectsKept /\ ConcernsKept
<1> DEFINE p == NewPayment(s, b, t)
<1>1. p \in PaymentRow /\ p.status = "PROCESSING" /\ p.account = s[1]
  BY NewPaymentTyped DEF NewPayment
<1>2. /\ payments' = Append(payments, p)
      /\ webhook_deliveries' = DeliveriesWith(sub, id, "PROCESSING", t)
      /\ TInv /\ payments \in Seq(PaymentRow)
  BY <1>1 DEF InsertPayment, IInv, TInv, TablesTypeOK
<1> HIDE DEF p
<1>3. /\ \A i \in DOMAIN payments : i \in DOMAIN payments' /\ payments'[i] = payments[i]
      /\ DOMAIN payments' \ DOMAIN payments = {id} /\ payments'[id] = p
  BY <1>1, <1>2, Appended
<1>4. id \in Nat
  BY <1>2, LenProperties
<1>5. TablesGrow
  BY <1>2, InsertPaymentGrows
<1>6. SubjectsKept
  BY <1>5 DEF SubjectsKept, TablesGrow, RowsGrow
<1>7. ConcernsKept
  BY <1>3 DEF ConcernsKept
<1> QED  BY <1>1, <1>2, <1>3, <1>4, <1>5, <1>6, <1>7 DEF p

LEMMA CreationKeepsCInv ==
  ASSUME IInv, CInv, NEW s \in Scope, NEW b \in Body, NEW t \in Nat, NEW sub \in Nat,
         InsertPayment(s, b, t, sub), Listed(sub, s[1], "PROCESSING"),
         UNCHANGED <<clock, webhook_subscriptions, workerVars>>,
         idempotency_keys' \in [Scope -> IdempotencyRow]
  PROVE  CInv'
<1> DEFINE id == Len(payments) + 1
<1> HIDE DEF id
<1>1. /\ id \in Nat /\ id \in DOMAIN payments' /\ payments'[id].account = s[1]
      /\ payments'[id].status = "PROCESSING" /\ "PROCESSING" \in Status
      /\ webhook_deliveries' = DeliveriesWith(sub, id, "PROCESSING", t)
      /\ TablesGrow /\ SubjectsKept /\ ConcernsKept
  BY CreationWrites DEF id, Status
<1>2. OneSubscription'
  BY DEF CInv, OneSubscription
<1>3. TargetsFit' /\ TargetsListed'
  <2>1. \A w \in Worker : ChoiceRests(w)
    BY DEF workerVars, ChoiceRests
  <2> QED  BY <1>1, <2>1, ChoicesRest DEF CInv
<1>4. DeliveriesFit'
  <2>1. \A d \in DOMAIN webhook_deliveries' \ DOMAIN webhook_deliveries : Fits(d)'
    BY <1>1, AnnouncedFits DEF IInv
  <2> QED  BY <1>1, <2>1, FitsStay DEF CInv, TablesGrow
<1> QED  BY <1>2, <1>3, <1>4 DEF CInv

LEMMA InitCInv ==
  ASSUME TablesInit, WorkerInit
  PROVE  CInv
  BY DEF TablesInit, WorkerInit, CInv, OneSubscription, TargetsFit, TargetsListed, DeliveriesFit
=============================================================================
