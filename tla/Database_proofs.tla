---------------------------- MODULE Database_proofs ----------------------------
(***************************************************************************)
(* Lemmas about the statements of Database: what they write is of the type *)
(* of the tables.                                                          *)
(***************************************************************************)
EXTENDS Database, TLAPS

ScopeOf(p) == <<p.account, p.key>>

(* A reading of the clock is a natural number. *)
LEMMA NowIsNat == Now \subseteq Nat
  BY TimeAssumption DEF Now, Time

(* A new payment is a row of its scope, PROCESSING. *)
LEMMA NewPaymentTyped ==
  ASSUME NEW s \in Scope, NEW b \in Body, NEW t \in Nat, NEW id \in Nat
  PROVE  /\ NewPayment(s, b, t) \in PaymentRow
         /\ NewPayment(s, b, t).status = "PROCESSING"
         /\ ScopeOf(NewPayment(s, b, t)) = s
         /\ Encode(id, NewPayment(s, b, t)) \in Response
  BY DEF NewPayment, PaymentRow, Scope, CreationStatus, Status, Encode, Response,
         ScopeOf

(* What InsertPayment appends are rows of their tables. *)
LEMMA InsertPaymentTyped ==
  ASSUME TablesTypeOK, NEW s \in Scope, NEW b \in Body, NEW t \in Nat,
         NEW sub \in Nat, InsertPayment(s, b, t, sub)
  PROVE  /\ payments' \in Seq(PaymentRow)
         /\ webhook_deliveries' \in Seq(DeliveryRow)
         /\ outbox_work' \in Seq(OutboxRow)
<1> DEFINE id == Len(payments) + 1
           p == NewPayment(s, b, t)
<1>1. id \in Nat /\ p \in PaymentRow /\ p.status = "PROCESSING"
  BY NewPaymentTyped DEF TablesTypeOK
<1>2. payments' \in Seq(PaymentRow)
  BY <1>1 DEF InsertPayment, TablesTypeOK
<1>3. NewDelivery(sub, id, "PROCESSING", t) \in DeliveryRow
  <2>1. EventTypeForStatus("PROCESSING") \in EventType
    BY DEF EventTypeForStatus, EventType
  <2> QED  BY <1>1, <2>1 DEF NewDelivery, DeliveryRow, Status, DeliveryStatus
<1>4. webhook_deliveries' \in Seq(DeliveryRow)
  BY <1>1, <1>3 DEF InsertPayment, DeliveriesWith, TablesTypeOK
<1>5. SettleWork(id, t) \in Seq(OutboxRow)
  BY <1>1, DelayAssumption DEF SettleWork, NewWork, OutboxRow, OutboxKind
<1>6. DeliverWork(sub, t) \in Seq(OutboxRow)
  <2>1. Len(webhook_deliveries) + 1 \in Nat
    BY DEF TablesTypeOK
  <2>2. NewWork("DELIVER_WEBHOOK", Len(webhook_deliveries) + 1, t) \in OutboxRow
    BY <2>1 DEF NewWork, OutboxRow, OutboxKind
  <2> QED  BY <2>2 DEF DeliverWork
<1>7. outbox_work' = outbox_work \o SettleWork(id, t) \o DeliverWork(sub, t)
  BY DEF InsertPayment
<1>8. outbox_work' \in Seq(OutboxRow)
  BY <1>5, <1>6, <1>7 DEF TablesTypeOK
<1> QED  BY <1>2, <1>4, <1>8

(* The subscription to notify is a row or none. *)
LEMMA SubscriptionTyped ==
  ASSUME TablesTypeOK, NEW a \in Account, NEW st,
         NEW sub \in SubscriptionToNotify(a, st)
  PROVE  sub \in Nat
  BY DEF SubscriptionToNotify, LoadActive, TablesTypeOK, NoSubscription
================================================================================
