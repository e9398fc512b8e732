------------------------------ MODULE Database ------------------------------
(***************************************************************************)
(* The PostgreSQL tables (migrations 00002 to 00006), the clock the        *)
(* service reads, and what the statements of internal/postgres write.      *)
(*                                                                         *)
(* Rows are never deleted by the service, so the tables whose ids are      *)
(* fresh UUIDs are sequences in commit order and a row's id is its index.  *)
(* A transaction's writes become visible at its commit, all at once (READ  *)
(* COMMITTED), so operators below describe what a commit appends.          *)
(***************************************************************************)
EXTENDS Domain, Integers, Sequences

CONSTANTS
  Account,          \* technical accounts
  Key,              \* idempotency keys a client may send
  Body,             \* validated request bodies
  ProcessingDelay,  \* DUMMYPAY_PROCESSING_DELAY
  MaxTime,          \* bound of the modelled time
  Skew              \* how far a reading of the wall clock may be off

ASSUME BodyAssumption ==
  \A b \in Body : b = [reference |-> b.reference, token |-> b.token] /\ b.token \in PaymentToken
ASSUME DelayAssumption == ProcessingDelay \in Nat
ASSUME TimeAssumption == MaxTime \in Nat /\ Skew \in Nat

VARIABLES
  clock,                  \* true time, in microseconds (the column type's unit)
  idempotency_keys,       \* one row, or its absence, per account and key
  payments,
  webhook_subscriptions,
  webhook_deliveries,
  outbox_work

tables == <<idempotency_keys, payments, webhook_subscriptions,
            webhook_deliveries, outbox_work>>

-----------------------------------------------------------------------------
(* Time. *)

Time == 0..MaxTime

(* What Clock.Now may return: wall clocks are only roughly right. *)
Now == {t \in Time : t =< clock + Skew /\ clock =< t + Skew}

Tick ==
  /\ clock < MaxTime
  /\ clock' = clock + 1

-----------------------------------------------------------------------------
(* Rows. *)

Scope == Account \X Key

NoPayment == 0

NoResponse == [payment_id |-> NoPayment, status |-> "none", created_at |-> 0]

(* The response encode(p) renders: the payment as it is at that moment. *)
Response == [payment_id : Nat, status : Status \cup {"none"}, created_at : Nat]

Absent == [state |-> "ABSENT", fingerprint |-> <<>>, claimed_at |-> 0,
           payment_id |-> NoPayment, response |-> NoResponse]

FingerprintOf == {Fingerprint(b) : b \in Body} \cup {<<>>}

IdempotencyRow ==
  [state : {"ABSENT", "IN_FLIGHT", "COMPLETED"}, fingerprint : FingerprintOf,
   claimed_at : Nat, payment_id : Nat, response : Response]

(* A payment row.  "key" is not a column: it records for the invariants    *)
(* which idempotency key the inserting request carried.                    *)
PaymentRow ==
  [account : Account, key : Key, body : Body, status : Status,
   created_at : Nat, updated_at : Nat]

NewPayment(s, b, t) ==
  [account |-> s[1], key |-> s[2], body |-> b,
   status |-> CreationStatus(b.token), created_at |-> t, updated_at |-> t]

Encode(id, p) ==
  [payment_id |-> id, status |-> p.status, created_at |-> p.created_at]

(* A subscription row.  "since" is not a column: it is how many payments   *)
(* were committed before the subscription was.                             *)
SubscriptionRow == [account : Account, events : SUBSET EventType, since : Nat]

NewSubscription(a, events) ==
  [account |-> a, events |-> events, since |-> Len(payments)]

(* A delivery row.  The payload's bytes are rendered once, at creation;    *)
(* payload_status stands for them.                                         *)
DeliveryRow ==
  [subscription_id : Nat, payment_id : Nat, event_type : EventType,
   payload_status : Status, status : DeliveryStatus, attempt_count : Nat,
   attempted : BOOLEAN, last_attempted_at : Nat, last_http_status : Nat,
   created_at : Nat]

NewDelivery(sub, id, status, t) ==
  [subscription_id |-> sub, payment_id |-> id,
   event_type |-> EventTypeForStatus(status), payload_status |-> status,
   status |-> "PENDING", attempt_count |-> 0, attempted |-> FALSE,
   last_attempted_at |-> 0, last_http_status |-> 0, created_at |-> t]

OutboxRow ==
  [kind : OutboxKind, subject_id : Nat, due_at : Nat,
   state : {"PENDING", "DONE"}]

NewWork(kind, subject, due) ==
  [kind |-> kind, subject_id |-> subject, due_at |-> due, state |-> "PENDING"]

-----------------------------------------------------------------------------
(* Statements. *)

NoSubscription == 0

(***************************************************************************)
(* LoadActive followed by ShouldEmitEvent: the subscription of account a   *)
(* to notify of payments entering "status", as a set of choices; the row's *)
(* "active" column is never set to false.                                  *)
(***************************************************************************)
LoadActive(a) == {i \in DOMAIN webhook_subscriptions :
                     webhook_subscriptions[i].account = a}

SubscriptionToNotify(a, status) ==
  IF LoadActive(a) = {}
  THEN {NoSubscription}
  ELSE {IF ShouldEmitEvent(webhook_subscriptions[i].events,
                           EventTypeForStatus(status))
        THEN i ELSE NoSubscription : i \in LoadActive(a)}

(* Deliveries.Create and Enqueue(DELIVER_WEBHOOK), when sub is to be told. *)
DeliveriesWith(sub, id, status, t) ==
  IF sub = NoSubscription
  THEN webhook_deliveries
  ELSE Append(webhook_deliveries, NewDelivery(sub, id, status, t))

DeliverWork(sub, t) ==
  IF sub = NoSubscription
  THEN <<>>
  ELSE <<NewWork("DELIVER_WEBHOOK", Len(webhook_deliveries) + 1, t)>>

(* Variants: the delay is subtracted; the delay is forgotten. *)
SettleWorkBackdated(id, t) == <<NewWork("SETTLE_PAYMENT", id, t - ProcessingDelay)>>

SettleWorkAtOnce(id, t) == <<NewWork("SETTLE_PAYMENT", id, t)>>

(* Enqueue(SETTLE_PAYMENT) for the payment about to be inserted. *)
SettleWork(id, t) == <<NewWork("SETTLE_PAYMENT", id, t + ProcessingDelay)>>

(* What the transaction of a create request that read the time t commits. *)
InsertPayment(s, b, t, sub) ==
  LET id == Len(payments) + 1
      p  == NewPayment(s, b, t)
  IN  /\ payments' = Append(payments, p)
      /\ webhook_deliveries' = DeliveriesWith(sub, id, p.status, t)
      /\ outbox_work' = outbox_work \o SettleWork(id, t) \o DeliverWork(sub, t)

TablesInit ==
  /\ clock = 0
  /\ idempotency_keys = [s \in Scope |-> Absent]
  /\ payments = <<>>
  /\ webhook_subscriptions = <<>>
  /\ webhook_deliveries = <<>>
  /\ outbox_work = <<>>

TablesTypeOK ==
  /\ clock \in Nat
  /\ idempotency_keys \in [Scope -> IdempotencyRow]
  /\ payments \in Seq(PaymentRow)
  /\ webhook_subscriptions \in Seq(SubscriptionRow)
  /\ webhook_deliveries \in Seq(DeliveryRow)
  /\ outbox_work \in Seq(OutboxRow)
=============================================================================
