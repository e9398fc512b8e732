---------------------------- MODULE RetryDelivery ----------------------------
(***************************************************************************)
(* POST /v1/webhook-deliveries/{id}/retry: RetryDeliveryUseCase.Execute.   *)
(* The delivery is read outside the transaction that re-enqueues it.       *)
(***************************************************************************)
EXTENDS Database

CONSTANTS RetryRequest   \* retry requests, each sent once

VARIABLES
  rstage,      \* where the request is
  rdelivery,   \* the delivery it names
  ranswer      \* the HTTP status it was answered, 0 for none yet

retryVars == <<rstage, rdelivery, ranswer>>

RetryInit ==
  /\ rstage = [c \in RetryRequest |-> "load"]
  /\ rdelivery = [c \in RetryRequest |-> 0]
  /\ ranswer = [c \in RetryRequest |-> 0]

RetryTypeOK ==
  /\ rstage \in [RetryRequest -> {"load", "enqueue", "done"}]
  /\ rdelivery \in [RetryRequest -> {0} \cup DOMAIN webhook_deliveries]
  /\ ranswer \in [RetryRequest -> {0, 200, 404, 409, 500}]

RetryAnswer(c, status) ==
  /\ rstage' = [rstage EXCEPT ![c] = "done"]
  /\ ranswer' = [ranswer EXCEPT ![c] = status]

(* FindByIDForAccount joins the delivery's subscription to its account. *)
BelongsTo(d, a) ==
  webhook_subscriptions[webhook_deliveries[d].subscription_id].account = a

RetryLoad(c) ==
  /\ rstage[c] = "load"
  /\ \E d \in DOMAIN webhook_deliveries, a \in Account :
       /\ rdelivery' = [rdelivery EXCEPT ![c] = d]
       /\ \/ ~BelongsTo(d, a) /\ RetryAnswer(c, 404)
          \/ BelongsTo(d, a) /\ webhook_deliveries[d].status = "SENT" /\ RetryAnswer(c, 409)
          \/ /\ BelongsTo(d, a)
             /\ webhook_deliveries[d].status # "SENT"
             /\ rstage' = [rstage EXCEPT ![c] = "enqueue"]
             /\ UNCHANGED ranswer
  /\ UNCHANGED tables

(* Variant: the status is reset and nothing is enqueued. *)
WriteRetryNoEnqueue(c) ==
  /\ webhook_deliveries' = [webhook_deliveries EXCEPT ![rdelivery[c]].status = "PENDING"]
  /\ UNCHANGED <<idempotency_keys, payments, webhook_subscriptions, outbox_work, rdelivery>>

(* UpdateStatus and Enqueue, in one transaction. *)
WriteRetry(c) ==
  /\ webhook_deliveries' = [webhook_deliveries EXCEPT ![rdelivery[c]].status = "PENDING"]
  /\ \E t \in Now :
       outbox_work' = Append(outbox_work, NewWork("DELIVER_WEBHOOK", rdelivery[c], t))
  /\ UNCHANGED <<idempotency_keys, payments, webhook_subscriptions, rdelivery>>

RetryCommit(c) ==
  /\ rstage[c] = "enqueue"
  /\ WriteRetry(c)
  /\ RetryAnswer(c, 200)

(* The request ends early, before or after its transaction committed. *)
RetryFails(c) ==
  /\ rstage[c] = "enqueue"
  /\ RetryAnswer(c, 500)
  /\ \/ UNCHANGED <<tables, rdelivery>>
     \/ WriteRetry(c)

RetryNext == \E c \in RetryRequest : RetryLoad(c) \/ RetryCommit(c) \/ RetryFails(c)
=============================================================================
