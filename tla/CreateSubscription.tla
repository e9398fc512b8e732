-------------------------- MODULE CreateSubscription --------------------------
(***************************************************************************)
(* POST /v1/webhook-subscriptions: CreateSubscriptionUseCase.Execute.  Its *)
(* only statement is an INSERT, which the partial unique index on active   *)
(* rows refuses when the account has one; a refusal changes nothing.       *)
(***************************************************************************)
EXTENDS Database

CONSTANTS EventSets   \* the event lists clients subscribe with

ASSUME EventSetsAssumption == EventSets \subseteq (SUBSET EventType) \ {{}}

Subscribe(a, events) ==
  /\ LoadActive(a) = {}
  /\ webhook_subscriptions' = Append(webhook_subscriptions, NewSubscription(a, events))
  /\ UNCHANGED <<idempotency_keys, payments, webhook_deliveries, outbox_work>>

SubscriptionNext == \E a \in Account, events \in EventSets : Subscribe(a, events)
=============================================================================
