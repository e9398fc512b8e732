------------------------------- MODULE MCService -------------------------------
(* A small instance of Service for TLC. *)
EXTENDS Service

CONSTANTS p1, p2

Shop == [HTTP_ADDR |-> Unset, DATABASE_URL |-> Given(1, "postgres"),
         ACCOUNT_KEY_ID |-> Given(4, <<"shop">>),
         ACCOUNT_KEY_SECRET |-> Given(16, <<"s", ":", "t">>),
         WEBHOOK_SECRET_ENC_KEY |-> Given(32, "key1"),
         PROCESSING_DELAY |-> Given(0, <<>>), IDEMPOTENCY_LEASE |-> Unset,
         WORKER_POLL_INTERVAL |-> Unset, WEBHOOK_TIMEOUT |-> Unset]

(* The shop under a new encryption key, another account with the same      *)
(* secret, and environments that do not pass.                              *)
Environments ==
  {Shop,
   [Shop EXCEPT !.WEBHOOK_SECRET_ENC_KEY = Given(32, "key2")],
   [Shop EXCEPT !.ACCOUNT_KEY_ID = Given(5, <<"store">>)],
   [Shop EXCEPT !.WEBHOOK_TIMEOUT = Given(0, <<>>)],
   [Shop EXCEPT !.PROCESSING_DELAY = Given(-1, <<>>)],
   [Shop EXCEPT !.WEBHOOK_SECRET_ENC_KEY = Given(16, "key3")],
   [Shop EXCEPT !.ACCOUNT_KEY_SECRET = Given(15, <<"s">>)],
   [Shop EXCEPT !.DATABASE_URL = Malformed]}

Basic(text) == [scheme |-> "Basic", decodes |-> TRUE, text |-> text]

Headers ==
  {Basic(<<"shop", ":", "s", ":", "t">>), Basic(<<"store", ":", "s", ":", "t">>),
   Basic(<<"shop", ":", "s">>), Basic(<<"shop">>),
   [scheme |-> "none", decodes |-> FALSE, text |-> <<>>]}

Post == [key |-> "k", decodes |-> TRUE, amount |-> 1, currency |-> "BRL",
         token |-> "card_approved"]

PaymentPosts ==
  {Post, [Post EXCEPT !.amount = 0], [Post EXCEPT !.amount = -1],
   [Post EXCEPT !.currency = "USD"], [Post EXCEPT !.token = "card"],
   [Post EXCEPT !.key = ""], [Post EXCEPT !.decodes = FALSE]}

Subscription == [decodes |-> TRUE, scheme |-> "https", events |-> {"payment.processing"}]

SubscriptionPosts ==
  {Subscription, [Subscription EXCEPT !.scheme = "ftp"], [Subscription EXCEPT !.events = {}],
   [Subscription EXCEPT !.events = {"payment.refunded"}],
   [Subscription EXCEPT !.decodes = FALSE]}

DeliveryIDs ==
  {[prefix |-> "dlv_", uuid |-> 1], [prefix |-> "pay_", uuid |-> 1],
   [prefix |-> "dlv_", uuid |-> 0]}
=============================================================================
