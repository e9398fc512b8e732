------------------------------- MODULE Service -------------------------------
(***************************************************************************)
(* The processes of cmd/dummypay around the use cases: a process reads its *)
(* environment, migrates the schema, seeds its account and then serves     *)
(* requests and runs a worker, until it crashes and is started again,      *)
(* possibly with another environment.  Processes share the database alone. *)
(*                                                                         *)
(* What a use case does in several statements is one step here: how those  *)
(* interleave is what CreatePayment, Worker and RetryDelivery model.       *)
(* Requests that are refused change nothing and are not steps.             *)
(***************************************************************************)
EXTENDS Config, HttpApi

CONSTANTS
  Process,            \* server processes
  Env,                \* environments they are started with
  Header,             \* Authorization headers clients send
  PaymentPost,        \* requests to POST /v1/payments, valid or not
  SubscriptionPost,   \* requests to POST /v1/webhook-subscriptions
  DeliveryID,         \* identifiers in POST /v1/webhook-deliveries/{id}/retry
  MaxPayments,        \* bound on the payments created
  MaxCrashes          \* bound on the crashes

ASSUME BoundsAssumption == MaxPayments \in Nat /\ MaxCrashes \in Nat

(* Keys, secrets and decoded headers are texts; durations are int64 once   *)
(* they parse; an identifier is a prefix and what follows it.              *)
ASSUME EnvAssumption ==
  \A env \in Env :
    /\ env.ACCOUNT_KEY_ID.value \in Seq(STRING)
    /\ env.ACCOUNT_KEY_SECRET.value \in Seq(STRING)
    /\ env.PROCESSING_DELAY.size \in Int /\ env.IDEMPOTENCY_LEASE.size \in Int
    /\ env.WORKER_POLL_INTERVAL.size \in Int /\ env.WEBHOOK_TIMEOUT.size \in Int

ASSUME RequestAssumption ==
  /\ \A h \in Header : h.text \in Seq(STRING)
  /\ DeliveryID \subseteq [prefix : STRING, uuid : Nat]

VARIABLES
  schema,                  \* migrations applied
  accounts,                \* the key_id of each account, its id being the index
  payments,
  webhook_subscriptions,
  webhook_deliveries,
  due,                     \* deliveries with work rows PENDING, however many
  pstage,                  \* how far each process is
  config,                  \* the Config it loaded
  version,                 \* the migrations it knows to be applied
  accountID,               \* the account it seeded
  crashes,                 \* how many crashes there were
  told,                    \* history: secrets that reached their subscriber
  posts,                   \* history: the webhooks POSTed
  retries                  \* history: the retries granted

database == <<schema, accounts, payments, webhook_subscriptions, webhook_deliveries, due>>
process == <<pstage, config, version, accountID>>
history == <<told, posts, retries>>
vars == <<database, process, history, crashes>>

NoConfig == <<>>

Init ==
  /\ schema = 0
  /\ accounts = <<>> /\ payments = <<>>
  /\ webhook_subscriptions = <<>> /\ webhook_deliveries = <<>> /\ due = {}
  /\ pstage = [p \in Process |-> "off"]
  /\ config = [p \in Process |-> NoConfig]
  /\ version = [p \in Process |-> 0]
  /\ accountID = [p \in Process |-> 0]
  /\ crashes = 0
  /\ told = {} /\ posts = {} /\ retries = {}

-----------------------------------------------------------------------------
(* Startup. *)

PGoTo(p, st) == pstage' = [pstage EXCEPT ![p] = st]

(* log.Fatal, or a crash: nothing of the process is left. *)
Exit(p) ==
  /\ PGoTo(p, "off")
  /\ config' = [config EXCEPT ![p] = NoConfig]
  /\ version' = [version EXCEPT ![p] = 0]
  /\ accountID' = [accountID EXCEPT ![p] = 0]

(* config.Load; a process whose environment does not pass exits at once. *)
Start(p) ==
  /\ pstage[p] = "off"
  /\ \E env \in Env : Loads(env) /\ config' = [config EXCEPT ![p] = ConfigOf(env)]
  /\ PGoTo(p, "list")
  /\ UNCHANGED <<database, version, accountID, history, crashes>>

Migrations == 6

(* goose: without a lock, it lists what is applied, then applies the rest, *)
(* each migration in a transaction of its own.                             *)
ListMigrations(p) ==
  /\ pstage[p] = "list"
  /\ version' = [version EXCEPT ![p] = schema]
  /\ PGoTo(p, "migrate")
  /\ UNCHANGED <<database, config, accountID, history, crashes>>

(* Variants: a migration that fails is only logged; a process waits until  *)
(* nobody else migrates.                                                   *)
MigrateOrGoOn(p) ==
  /\ pstage[p] = "migrate"
  /\ version[p] < Migrations
  /\ schema' = IF schema = version[p] THEN schema + 1 ELSE schema
  /\ version' = [version EXCEPT ![p] = IF schema = version[p] THEN schema + 1 ELSE Migrations]
  /\ UNCHANGED <<accounts, payments, webhook_subscriptions, webhook_deliveries, due,
                 pstage, config, accountID, history, crashes>>

MigrateAlone(p) ==
  /\ \A q \in Process \ {p} : pstage[q] # "migrate"
  /\ MigrateOrGoOn(p)

(* Somebody else applied it in the meantime: CREATE TABLE fails. *)
Migrate(p) ==
  /\ pstage[p] = "migrate"
  /\ version[p] < Migrations
  /\ \/ /\ schema = version[p]
        /\ schema' = schema + 1
        /\ version' = [version EXCEPT ![p] = schema + 1]
        /\ UNCHANGED <<pstage, config, accountID>>
     \/ schema # version[p] /\ Exit(p) /\ UNCHANGED schema
  /\ UNCHANGED <<accounts, payments, webhook_subscriptions, webhook_deliveries, due,
                 history, crashes>>

(* Variant: the INSERT alone, on a key_id that is not unique. *)
SeedAccountAnew(p) ==
  /\ pstage[p] = "migrate"
  /\ version[p] = Migrations
  /\ Len(accounts) < 3
  /\ accounts' = Append(accounts, config[p].AccountKeyID)
  /\ accountID' = [accountID EXCEPT ![p] = Len(accounts) + 1]
  /\ PGoTo(p, "serving")
  /\ UNCHANGED <<schema, payments, webhook_subscriptions, webhook_deliveries, due,
                 config, version, history, crashes>>

(* INSERT ... ON CONFLICT (key_id) DO UPDATE ... RETURNING id; the process *)
(* then starts its ticker and listens.                                     *)
SeedAccount(p) ==
  /\ pstage[p] = "migrate"
  /\ version[p] = Migrations
  /\ \/ \E i \in DOMAIN accounts :
          /\ accounts[i] = config[p].AccountKeyID
          /\ accountID' = [accountID EXCEPT ![p] = i]
          /\ UNCHANGED accounts
     \/ /\ \A i \in DOMAIN accounts : accounts[i] # config[p].AccountKeyID
        /\ accounts' = Append(accounts, config[p].AccountKeyID)
        /\ accountID' = [accountID EXCEPT ![p] = Len(accounts) + 1]
  /\ PGoTo(p, "serving")
  /\ UNCHANGED <<schema, payments, webhook_subscriptions, webhook_deliveries, due,
                 config, version, history, crashes>>

Starting(p) == ListMigrations(p) \/ Migrate(p) \/ SeedAccount(p)

Crash(p) ==
  /\ pstage[p] # "off"
  /\ crashes < MaxCrashes
  /\ crashes' = crashes + 1
  /\ Exit(p)
  /\ UNCHANGED <<database, history>>

-----------------------------------------------------------------------------
(* Requests.  A row's "by", the decoded text of the Authorization header   *)
(* of the request that caused it, is not a column.                         *)

(* The middleware lets the request through to a process that serves. *)
Admitted(p, h) == pstage[p] = "serving" /\ basicAuth(config[p], h) = Passed

ActiveSubscription(a) ==
  {j \in DOMAIN webhook_subscriptions : webhook_subscriptions[j].account = a}

(* BuildPayload: rendered once, when the delivery is created. *)
BuildPayload(id, status) == [payment_id |-> id, status |-> status]

PostPayment(p) ==
  /\ Len(payments) < MaxPayments
  /\ \E h \in Header, q \in PaymentPost :
       /\ Admitted(p, h)
       /\ CheckPayment(q) = Passed
       /\ payments' = Append(payments,
            [account |-> accountID[p], token |-> q.token, by |-> h.text])
  /\ LET id == Len(payments) + 1
         status == CreationStatus(payments'[id].token)
         subs == {j \in ActiveSubscription(accountID[p]) :
                    ShouldEmitEvent(webhook_subscriptions[j].events,
                                    EventTypeForStatus(status))}
     IN  IF subs = {}
         THEN UNCHANGED <<webhook_deliveries, due>>
         ELSE \E j \in subs :
                /\ webhook_deliveries' = Append(webhook_deliveries,
                     [subscription_id |-> j, payload |-> BuildPayload(id, status),
                      status |-> "PENDING"])
                /\ due' = due \cup {Len(webhook_deliveries) + 1}
  /\ UNCHANGED <<schema, accounts, webhook_subscriptions, process, history, crashes>>

(* EncryptSecret refuses a key that is not 32 bytes long. *)
EncryptSecret(key, secret) ==
  IF key.length # 32 THEN {} ELSE {[key |-> key.bytes, plain |-> secret]}

(* Variant: encryption that does not authenticate. *)
DecryptUnauthenticated(key, sealed) ==
  {IF sealed.key = key.bytes THEN sealed.plain ELSE <<"whsec_", 0>>}

(* Under another key than it was sealed with, a secret does not open. *)
DecryptSecret(key, sealed) ==
  IF sealed.key = key.bytes THEN {sealed.plain} ELSE {}

(* GenerateSecret: no two are the same.  The partial unique index refuses  *)
(* a second subscription.  The response, which alone carries the secret,   *)
(* may not arrive.                                                         *)
PostSubscription(p) ==
  /\ ActiveSubscription(accountID[p]) = {}
  /\ \E h \in Header, q \in SubscriptionPost :
       /\ Admitted(p, h)
       /\ CheckSubscription(q) = Passed
       /\ LET j == Len(webhook_subscriptions) + 1
              secret == <<"whsec_", j>>
          IN  /\ \E sealed \in EncryptSecret(config[p].WebhookSecretEncKey, secret) :
                   webhook_subscriptions' = Append(webhook_subscriptions,
                     [account |-> accountID[p], events |-> q.events,
                      secret |-> sealed, by |-> h.text])
              /\ \/ told' = told \cup {[subscription_id |-> j, secret |-> secret]}
                 \/ UNCHANGED told
  /\ UNCHANGED <<schema, accounts, payments, webhook_deliveries, due, process,
                 posts, retries, crashes>>

(* A delivery of another account's subscription is not found; one that is  *)
(* SENT is not retried.                                                    *)
PostRetry(p) ==
  /\ \E h \in Header, id \in DeliveryID :
       /\ Admitted(p, h)
       /\ \E d \in DecodeID("dlv_", id) \cap DOMAIN webhook_deliveries :
            /\ webhook_subscriptions[webhook_deliveries[d].subscription_id].account = accountID[p]
            /\ webhook_deliveries[d].status # "SENT"
            /\ webhook_deliveries' = [webhook_deliveries EXCEPT ![d].status = "PENDING"]
            /\ due' = due \cup {d}
            /\ retries' = retries \cup {[delivery |-> d, id |-> id, by |-> h.text]}
  /\ UNCHANGED <<schema, accounts, payments, webhook_subscriptions, process,
                 told, posts, crashes>>

-----------------------------------------------------------------------------
(* Delivery.  Any process's worker takes any account's work; without the   *)
(* secret it gives up the batch, and the work left in it is gone.          *)

Sign(secret, body) == <<secret, body>>

Deliver(p) ==
  /\ pstage[p] = "serving"
  /\ \E d \in due :
       LET row == webhook_deliveries[d]
           secrets == DecryptSecret(config[p].WebhookSecretEncKey,
                                    webhook_subscriptions[row.subscription_id].secret)
       IN  \/ /\ secrets = {}
              /\ \E batch \in SUBSET due : d \in batch /\ due' = due \ batch
              /\ UNCHANGED <<webhook_deliveries, posts>>
           \/ /\ due' = due \ {d}
              /\ \E secret \in secrets, status \in {"SENT", "FAILED"} :
                   /\ webhook_deliveries' = [webhook_deliveries EXCEPT ![d].status = status]
                   /\ posts' = posts \cup {[delivery |-> d, body |-> row.payload,
                                            signature |-> Sign(secret, row.payload)]}
  /\ UNCHANGED <<schema, accounts, payments, webhook_subscriptions, process,
                 told, retries, crashes>>

Serving(p) == PostPayment(p) \/ PostSubscription(p) \/ PostRetry(p) \/ Deliver(p)

Next == \E p \in Process : Start(p) \/ Starting(p) \/ Crash(p) \/ Serving(p)

Spec == Init /\ [][Next]_vars

(* A process that was started goes on with its startup; nobody has to      *)
(* start one.                                                              *)
FairSpec == Spec /\ \A p \in Process : WF_vars(Starting(p))

-----------------------------------------------------------------------------
(* Properties. *)

(* Processes configured with one key work on one account, whenever and in  *)
(* whatever order they were started, crashed and started again: the        *)
(* uniqueness of payments per key and account is worth nothing otherwise   *)
(* (spec 3, "accounts").                                                   *)
SameKeySameAccount ==
  \A p, q \in Process :
    /\ pstage[p] = "serving"
    /\ pstage[q] = "serving"
    => (accountID[p] = accountID[q] <=> config[p].AccountKeyID = config[q].AccountKeyID)

(* Whoever runs the processes, what they did they did for a caller that    *)
(* presented the key and the secret configured for the account it is done  *)
(* to: creating a payment, subscribing, retrying a delivery it named.      *)
Presented(text, a) ==
  \E env \in Env :
    /\ env.ACCOUNT_KEY_ID.value = accounts[a]
    /\ text = env.ACCOUNT_KEY_ID.value \o <<":">> \o env.ACCOUNT_KEY_SECRET.value

ActsForItsCaller ==
  /\ \A i \in DOMAIN payments : Presented(payments[i].by, payments[i].account)
  /\ \A j \in DOMAIN webhook_subscriptions :
       Presented(webhook_subscriptions[j].by, webhook_subscriptions[j].account)
  /\ \A r \in retries :
       /\ r.id = [prefix |-> "dlv_", uuid |-> r.delivery]
       /\ Presented(r.by, webhook_subscriptions[
                            webhook_deliveries[r.delivery].subscription_id].account)

(* Every webhook POSTed can be verified by its subscriber: it carries the  *)
(* bytes rendered at its creation, signed with the secret the subscriber   *)
(* was told, whichever process sends it, with whatever encryption key, and *)
(* however often it is retried (ADR-0009).                                 *)
SubscriberCanVerify ==
  \A post \in posts, t \in told :
    LET d == webhook_deliveries[post.delivery]
    IN  d.subscription_id = t.subscription_id =>
          /\ post.body = d.payload
          /\ post.signature = Sign(t.secret, post.body)

(* No process serves before every migration is applied, even when another  *)
(* one migrates at the same time or died halfway (ADR-0011).               *)
ServesAMigratedSchema ==
  \A p \in Process : pstage[p] = "serving" => schema = Migrations

(* A process that got past config.Load runs as the rest of the code takes  *)
(* for granted: NewTicker would panic on an interval that is not positive, *)
(* http.Client takes a timeout of zero for none at all, and a key of       *)
(* another length would fail every subscription.  A delay that is not      *)
(* negative and a positive lease are the DelayAssumption and the           *)
(* LeaseAssumption of the other modules.                                   *)
RunsWithinAssumptions ==
  \A p \in Process : pstage[p] = "serving" =>
    /\ config[p].ProcessingDelay >= 0
    /\ config[p].IdempotencyLease > 0
    /\ config[p].WorkerPollInterval > 0
    /\ config[p].WebhookTimeout > 0
    /\ EncryptSecret(config[p].WebhookSecretEncKey, <<"whsec_", 0>>) # {}

(* Every account that config.Load lets through can be used: the owner who  *)
(* sends key id and secret as HTTP Basic is admitted, even if the secret   *)
(* holds colons.  A key id that holds one cannot be sent that way at all.  *)
OwnersGetIn ==
  \A p \in Process :
    /\ pstage[p] = "serving"
    /\ \A n \in DOMAIN config[p].AccountKeyID : ~IsColon(config[p].AccountKeyID[n])
    => Admitted(p, [scheme |-> "Basic", decodes |-> TRUE,
                    text |-> config[p].AccountKeyID \o <<":">> \o config[p].AccountKeySecret])

(* Processes that race to migrate do not all fail: as long as none         *)
(* crashes, the one that exits leaves the schema to one that goes on, and  *)
(* some process gets to serve.                                             *)
SomebodyServes ==
  (\E p \in Process : pstage[p] \in {"list", "migrate"})
    ~> (crashes > 0 \/ \E p \in Process : pstage[p] = "serving")
=============================================================================
