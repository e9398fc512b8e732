------------------------------- MODULE Pipeline -------------------------------
(***************************************************************************)
(* What happens to a payment from its creation on: workers settle it and   *)
(* deliver its webhooks while clients subscribe and ask for retries.  The  *)
(* worker, the retry endpoint and the subscription endpoint share the      *)
(* tables.  A create request is here one that owns its key: it reads the   *)
(* clock, then the subscription to notify, and then commits.               *)
(***************************************************************************)
EXTENDS AfterCreation

CONSTANTS CreateRequest   \* create requests that came to own their key

VARIABLES
  stage,    \* the statement a create request executes next
  ask,      \* what it asks: an account and key, and a body
  now,      \* the time it read
  target,   \* the subscription its transaction notifies
  began,    \* history: the true time at which it read the clock
  heard,    \* history: how many subscriptions there were when it read them
  made      \* history: the payment it made, 0 for none

requestVars == <<stage, ask, now, target, began, heard, made>>
vars == <<clock, tables, requestVars, workerVars, retryVars>>

Ask == [scope : Scope, body : Body]

Init ==
  /\ TablesInit /\ WorkerInit /\ RetryInit
  /\ stage = [r \in CreateRequest |-> "idle"]
  /\ ask \in [CreateRequest -> Ask]
  /\ now = [r \in CreateRequest |-> 0]
  /\ target = [r \in CreateRequest |-> NoSubscription]
  /\ began = [r \in CreateRequest |-> 0]
  /\ heard = [r \in CreateRequest |-> 0]
  /\ made = [r \in CreateRequest |-> NoPayment]

RequestTypeOK ==
  /\ stage \in [CreateRequest -> {"idle", "work", "commit", "done"}]
  /\ ask \in [CreateRequest -> Ask]
  /\ now \in [CreateRequest -> Nat]
  /\ target \in [CreateRequest -> {NoSubscription} \cup DOMAIN webhook_subscriptions]
  /\ began \in [CreateRequest -> Nat]
  /\ heard \in [CreateRequest -> 0..Len(webhook_subscriptions)]
  /\ made \in [CreateRequest -> {NoPayment} \cup DOMAIN payments]

TypeOK == TablesTypeOK /\ WorkerTypeOK /\ RetryTypeOK /\ RequestTypeOK

(* Execute reads the clock.  Bound: the settlement falls due within        *)
(* MaxTime.                                                                *)
Arrive(r) ==
  /\ stage[r] = "idle"
  /\ \E t \in Now :
       /\ t + ProcessingDelay =< MaxTime
       /\ now' = [now EXCEPT ![r] = t]
  /\ began' = [began EXCEPT ![r] = clock]
  /\ stage' = [stage EXCEPT ![r] = "work"]
  /\ UNCHANGED <<tables, ask, target, heard, made>>

(* Its transaction has inserted the payment and reads the subscription. *)
Work(r) ==
  /\ stage[r] = "work"
  /\ \E sub \in SubscriptionToNotify(ask[r].scope[1], CreationStatus(ask[r].body.token)) :
       target' = [target EXCEPT ![r] = sub]
  /\ heard' = [heard EXCEPT ![r] = Len(webhook_subscriptions)]
  /\ stage' = [stage EXCEPT ![r] = "commit"]
  /\ UNCHANGED <<tables, ask, now, began, made>>

(* What it wrote becomes visible.  A request that fails goes no further.   *)
Commit(r) ==
  /\ stage[r] = "commit"
  /\ InsertPayment(ask[r].scope, ask[r].body, now[r], target[r])
  /\ made' = [made EXCEPT ![r] = Len(payments) + 1]
  /\ stage' = [stage EXCEPT ![r] = "done"]
  /\ UNCHANGED <<idempotency_keys, webhook_subscriptions, ask, now, target, began, heard>>

Creating(r) ==
  (Arrive(r) \/ Work(r) \/ Commit(r)) /\ UNCHANGED <<clock, workerVars, retryVars>>

Subscription == SubscriptionNext /\ UNCHANGED <<clock, requestVars, workerVars, retryVars>>

Working(w) == WorkerStep(w) /\ UNCHANGED <<clock, requestVars, retryVars>>

Faults ==
  \E w \in Worker :
    (WorkerFails(w) \/ WorkerFailsAfter(w)) /\ UNCHANGED <<clock, requestVars, retryVars>>

Retrying == RetryNext /\ UNCHANGED <<clock, requestVars, workerVars>>

Passing == Tick /\ UNCHANGED <<tables, requestVars, workerVars, retryVars>>

Next ==
  \/ \E r \in CreateRequest : Creating(r)
  \/ Subscription \/ Faults \/ Retrying \/ Passing
  \/ \E w \in Worker : Working(w)

Spec == Init /\ [][Next]_vars

(* Time passes and every ticker keeps calling its worker. *)
Fairness == WF_vars(Passing) /\ \A w \in Worker : WF_vars(Working(w))

FairSpec == Spec /\ Fairness

-----------------------------------------------------------------------------
(* Properties. *)

(* A payment leaves PROCESSING once, for the status its token dictates,    *)
(* and its row never changes again.                                        *)
SettledOnce ==
  [][\A i \in DOMAIN payments :
       payments'[i] # payments[i] =>
         /\ payments[i].status = "PROCESSING"
         /\ payments'[i].status = SettledStatus(payments[i].body.token)]_vars

(* Nothing happens before its time, although clocks are off by Skew:       *)
(* - whenever a payment is seen settled, the processing delay has passed,  *)
(*   in true time, since its request read the clock, but for the skew of   *)
(*   the request's clock and of the worker's;                              *)
(* - every POST was made for a work row that was due when its batch began, *)
(*   by the clock of that batch; a retry's POST answers to its own row.    *)
NothingEarly ==
  /\ \A r \in CreateRequest :
       stage[r] = "done" /\ payments[made[r]].status \in TerminalStatus =>
         clock + 2 * Skew >= began[r] + ProcessingDelay
  /\ \A n \in DOMAIN sends : outbox_work[sends[n].row].due_at =< sends[n].now

(* The statuses of the payment of r that subscription j must hear of: the  *)
(* creation's only if the request found j when it read the subscriptions,  *)
(* the settlement's in any case.                                           *)
ToHear(r, j) ==
  (IF j =< heard[r] THEN {"PROCESSING"} ELSE {})
    \cup ({payments[made[r]].status} \cap TerminalStatus)

(* No event goes missing and none is announced that should not be: of a    *)
(* payment, a subscription committed before it has exactly the deliveries  *)
(* of the events it lists among those of ToHear.  The one that a create    *)
(* request may miss is its own payment.processing, for a subscription      *)
(* committed between LoadActive and the request's commit.                  *)
EventsAnnounced ==
  \A r \in CreateRequest, j \in DOMAIN webhook_subscriptions :
    /\ stage[r] = "done"
    /\ webhook_subscriptions[j].account = payments[made[r]].account
    /\ webhook_subscriptions[j].since < made[r]
    => {webhook_deliveries[d].event_type :
          d \in {d \in DOMAIN webhook_deliveries : webhook_deliveries[d].payment_id = made[r]}}
       = {EventTypeForStatus(st) : st \in ToHear(r, j)} \cap webhook_subscriptions[j].events

(* "PROCESSING é transitório e sempre termina em APPROVED ou REJECTED"     *)
(* (README): every payment created is settled in the end.                  *)
ProcessingEnds ==
  \A r \in CreateRequest :
    stage[r] = "done" ~> stage[r] = "done" /\ payments[made[r]].status \in TerminalStatus

(* An error of a batch is only logged and its process goes on: whatever    *)
(* fails, as long as faults stop, every row of the outbox is taken in the  *)
(* end, those too that a full batch left behind or a rolled back claim     *)
(* gave up.  Clients ask for finitely many retries.                        *)
EveryRowTaken == <>[](Unclaimed = {})

(* Every delivery, first or retried, is attempted in the end and leaves    *)
(* PENDING for good: clients ask for finitely many retries.                *)
DeliveriesConclude ==
  <>[](\A d \in DOMAIN webhook_deliveries : webhook_deliveries[d].status # "PENDING")

(* Retry acts "unless it is already SENT" (retry_delivery.go): a delivery  *)
(* that was SENT is never set back to PENDING.                             *)
SentIsNotRetried ==
  [][\A d \in DOMAIN webhook_deliveries :
       webhook_deliveries[d].status = "SENT" => webhook_deliveries'[d].status # "PENDING"]_vars
=============================================================================
