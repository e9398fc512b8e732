------------------------------- MODULE DummyPay -------------------------------
(***************************************************************************)
(* The whole service: create requests as they run statement by statement,  *)
(* beside workers, retry requests and subscriptions, over one database.    *)
(* It adds to Pipeline how a create request comes to own its key, by the   *)
(* record it read and the time it takes for its token, and loses it again: *)
(* what it read may be out of date by the statement that uses it.          *)
(***************************************************************************)
EXTENDS AfterCreation

CONSTANTS Request, Lease

ASSUME LeaseAssumption == Lease \in Nat \ {0}

VARIABLES stage, ask, now, seen, target, result

CP == INSTANCE CreatePayment

requestVars == <<stage, ask, now, seen, target, result>>
vars == <<clock, tables, requestVars, workerVars, retryVars>>

Init == CP!Init /\ WorkerInit /\ RetryInit

Requesting(r) == CP!RequestNext(r) /\ UNCHANGED <<workerVars, retryVars>>

Subscribing ==
  SubscriptionNext /\ UNCHANGED <<clock, requestVars, workerVars, retryVars>>

Working(w) == WorkerStep(w) /\ UNCHANGED <<clock, requestVars, retryVars>>

WorkerFault(w) ==
  (WorkerFails(w) \/ WorkerFailsAfter(w)) /\ UNCHANGED <<clock, requestVars, retryVars>>

Retrying == RetryNext /\ UNCHANGED <<clock, requestVars, workerVars>>

Passing == Tick /\ UNCHANGED <<tables, requestVars, workerVars, retryVars>>

Next ==
  \/ \E r \in Request : Requesting(r)
  \/ \E w \in Worker : Working(w) \/ WorkerFault(w)
  \/ Subscribing \/ Retrying \/ Passing

Spec == Init /\ [][Next]_vars

(* Requests run on, clients send again until they are answered, every      *)
(* ticker keeps calling its worker, and time passes.                       *)
Fairness ==
  /\ WF_vars(Passing)
  /\ \A w \in Worker : WF_vars(Working(w))
  /\ \A r \in Request :
       /\ WF_vars(CP!Arrive(r) /\ UNCHANGED <<workerVars, retryVars>>)
       /\ WF_vars(CP!Progress(r) /\ UNCHANGED <<workerVars, retryVars>>)

FairSpec == Spec /\ Fairness

-----------------------------------------------------------------------------
(* Properties. *)

(* At most one payment per key, and every 201 carries the response that    *)
(* its creation rendered, even once the worker has settled the payment.    *)
OnePaymentOneAnswer == CP!AtMostOnePayment /\ CP!CompletedIffPayment /\ CP!AnswersAgree

(* Settling, delivering, subscribing and retrying are invisible to what is *)
(* promised to the clients of POST /v1/payments: beside them the create    *)
(* path still implements IdempotentCreate.                                 *)
PromiseKept == CP!KeepsPromise

(* Everything the commit of a create request makes visible hangs together  *)
(* from then on: each payment has exactly one settlement row, due the      *)
(* delay after its creation; and each delivery is of a payment of the      *)
(* subscriber's account, for an event that subscription lists and a status *)
(* that payment has entered, with its payload saying so.                   *)
CommittedTogether ==
  /\ \A i \in DOMAIN payments :
       LET settlements == {n \in DOMAIN outbox_work :
             outbox_work[n].kind = "SETTLE_PAYMENT" /\ outbox_work[n].subject_id = i}
       IN  /\ Cardinality(settlements) = 1
           /\ \A n \in settlements :
                outbox_work[n].due_at = payments[i].created_at + ProcessingDelay
  /\ \A d \in DOMAIN webhook_deliveries :
       LET row == webhook_deliveries[d]
           sub == webhook_subscriptions[row.subscription_id]
       IN  /\ row.payment_id \in DOMAIN payments
           /\ payments[row.payment_id].account = sub.account
           /\ row.event_type \in sub.events
           /\ row.payload_status \in {"PROCESSING", payments[row.payment_id].status}
           /\ row.event_type = EventTypeForStatus(row.payload_status)

(* A payment's later events are announced even when its creation raced     *)
(* with the subscription: a settled payment whose account had subscribed   *)
(* before that payment was committed has its terminal event, whatever the  *)
(* create request read before.                                             *)
TerminalEventAnnounced ==
  \A i \in DOMAIN payments, j \in DOMAIN webhook_subscriptions :
    /\ payments[i].status \in TerminalStatus
    /\ webhook_subscriptions[j].account = payments[i].account
    /\ webhook_subscriptions[j].since < i
    /\ EventTypeForStatus(payments[i].status) \in webhook_subscriptions[j].events
    => \E d \in DOMAIN webhook_deliveries :
         /\ webhook_deliveries[d].payment_id = i
         /\ webhook_deliveries[d].event_type = EventTypeForStatus(payments[i].status)

(* As long as workers do not fail, a client that keeps sending gets its    *)
(* payment and the payment gets settled.                                   *)
RequestedIsSettled ==
  \A r \in Request :
    stage[r] # "idle" ~>
      \/ result[r].status = 422
      \/ /\ result[r].status = 201
         /\ payments[result[r].response.payment_id].status \in TerminalStatus
=============================================================================
