-------------------------------- MODULE Worker --------------------------------
(***************************************************************************)
(* The background worker: Worker.ProcessBatch over outbox_work, called by  *)
(* the ticker of cmd/dummypay.  One worker per server process; every       *)
(* process runs the same loop against the same tables.                     *)
(*                                                                         *)
(* A batch reads the clock once, marks its rows DONE when it claims them   *)
(* and only then processes them one by one.  The first item that fails     *)
(* ends the batch.                                                         *)
(***************************************************************************)
EXTENDS Database, FiniteSets

CONSTANTS
  Worker,       \* server processes
  BatchSize,    \* batchSize of the ticker
  FaultsUntil   \* bound: no fault strikes a worker after this time

ASSUME BatchAssumption == BatchSize \in Nat \ {0}
ASSUME WorkerFaultsAssumption == FaultsUntil \in Int

VARIABLES
  wstage,    \* what the worker does next
  wnow,      \* the time its batch read
  batch,     \* claimed rows not begun yet
  item,      \* the row in hand
  loaded,    \* the payment a settlement loaded
  wtarget,   \* the subscription a settlement notifies
  reply,     \* the status code the receiver answered, 0 for none
  sends      \* history: for each POST, in order, its delivery and the reply to
             \* it, the work row it was made for and the time its batch read

workerVars == <<wstage, wnow, batch, item, loaded, wtarget, reply, sends>>
workerRegisters == <<wnow, batch, item, loaded, wtarget, reply>>

WorkerStage == {"idle", "claiming", "next", "settle", "update", "commit",
                "deliver", "send", "record"}

NoRow == 0

(* What a POST is answered: a status code, or none. *)
HttpReply == {0, 200, 500}

PostRecord == [delivery : DOMAIN webhook_deliveries, reply : HttpReply,
               row : DOMAIN outbox_work, now : Nat]

Unloaded == [status |-> "none"]

WorkerInit ==
  /\ wstage = [w \in Worker |-> "idle"]
  /\ wnow = [w \in Worker |-> 0]
  /\ batch = [w \in Worker |-> {}]
  /\ item = [w \in Worker |-> NoRow]
  /\ loaded = [w \in Worker |-> Unloaded]
  /\ wtarget = [w \in Worker |-> NoSubscription]
  /\ reply = [w \in Worker |-> 0]
  /\ sends = <<>>

WorkerTypeOK ==
  /\ wstage \in [Worker -> WorkerStage]
  /\ wnow \in [Worker -> Nat]
  /\ batch \in [Worker -> SUBSET DOMAIN outbox_work]
  /\ item \in [Worker -> {NoRow} \cup DOMAIN outbox_work]
  /\ loaded \in [Worker -> PaymentRow \cup {Unloaded}]
  /\ wtarget \in [Worker -> Nat]
  /\ reply \in [Worker -> Nat]
  /\ sends \in Seq(PostRecord)

-----------------------------------------------------------------------------

Subject(w) == outbox_work[item[w]].subject_id

WGoTo(w, st) == wstage' = [wstage EXCEPT ![w] = st]

(* The item is finished; the worker's registers for it are clear again. *)
ClearItem(w) ==
  /\ item' = [item EXCEPT ![w] = NoRow]
  /\ loaded' = [loaded EXCEPT ![w] = Unloaded]
  /\ wtarget' = [wtarget EXCEPT ![w] = NoSubscription]
  /\ reply' = [reply EXCEPT ![w] = 0]

ItemDone(w) ==
  /\ WGoTo(w, "next")
  /\ ClearItem(w)
  /\ UNCHANGED <<wnow, batch>>

(* ProcessBatch returns; what is left of the batch is forgotten. *)
EndBatch(w) ==
  /\ WGoTo(w, "idle")
  /\ wnow' = [wnow EXCEPT ![w] = 0]
  /\ batch' = [batch EXCEPT ![w] = {}]
  /\ ClearItem(w)

-----------------------------------------------------------------------------
(* Claiming. *)

(* Variant: no SKIP LOCKED. *)
RowLockedNever(i) == FALSE

RowLocked(i) == \E v \in Worker : wstage[v] = "claiming" /\ i \in batch[v]

(* Variant: the due time is not looked at. *)
ClaimableAnyTime(t) ==
  {i \in DOMAIN outbox_work : outbox_work[i].state = "PENDING" /\ ~RowLocked(i)}

(* state = 'PENDING' AND due_at <= now, FOR UPDATE SKIP LOCKED. *)
Claimable(t) ==
  {i \in DOMAIN outbox_work :
     outbox_work[i].state = "PENDING" /\ outbox_work[i].due_at =< t /\ ~RowLocked(i)}

(* ORDER BY due_at LIMIT batch. *)
Batches(t) ==
  {S \in SUBSET Claimable(t) :
     /\ S # {}
     /\ Cardinality(S) =< BatchSize
     /\ S # Claimable(t) => Cardinality(S) = BatchSize
     /\ \A i \in S, j \in Claimable(t) \ S : outbox_work[i].due_at =< outbox_work[j].due_at}

(* The claim's UPDATE has locked its rows; it is one statement, committed  *)
(* on its own.                                                             *)
ClaimDue(w) ==
  /\ wstage[w] = "idle"
  /\ \E t \in Now : \E S \in Batches(t) :
       /\ wnow' = [wnow EXCEPT ![w] = t]
       /\ batch' = [batch EXCEPT ![w] = S]
  /\ WGoTo(w, "claiming")
  /\ UNCHANGED <<tables, item, loaded, wtarget, reply, sends>>

(* Variant: the claim leaves its rows PENDING. *)
MarkNothing(S) == UNCHANGED outbox_work

MarkDone(S) ==
  outbox_work' = [i \in DOMAIN outbox_work |->
                    IF i \in S THEN [outbox_work[i] EXCEPT !.state = "DONE"]
                               ELSE outbox_work[i]]

ClaimCommits(w) ==
  /\ wstage[w] = "claiming"
  /\ MarkDone(batch[w])
  /\ WGoTo(w, "next")
  /\ UNCHANGED <<idempotency_keys, payments, webhook_subscriptions,
                 webhook_deliveries, workerRegisters, sends>>

NextItem(w) ==
  /\ wstage[w] = "next"
  /\ \E i \in batch[w] :
       /\ item' = [item EXCEPT ![w] = i]
       /\ batch' = [batch EXCEPT ![w] = @ \ {i}]
       /\ WGoTo(w, IF outbox_work[i].kind = "SETTLE_PAYMENT" THEN "settle" ELSE "deliver")
  /\ UNCHANGED <<tables, wnow, loaded, wtarget, reply, sends>>

BatchDone(w) ==
  /\ wstage[w] = "next"
  /\ batch[w] = {}
  /\ EndBatch(w)
  /\ UNCHANGED <<tables, sends>>

-----------------------------------------------------------------------------
(* settlePayment, in one transaction. *)

(* Variant: the status check is the wrong way round. *)
SettleLoadInverted(w) ==
  /\ wstage[w] = "settle"
  /\ payments[Subject(w)].status = "PROCESSING"
  /\ ItemDone(w)
  /\ UNCHANGED <<tables, sends>>

SettleLoad(w) ==
  /\ wstage[w] = "settle"
  /\ LET p == payments[Subject(w)]
     IN  IF p.status # "PROCESSING"
         THEN ItemDone(w)
         ELSE /\ loaded' = [loaded EXCEPT ![w] = p]
              /\ WGoTo(w, "update")
              /\ UNCHANGED <<wnow, batch, item, wtarget, reply>>
  /\ UNCHANGED <<tables, sends>>

PaymentLocked(id) == \E v \in Worker : wstage[v] = "commit" /\ Subject(v) = id

Settled(w) == Settle(loaded[w], wnow[w])

(* Variant: only payments announced before are announced again. *)
SettleUpdateIfAnnounced(w) ==
  /\ wstage[w] = "update"
  /\ ~PaymentLocked(Subject(w))
  /\ \E sub \in SubscriptionToNotify(loaded[w].account, Settled(w).status) :
       wtarget' = [wtarget EXCEPT ![w] =
         IF \E d \in DOMAIN webhook_deliveries :
              webhook_deliveries[d].payment_id = Subject(w)
         THEN sub ELSE NoSubscription]
  /\ WGoTo(w, "commit")
  /\ UNCHANGED <<tables, wnow, batch, item, loaded, reply, sends>>

(* Update takes the row lock; LoadActive reads. *)
SettleUpdate(w) ==
  /\ wstage[w] = "update"
  /\ ~PaymentLocked(Subject(w))
  /\ \E sub \in SubscriptionToNotify(loaded[w].account, Settled(w).status) :
       wtarget' = [wtarget EXCEPT ![w] = sub]
  /\ WGoTo(w, "commit")
  /\ UNCHANGED <<tables, wnow, batch, item, loaded, reply, sends>>

(* Variant: the stored response is brought up to date. *)
WriteSettlementAndResponse(w) ==
  LET id == Subject(w)
  IN  /\ payments' = [payments EXCEPT ![id] = Settled(w)]
      /\ webhook_deliveries' = DeliveriesWith(wtarget[w], id, Settled(w).status, wnow[w])
      /\ outbox_work' = outbox_work \o DeliverWork(wtarget[w], wnow[w])
      /\ idempotency_keys' =
           [idempotency_keys EXCEPT ![<<Settled(w).account, Settled(w).key>>].response =
              Encode(id, Settled(w))]
      /\ UNCHANGED webhook_subscriptions

WriteSettlement(w) ==
  LET id == Subject(w)
  IN  /\ payments' = [payments EXCEPT ![id] = Settled(w)]
      /\ webhook_deliveries' = DeliveriesWith(wtarget[w], id, Settled(w).status, wnow[w])
      /\ outbox_work' = outbox_work \o DeliverWork(wtarget[w], wnow[w])
      /\ UNCHANGED <<idempotency_keys, webhook_subscriptions>>

SettleCommit(w) ==
  /\ wstage[w] = "commit"
  /\ WriteSettlement(w)
  /\ ItemDone(w)
  /\ UNCHANGED sends

-----------------------------------------------------------------------------
(* deliverWebhook. *)

(* FindByID and LoadDeliveryTarget read what never changes: the payload,   *)
(* the URL and the secret.                                                 *)
DeliverLoad(w) ==
  /\ wstage[w] = "deliver"
  /\ Subject(w) \in DOMAIN webhook_deliveries
  /\ WGoTo(w, "send")
  /\ UNCHANGED <<tables, workerRegisters, sends>>

Post(w, h) == [delivery |-> Subject(w), reply |-> h, row |-> item[w], now |-> wnow[w]]

(* The POST: answered with a status code, or failing without one. *)
Send(w) ==
  /\ wstage[w] = "send"
  /\ \E h \in HttpReply :
       /\ reply' = [reply EXCEPT ![w] = h]
       /\ sends' = Append(sends, Post(w, h))
  /\ WGoTo(w, "record")
  /\ UNCHANGED <<tables, wnow, batch, item, loaded, wtarget>>

(* Variant: a transport failure leaves the delivery as it was. *)
OutcomeOfAnswered(h) ==
  IF h = 0 THEN "PENDING" ELSE IF 200 =< h /\ h < 300 THEN "SENT" ELSE "FAILED"

(* Variant: what is not a failure is a success. *)
OutcomeUnlessServerError(h) == IF h < 500 THEN "SENT" ELSE "FAILED"

OutcomeOf(h) == IF 200 =< h /\ h < 300 THEN "SENT" ELSE "FAILED"

(* Variant: an attempt without an answer is not counted. *)
AttemptedIfAnswered(row, h, t) ==
  [row EXCEPT !.status = OutcomeOf(h),
              !.attempt_count = IF h = 0 THEN @ ELSE @ + 1,
              !.attempted = TRUE,
              !.last_attempted_at = t,
              !.last_http_status = h]

(* A delivery after an attempt at time t that was answered h. *)
Attempted(row, h, t) ==
  [row EXCEPT !.status = OutcomeOf(h),
              !.attempt_count = @ + 1,
              !.attempted = TRUE,
              !.last_attempted_at = t,
              !.last_http_status = h]

RecordAttempt(w) ==
  /\ wstage[w] = "record"
  /\ webhook_deliveries' =
       [webhook_deliveries EXCEPT ![Subject(w)] = Attempted(@, reply[w], wnow[w])]
  /\ ItemDone(w)
  /\ UNCHANGED <<idempotency_keys, payments, webhook_subscriptions, outbox_work, sends>>

-----------------------------------------------------------------------------
(* Variant: the loop around ProcessBatch ends at an error. *)
WorkerFailsForGood(w) ==
  /\ clock =< FaultsUntil
  /\ wstage[w] # "idle"
  /\ wstage' = [wstage EXCEPT ![w] = "stopped"]
  /\ wnow' = [wnow EXCEPT ![w] = 0]
  /\ batch' = [batch EXCEPT ![w] = {}]
  /\ ClearItem(w)
  /\ UNCHANGED <<tables, sends>>

(***************************************************************************)
(* Faults: the process crashes, or a statement fails and ProcessBatch      *)
(* returns its error, which the ticker only logs.  Either way an open      *)
(* transaction rolls back and the batch is over.                           *)
(***************************************************************************)
WorkerFails(w) ==
  /\ clock =< FaultsUntil
  /\ wstage[w] # "idle"
  /\ EndBatch(w)
  /\ UNCHANGED <<tables, sends>>

(* A commit the server made and the worker did not learn of. *)
WorkerFailsAfter(w) ==
  /\ clock =< FaultsUntil
  /\ EndBatch(w)
  /\ \/ /\ wstage[w] = "claiming"
        /\ MarkDone(batch[w])
        /\ UNCHANGED <<idempotency_keys, payments, webhook_subscriptions, webhook_deliveries>>
     \/ /\ wstage[w] = "commit"
        /\ WriteSettlement(w)
  /\ UNCHANGED sends

WorkerStep(w) ==
  \/ ClaimDue(w) \/ ClaimCommits(w) \/ NextItem(w) \/ BatchDone(w)
  \/ SettleLoad(w) \/ SettleUpdate(w) \/ SettleCommit(w)
  \/ DeliverLoad(w) \/ Send(w) \/ RecordAttempt(w)

WorkerNext == \E w \in Worker : WorkerStep(w) \/ WorkerFails(w) \/ WorkerFailsAfter(w)
=============================================================================
