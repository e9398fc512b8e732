----------------------------- MODULE AfterCreation -----------------------------
(***************************************************************************)
(* What happens to a payment once it is created: workers settle it and     *)
(* deliver its webhooks while clients subscribe and ask for retries, all   *)
(* over the same tables.  Pipeline and DummyPay add how payments come to   *)
(* be; what is said here holds however they do.                            *)
(***************************************************************************)
EXTENDS Worker, RetryDelivery, CreateSubscription

-----------------------------------------------------------------------------
(* Properties. *)

InHand(w) == batch[w] \cup ({item[w]} \ {NoRow})

(* Two workers never hold the same work row, from the claim to the end of  *)
(* its processing: SKIP LOCKED before the claim commits, DONE after it.    *)
RowInOneHand ==
  \A w, v \in Worker : w # v => InHand(w) \cap InHand(v) = {}

(* No event is announced twice: a payment has at most one delivery for     *)
(* each event type, whichever workers settled it and failed doing so.      *)
OneDeliveryPerEvent ==
  \A d, e \in DOMAIN webhook_deliveries :
    /\ webhook_deliveries[d].payment_id = webhook_deliveries[e].payment_id
    /\ webhook_deliveries[d].event_type = webhook_deliveries[e].event_type
    => d = e

Posts(d) == Cardinality({n \in DOMAIN sends : sends[n].delivery = d})

DeliverRows(d) ==
  {i \in DOMAIN outbox_work :
     outbox_work[i].kind = "DELIVER_WEBHOOK" /\ outbox_work[i].subject_id = d}

(* A webhook is POSTed at most once per work row, and rows come only from  *)
(* the event and from retries: nobody is called without being asked for,   *)
(* and no attempt is recorded that was not made.                           *)
PostsAreAskedFor ==
  \A d \in DOMAIN webhook_deliveries :
    /\ Posts(d) =< Cardinality({i \in DeliverRows(d) : outbox_work[i].state = "DONE"})
    /\ webhook_deliveries[d].attempt_count =< Posts(d)

(* What a delivery says of its attempts is what one of its POSTs met: it   *)
(* is SENT only if its receiver accepted one, FAILED only if one failed,   *)
(* with the code that POST was answered and the time its batch read.  Two  *)
(* workers at the same delivery may record out of order, so that it may be *)
(* an earlier POST than the last, but never half an outcome each nor       *)
(* another delivery's; a retry in between takes back the status alone.     *)
OutcomeIsOfAPost ==
  \A d \in DOMAIN webhook_deliveries :
    LET row == webhook_deliveries[d]
    IN  row.attempted =>
          \E n \in DOMAIN sends :
            /\ sends[n].delivery = d
            /\ sends[n].reply = row.last_http_status
            /\ sends[n].now = row.last_attempted_at
            /\ row.status = "SENT" => sends[n].reply \div 100 = 2
            /\ row.status = "FAILED" => sends[n].reply \div 100 # 2

Recording(d) ==
  {w \in Worker : wstage[w] = "record" /\ outbox_work[item[w]].subject_id = d}

(* attempt_count is "Número de tentativas realizadas" (README): every POST *)
(* is counted once its worker has recorded it.  A worker that dies between *)
(* the two leaves it uncounted.                                            *)
AttemptsCounted ==
  \A d \in DOMAIN webhook_deliveries :
    webhook_deliveries[d].attempt_count + Cardinality(Recording(d)) = Posts(d)

Awaited(kind, subject) ==
  \E i \in DOMAIN outbox_work :
    /\ outbox_work[i].kind = kind /\ outbox_work[i].subject_id = subject
    /\ outbox_work[i].state = "PENDING" \/ \E w \in Worker : i \in InHand(w)

(* As long as no worker fails, what is not finished has work waiting for   *)
(* it: a PROCESSING payment its settlement, a PENDING delivery its attempt.*)
NothingStranded ==
  /\ \A i \in DOMAIN payments :
       payments[i].status = "PROCESSING" => Awaited("SETTLE_PAYMENT", i)
  /\ \A d \in DOMAIN webhook_deliveries :
       webhook_deliveries[d].status = "PENDING" => Awaited("DELIVER_WEBHOOK", d)

-----------------------------------------------------------------------------
(* What the workers' claims implement: rows that are PENDING wait, and a   *)
(* worker has its batch from the moment its claim commits.                 *)
Unclaimed == {i \in DOMAIN outbox_work : outbox_work[i].state = "PENDING"}

Hands == [w \in Worker |-> IF wstage[w] = "claiming" THEN {} ELSE InHand(w)]

Queue ==
  INSTANCE WorkQueue WITH
    asked <- Len(outbox_work), waiting <- Unclaimed, hand <- Hands

(* The outbox is the queue of WorkQueue, although a claim locks its rows   *)
(* and commits in two steps, workers race for them, and a claim may commit *)
(* without its worker learning of it: each row is handed out once.         *)
HandsOutOnce == Queue!Spec
=============================================================================
