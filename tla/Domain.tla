------------------------------- MODULE Domain -------------------------------
(***************************************************************************)
(* The pure rules of package internal/payment: scenario tokens, the state  *)
(* machine of a payment, the event a status produces and the fingerprint   *)
(* of a request.  Nothing here has state.                                  *)
(***************************************************************************)

(* The closed set of scenario tokens NewScenarioToken accepts. *)
PaymentToken == {"card_approved", "card_declined",
                 "card_processing_approved", "card_processing_declined"}

TerminalStatus == {"APPROVED", "REJECTED"}

Status == TerminalStatus \cup {"PROCESSING"}

(* Every payment starts PROCESSING, whatever its token (ADR-0015). *)
CreationStatus(token) == "PROCESSING"

(* The terminal status a token dictates. *)
SettledStatus(token) ==
  IF token \in {"card_approved", "card_processing_approved"}
  THEN "APPROVED"
  ELSE "REJECTED"

EventType == {"payment.approved", "payment.rejected", "payment.processing"}

EventTypeForStatus(status) ==
  IF status = "APPROVED" THEN "payment.approved"
  ELSE IF status = "REJECTED" THEN "payment.rejected"
  ELSE "payment.processing"

ShouldEmitEvent(subscribedEvents, eventType) == eventType \in subscribedEvents

(* Variant: the token is left out of the canonical form. *)
FingerprintNoToken(body) == <<body.reference>>

(***************************************************************************)
(* The canonical form of a validated body: its fields in one fixed order.  *)
(* "reference" stands for reference_id, amount and currency together.      *)
(* SHA-256 of the form is taken to be injective.                           *)
(***************************************************************************)
Fingerprint(body) == <<body.reference, body.token>>

(* How a payment changes when it is settled at time t. *)
Settle(p, t) ==
  IF p.status # "PROCESSING"
  THEN p
  ELSE [p EXCEPT !.status = SettledStatus(p.body.token), !.updated_at = t]

DeliveryStatus == {"PENDING", "SENT", "FAILED"}

OutboxKind == {"SETTLE_PAYMENT", "DELIVER_WEBHOOK"}
=============================================================================
