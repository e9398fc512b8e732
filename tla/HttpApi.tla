-------------------------------- MODULE HttpApi --------------------------------
(***************************************************************************)
(* Package http: what a request must look like before a use case runs.     *)
(* Each check answers an HTTP status, or Passed.  Nothing here has state.  *)
(*                                                                         *)
(* An Authorization header is a record: its scheme ("none" when absent),   *)
(* whether the rest decodes from base64, and the decoded text as a         *)
(* sequence of words and colons.  A body says whether it decodes: into     *)
(* valid JSON, without unknown fields, with an amount that fits in int64.  *)
(***************************************************************************)
EXTENDS Domain, Integers, SequencesExt

Passed == 0

IsColon(word) == word = ":"

(* Variant: strings.Split, which cuts at every colon. *)
CutAtEveryColon(text) ==
  IF Len(SelectSeq(text, IsColon)) # 1
  THEN {}
  ELSE {<<SubSeq(text, 1, SelectInSeq(text, IsColon) - 1),
          SubSeq(text, SelectInSeq(text, IsColon) + 1, Len(text))>>}

(* strings.SplitN(text, ":", 2): the key id and the secret, which may hold *)
(* further colons; nothing when there is no colon.                         *)
CutAtColon(text) ==
  LET c == SelectInSeq(text, IsColon)
  IN  IF c = 0 THEN {} ELSE {<<SubSeq(text, 1, c - 1), SubSeq(text, c + 1, Len(text))>>}

(* Variant: the secret alone is compared. *)
basicAuthBySecret(config, h) ==
  IF /\ h.scheme = "Basic" /\ h.decodes
     /\ \E credentials \in CutAtColon(h.text) : credentials[2] = config.AccountKeySecret
  THEN Passed ELSE 401

(* basicAuthMiddleware, on every route under /v1. *)
basicAuth(config, h) ==
  IF /\ h.scheme = "Basic" /\ h.decodes
     /\ <<config.AccountKeyID, config.AccountKeySecret>> \in CutAtColon(h.text)
  THEN Passed ELSE 401

(* POST /v1/payments: the trimmed Idempotency-Key, the body, its values.   *)
CheckPayment(q) ==
  IF q.key = "" \/ ~q.decodes THEN 400
  ELSE IF q.amount =< 0 \/ q.currency # "BRL" \/ q.token \notin PaymentToken THEN 422
  ELSE Passed

(* POST /v1/webhook-subscriptions: ValidateSubscriptionURL and             *)
(* ValidateEventTypes.  A URL without a scheme is not absolute.            *)
CheckSubscription(q) ==
  IF ~q.decodes THEN 400
  ELSE IF \/ q.scheme \notin {"http", "https"}
          \/ q.events = {} \/ ~(q.events \subseteq EventType)
  THEN 422
  ELSE Passed

(* Variant: the prefix is cut off without being looked at. *)
DecodeAnyID(kind, id) == IF id.uuid = 0 THEN {} ELSE {id.uuid}

(* decodeID: the identifier behind the right prefix, nothing when the      *)
(* prefix is another kind's or what follows is not a UUID.                 *)
DecodeID(kind, id) == IF id.prefix # kind \/ id.uuid = 0 THEN {} ELSE {id.uuid}
=============================================================================
