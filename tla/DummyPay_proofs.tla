---------------------------- MODULE DummyPay_proofs ----------------------------
(***************************************************************************)
(* The theorems about the whole service.  Each half brings its invariant:  *)
(* CreateInv of the create path (IdempotentCreate_proofs, under the name   *)
(* CPP) and IInv, CInv of what happens after (AfterCreation_proofs).  Here *)
(* is why neither half disturbs the other's: the rest of the service only  *)
(* settles payments (Beyond), and a request writes keys and nothing else   *)
(* until it commits what InsertPayment appends, for a subscription that is *)
(* still there.                                                            *)
(***************************************************************************)
EXTENDS DummyPay, AfterCreation_proofs, FiniteSetTheorems

CPP == INSTANCE IdempotentCreate_proofs

(* What the transaction of a request notifies fits its account. *)
TargetsTold ==
  \A r \in Request :
    stage[r] \in {"complete", "commit"} => Listed(target[r], ask[r].scope[1], "PROCESSING")

DInv == IInv /\ CInv /\ CPP!CreateInv /\ TargetsTold

-----------------------------------------------------------------------------
(* The two halves speak of the same tables. *)

LEMMA SameAssumptions ==
  /\ CPP!BodyAssumption /\ CPP!DelayAssumption /\ CPP!TimeAssumption
  /\ CPP!LeaseAssumption /\ CPP!FaultsAssumption
  BY BodyAssumption, DelayAssumption, TimeAssumption, LeaseAssumption, WorkerFaultsAssumption
  DEF CPP!BodyAssumption, CPP!DelayAssumption, CPP!TimeAssumption, CPP!LeaseAssumption,
      CPP!FaultsAssumption, CPP!PaymentToken, PaymentToken

LEMMA SameRows ==
  /\ CPP!Scope = Scope /\ CPP!IdempotencyRow = IdempotencyRow
  /\ CPP!TablesTypeOK <=> TablesTypeOK
  /\ CPP!TablesTypeOK' <=> TablesTypeOK'
  BY DEF CPP!Scope, Scope, CPP!IdempotencyRow, IdempotencyRow, CPP!FingerprintOf,
         FingerprintOf, CPP!Fingerprint, Fingerprint, CPP!Response, Response, CPP!Status,
         Status, CPP!TerminalStatus, TerminalStatus, CPP!TablesTypeOK, TablesTypeOK,
         CPP!PaymentRow, PaymentRow, CPP!SubscriptionRow, SubscriptionRow, CPP!EventType,
         EventType, CPP!DeliveryRow, DeliveryRow, CPP!DeliveryStatus, DeliveryStatus,
         CPP!OutboxRow, OutboxRow, CPP!OutboxKind, OutboxKind

LEMMA SameStatements ==
  /\ \A s, b, t, sub : CPP!InsertPayment(s, b, t, sub) <=> InsertPayment(s, b, t, sub)
  /\ \A a, st : CPP!SubscriptionToNotify(a, st) = SubscriptionToNotify(a, st)
  BY DEF CPP!InsertPayment, InsertPayment, CPP!NewPayment, NewPayment, CPP!CreationStatus,
         CreationStatus, CPP!DeliveriesWith, DeliveriesWith, CPP!NoSubscription,
         NoSubscription, CPP!NewDelivery, NewDelivery, CPP!EventTypeForStatus,
         EventTypeForStatus, CPP!SettleWork, SettleWork, CPP!NewWork, NewWork,
         CPP!DeliverWork, DeliverWork, CPP!SubscriptionToNotify, SubscriptionToNotify,
         CPP!LoadActive, LoadActive, CPP!ShouldEmitEvent, ShouldEmitEvent

LEMMA SameRequests ==
  ASSUME NEW r \in Request
  PROVE  CP!RequestNext(r) <=> CPP!RequestNext(r)
<1>1. CP!Arrive(r) <=> CPP!Arrive(r)
  BY DEF CP!Arrive, CPP!Arrive, CP!Answer, CPP!Answer, CP!GoTo, CPP!GoTo, CP!At, CPP!At,
         CP!Row, CPP!Row, CP!tables, CPP!tables, CP!NoResult, CPP!NoResult,
         CP!NoResponse, CPP!NoResponse, CP!NoPayment, CPP!NoPayment, CP!Absent,
         CPP!Absent, CP!NoSubscription, CPP!NoSubscription, CP!Now, CPP!Now, CP!Time,
         CPP!Time
<1>2. CP!Claim(r) <=> CPP!Claim(r)
  BY DEF CP!Claim, CPP!Claim, CP!Answer, CPP!Answer, CP!GoTo, CPP!GoTo, CP!At, CPP!At,
         CP!Row, CPP!Row, CP!tables, CPP!tables, CP!NoResult, CPP!NoResult,
         CP!NoResponse, CPP!NoResponse, CP!NoPayment, CPP!NoPayment, CP!Absent,
         CPP!Absent, CP!NoSubscription, CPP!NoSubscription, CP!WriteClaim,
         CPP!WriteClaim, CP!Fingerprint, CPP!Fingerprint
<1>3. CP!ClaimConflicts(r) <=> CPP!ClaimConflicts(r)
  BY DEF CP!ClaimConflicts, CPP!ClaimConflicts, CP!Answer, CPP!Answer, CP!GoTo, CPP!GoTo,
         CP!At, CPP!At, CP!Row, CPP!Row, CP!tables, CPP!tables, CP!NoResult,
         CPP!NoResult, CP!NoResponse, CPP!NoResponse, CP!NoPayment, CPP!NoPayment,
         CP!Absent, CPP!Absent, CP!NoSubscription, CPP!NoSubscription
<1>4. CP!Load(r) <=> CPP!Load(r)
  BY DEF CP!Load, CPP!Load, CP!Answer, CPP!Answer, CP!GoTo, CPP!GoTo, CP!At, CPP!At,
         CP!Row, CPP!Row, CP!tables, CPP!tables, CP!NoResult, CPP!NoResult,
         CP!NoResponse, CPP!NoResponse, CP!NoPayment, CPP!NoPayment, CP!Absent,
         CPP!Absent, CP!NoSubscription, CPP!NoSubscription, CP!Fingerprint,
         CPP!Fingerprint, CP!Cutoff, CPP!Cutoff
<1>5. CP!Replay(r) <=> CPP!Replay(r)
  BY DEF CP!Replay, CPP!Replay, CP!Answer, CPP!Answer, CP!GoTo, CPP!GoTo, CP!At, CPP!At,
         CP!Row, CPP!Row, CP!tables, CPP!tables, CP!NoResult, CPP!NoResult,
         CP!NoResponse, CPP!NoResponse, CP!NoPayment, CPP!NoPayment, CP!Absent,
         CPP!Absent, CP!NoSubscription, CPP!NoSubscription
<1>6. CP!Reclaim(r) <=> CPP!Reclaim(r)
  BY DEF CP!Reclaim, CPP!Reclaim, CP!Answer, CPP!Answer, CP!GoTo, CPP!GoTo, CP!At,
         CPP!At, CP!Row, CPP!Row, CP!tables, CPP!tables, CP!NoResult, CPP!NoResult,
         CP!NoResponse, CPP!NoResponse, CP!NoPayment, CPP!NoPayment, CP!Absent,
         CPP!Absent, CP!NoSubscription, CPP!NoSubscription, CP!WriteReclaim,
         CPP!WriteReclaim, CP!Reclaimable, CPP!Reclaimable, CP!Cutoff, CPP!Cutoff,
         CP!Locked, CPP!Locked
<1>7. CP!ReclaimMatchesNothing(r) <=> CPP!ReclaimMatchesNothing(r)
  BY DEF CP!ReclaimMatchesNothing, CPP!ReclaimMatchesNothing, CP!Answer, CPP!Answer,
         CP!GoTo, CPP!GoTo, CP!At, CPP!At, CP!Row, CPP!Row, CP!tables, CPP!tables,
         CP!NoResult, CPP!NoResult, CP!NoResponse, CPP!NoResponse, CP!NoPayment,
         CPP!NoPayment, CP!Absent, CPP!Absent, CP!NoSubscription, CPP!NoSubscription,
         CP!Reclaimable, CPP!Reclaimable, CP!Cutoff, CPP!Cutoff
<1>8. CP!Work(r) <=> CPP!Work(r)
  BY DEF CP!Work, CPP!Work, CP!Answer, CPP!Answer, CP!GoTo, CPP!GoTo, CP!At, CPP!At,
         CP!Row, CPP!Row, CP!tables, CPP!tables, CP!NoResult, CPP!NoResult,
         CP!NoResponse, CPP!NoResponse, CP!NoPayment, CPP!NoPayment, CP!Absent,
         CPP!Absent, CP!NoSubscription, CPP!NoSubscription, CP!SubscriptionToNotify,
         CPP!SubscriptionToNotify, CP!CreationStatus, CPP!CreationStatus, CP!LoadActive,
         CPP!LoadActive, CP!ShouldEmitEvent, CPP!ShouldEmitEvent, CP!EventTypeForStatus,
         CPP!EventTypeForStatus
<1>9. CP!Complete(r) <=> CPP!Complete(r)
  BY DEF CP!Complete, CPP!Complete, CP!Answer, CPP!Answer, CP!GoTo, CPP!GoTo, CP!At,
         CPP!At, CP!Row, CPP!Row, CP!tables, CPP!tables, CP!NoResult, CPP!NoResult,
         CP!NoResponse, CPP!NoResponse, CP!NoPayment, CPP!NoPayment, CP!Absent,
         CPP!Absent, CP!NoSubscription, CPP!NoSubscription, CP!OwnsKey, CPP!OwnsKey,
         CP!Locked, CPP!Locked
<1>10. CP!OwnershipLost(r) <=> CPP!OwnershipLost(r)
  BY DEF CP!OwnershipLost, CPP!OwnershipLost, CP!Answer, CPP!Answer, CP!GoTo, CPP!GoTo,
         CP!At, CPP!At, CP!Row, CPP!Row, CP!tables, CPP!tables, CP!NoResult,
         CPP!NoResult, CP!NoResponse, CPP!NoResponse, CP!NoPayment, CPP!NoPayment,
         CP!Absent, CPP!Absent, CP!NoSubscription, CPP!NoSubscription, CP!OwnsKey,
         CPP!OwnsKey
<1>11. CP!Commit(r) <=> CPP!Commit(r)
  BY DEF CP!Commit, CPP!Commit, CP!Answer, CPP!Answer, CP!GoTo, CPP!GoTo, CP!At, CPP!At,
         CP!Row, CPP!Row, CP!tables, CPP!tables, CP!NoResult, CPP!NoResult,
         CP!NoResponse, CPP!NoResponse, CP!NoPayment, CPP!NoPayment, CP!Absent,
         CPP!Absent, CP!NoSubscription, CPP!NoSubscription, CP!Fingerprint,
         CPP!Fingerprint, CP!Encode, CPP!Encode, CP!NewPayment, CPP!NewPayment,
         CP!CreationStatus, CPP!CreationStatus, CP!InsertPayment, CPP!InsertPayment,
         CP!DeliveriesWith, CPP!DeliveriesWith, CP!NewDelivery, CPP!NewDelivery,
         CP!EventTypeForStatus, CPP!EventTypeForStatus, CP!SettleWork, CPP!SettleWork,
         CP!NewWork, CPP!NewWork, CP!DeliverWork, CPP!DeliverWork, CP!WriteTransaction,
         CPP!WriteTransaction, CP!CreatedResponse, CPP!CreatedResponse
<1>12. CP!Abort(r) <=> CPP!Abort(r)
  BY DEF CP!Abort, CPP!Abort, CP!Answer, CPP!Answer, CP!GoTo, CPP!GoTo, CP!At, CPP!At,
         CP!Row, CPP!Row, CP!tables, CPP!tables, CP!NoResult, CPP!NoResult,
         CP!NoResponse, CPP!NoResponse, CP!NoPayment, CPP!NoPayment, CP!Absent,
         CPP!Absent, CP!NoSubscription, CPP!NoSubscription
<1>13. CP!AbortAfter(r) <=> CPP!AbortAfter(r)
  BY DEF CP!AbortAfter, CPP!AbortAfter, CP!Answer, CPP!Answer, CP!GoTo, CPP!GoTo, CP!At,
         CPP!At, CP!Row, CPP!Row, CP!tables, CPP!tables, CP!NoResult, CPP!NoResult,
         CP!NoResponse, CPP!NoResponse, CP!NoPayment, CPP!NoPayment, CP!Absent,
         CPP!Absent, CP!NoSubscription, CPP!NoSubscription, CP!Fingerprint,
         CPP!Fingerprint, CP!Encode, CPP!Encode, CP!NewPayment, CPP!NewPayment,
         CP!CreationStatus, CPP!CreationStatus, CP!InsertPayment, CPP!InsertPayment,
         CP!DeliveriesWith, CPP!DeliveriesWith, CP!NewDelivery, CPP!NewDelivery,
         CP!EventTypeForStatus, CPP!EventTypeForStatus, CP!SettleWork, CPP!SettleWork,
         CP!NewWork, CPP!NewWork, CP!DeliverWork, CPP!DeliverWork, CP!WriteTransaction,
         CPP!WriteTransaction, CP!CreatedResponse, CPP!CreatedResponse, CP!WriteClaim,
         CPP!WriteClaim, CP!WriteReclaim, CPP!WriteReclaim, CP!Reclaimable,
         CPP!Reclaimable, CP!Cutoff, CPP!Cutoff, CP!Locked, CPP!Locked
<1> QED
  BY <1>1, <1>2, <1>3, <1>4, <1>5, <1>6, <1>7, <1>8, <1>9, <1>10, <1>11, <1>12, <1>13
  DEF CP!RequestNext, CPP!RequestNext, CP!Progress, CPP!Progress

LEMMA SameStart == CP!Init <=> CPP!Init
  BY DEF CP!Init, CPP!Init, CP!TablesInit, CPP!TablesInit, CP!NoResult, CPP!NoResult,
         CP!NoResponse, CPP!NoResponse, CP!NoPayment, CPP!NoPayment, CP!Absent,
         CPP!Absent, CP!NoSubscription, CPP!NoSubscription, CP!Ask, CPP!Ask, CP!Scope,
         CPP!Scope

LEMMA SameInvariants ==
  /\ CP!AtMostOnePayment <=> CPP!AtMostOnePayment
  /\ CP!CompletedIffPayment <=> CPP!CompletedIffPayment
  /\ CP!AnswersAgree <=> CPP!AnswersAgree
  BY DEF CP!AtMostOnePayment, CPP!AtMostOnePayment, CP!CompletedIffPayment,
         CPP!CompletedIffPayment, CP!AnswersAgree, CPP!AnswersAgree, CP!Scope, CPP!Scope,
         CP!Encode, CPP!Encode, CP!Row, CPP!Row, CP!Fingerprint, CPP!Fingerprint

LEMMA SamePromise ==
  /\ CP!Promise!Init <=> CPP!Promise!Init
  /\ CP!Promise!vars = CPP!Promise!vars /\ CP!Promise!vars' = CPP!Promise!vars'
  /\ CP!Promise!Next <=> CPP!Promise!Next
<1>1. CP!Promise!vars = CPP!Promise!vars /\ CP!Promise!vars' = CPP!Promise!vars'
  BY DEF CP!Promise!vars, CPP!Promise!vars, CP!Fingerprint, CPP!Fingerprint,
         CP!NoResponse, CPP!NoResponse, CP!NoPayment, CPP!NoPayment, CP!Scope, CPP!Scope,
         CP!Response, CPP!Response, CP!Status, CPP!Status, CP!TerminalStatus,
         CPP!TerminalStatus
<1>2. CP!Promise!Init <=> CPP!Promise!Init
  BY DEF CP!Promise!Init, CPP!Promise!Init, CP!Promise!Silence, CPP!Promise!Silence,
         CP!Fingerprint, CPP!Fingerprint, CP!NoResponse, CPP!NoResponse, CP!NoPayment,
         CPP!NoPayment, CP!Scope, CPP!Scope, CP!Response, CPP!Response, CP!Status,
         CPP!Status, CP!TerminalStatus, CPP!TerminalStatus
<1>3. \A r \in Request : CP!Promise!AskAgain(r) <=> CPP!Promise!AskAgain(r)
  BY DEF CP!Promise!AskAgain, CPP!Promise!AskAgain, CP!Promise!Tell, CPP!Promise!Tell,
         CP!Promise!Silence, CPP!Promise!Silence, CP!Fingerprint, CPP!Fingerprint,
         CP!NoResponse, CPP!NoResponse, CP!NoPayment, CPP!NoPayment, CP!Scope, CPP!Scope,
         CP!Response, CPP!Response, CP!Status, CPP!Status, CP!TerminalStatus,
         CPP!TerminalStatus
<1>4. \A r \in Request : CP!Promise!Bind(r) <=> CPP!Promise!Bind(r)
  BY DEF CP!Promise!Bind, CPP!Promise!Bind, CP!Promise!Tell, CPP!Promise!Tell,
         CP!Promise!Silence, CPP!Promise!Silence, CP!Fingerprint, CPP!Fingerprint,
         CP!NoResponse, CPP!NoResponse, CP!NoPayment, CPP!NoPayment, CP!Scope, CPP!Scope,
         CP!Response, CPP!Response, CP!Status, CPP!Status, CP!TerminalStatus,
         CPP!TerminalStatus
<1>5. \A r \in Request : CP!Promise!Make(r) <=> CPP!Promise!Make(r)
  BY DEF CP!Promise!Make, CPP!Promise!Make, CP!Promise!Tell, CPP!Promise!Tell,
         CP!Promise!Silence, CPP!Promise!Silence, CP!Fingerprint, CPP!Fingerprint,
         CP!NoResponse, CPP!NoResponse, CP!NoPayment, CPP!NoPayment, CP!Scope, CPP!Scope,
         CP!Response, CPP!Response, CP!Status, CPP!Status, CP!TerminalStatus,
         CPP!TerminalStatus
<1>6. \A r \in Request : CP!Promise!Repeat(r) <=> CPP!Promise!Repeat(r)
  BY DEF CP!Promise!Repeat, CPP!Promise!Repeat, CP!Promise!Tell, CPP!Promise!Tell,
         CP!Promise!Silence, CPP!Promise!Silence, CP!Fingerprint, CPP!Fingerprint,
         CP!NoResponse, CPP!NoResponse, CP!NoPayment, CPP!NoPayment, CP!Scope, CPP!Scope,
         CP!Response, CPP!Response, CP!Status, CPP!Status, CP!TerminalStatus,
         CPP!TerminalStatus
<1>7. \A r \in Request : CP!Promise!Refuse(r) <=> CPP!Promise!Refuse(r)
  BY DEF CP!Promise!Refuse, CPP!Promise!Refuse, CP!Promise!Tell, CPP!Promise!Tell,
         CP!Promise!Silence, CPP!Promise!Silence, CP!Fingerprint, CPP!Fingerprint,
         CP!NoResponse, CPP!NoResponse, CP!NoPayment, CPP!NoPayment, CP!Scope, CPP!Scope,
         CP!Response, CPP!Response, CP!Status, CPP!Status, CP!TerminalStatus,
         CPP!TerminalStatus
<1>8. \A r \in Request : CP!Promise!ComeBack(r) <=> CPP!Promise!ComeBack(r)
  BY DEF CP!Promise!ComeBack, CPP!Promise!ComeBack, CP!Promise!Tell, CPP!Promise!Tell,
         CP!Promise!Silence, CPP!Promise!Silence, CP!Fingerprint, CPP!Fingerprint,
         CP!NoResponse, CPP!NoResponse, CP!NoPayment, CPP!NoPayment, CP!Scope, CPP!Scope,
         CP!Response, CPP!Response, CP!Status, CPP!Status, CP!TerminalStatus,
         CPP!TerminalStatus
<1> QED  BY <1>1, <1>2, <1>3, <1>4, <1>5, <1>6, <1>7, <1>8
  DEF CP!Promise!Next, CPP!Promise!Next

-----------------------------------------------------------------------------
(* A step of a request, for the rest of the service. *)

LEMMA RequestFrame ==
  ASSUME DInv, NEW r \in Request, Requesting(r)
  PROVE  /\ CPP!CreateInv' /\ CPP!TypeOK /\ CPP!RequestNext(r)
         /\ UNCHANGED <<clock, webhook_subscriptions, workerVars, retryVars>>
         /\ idempotency_keys' \in [Scope -> IdempotencyRow] /\ clock' \in Nat
         /\ \/ UNCHANGED <<payments, webhook_deliveries, outbox_work>>
            \/ /\ stage[r] = "commit"
               /\ InsertPayment(ask[r].scope, ask[r].body, now[r], target[r])
         /\ ask[r].scope \in Scope /\ ask[r].body \in Body /\ now[r] \in Nat /\ target[r] \in Nat
<1>1. CPP!RequestNext(r) /\ UNCHANGED <<workerVars, retryVars>>
  BY SameRequests DEF Requesting
<1>2. CPP!TypeOK /\ CPP!IInv /\ CPP!RInv
  BY DEF DInv, CPP!CreateInv
<1>3. CPP!Next
  BY <1>1 DEF CPP!Next
<1>4. CPP!TypeOK' /\ CPP!IInv' /\ CPP!RInv'
  BY <1>2, <1>3, SameAssumptions, CPP!TypeStep, CPP!IInvStep, CPP!RInvStep
<1>5. TablesTypeOK'
  BY <1>4, SameRows DEF CPP!TypeOK
<1>6. /\ UNCHANGED <<clock, webhook_subscriptions>>
      /\ \/ UNCHANGED <<payments, webhook_deliveries, outbox_work>>
         \/ /\ stage[r] = "commit"
            /\ CPP!InsertPayment(ask[r].scope, ask[r].body, now[r], target[r])
  BY <1>1, <1>2, SameAssumptions, CPP!RequestWrites
<1>7. ask[r].scope \in Scope /\ ask[r].body \in Body /\ now[r] \in Nat /\ target[r] \in Nat
  BY <1>2, SameRows DEF CPP!TypeOK, CPP!Ask
<1> QED
  BY <1>1, <1>2, <1>4, <1>5, <1>6, <1>7, SameStatements DEF CPP!CreateInv, TablesTypeOK

LEMMA RequestKeepsTargets ==
  ASSUME DInv, NEW r \in Request, Requesting(r)
  PROVE  TargetsTold'
<1> SUFFICES ASSUME NEW q \in Request, stage'[q] \in {"complete", "commit"}
             PROVE  Listed(target[q], ask[q].scope[1], "PROCESSING")'
  BY DEF TargetsTold
<1>1. /\ CPP!TypeOK /\ CPP!RequestNext(r) /\ UNCHANGED webhook_subscriptions
  BY RequestFrame
<1>2. /\ ask' = ask
      /\ \/ stage[q] \in {"complete", "commit"} /\ target'[q] = target[q]
         \/ target'[q] \in CPP!SubscriptionToNotify(ask[q].scope[1], "PROCESSING")
  BY <1>1, SameAssumptions, CPP!RequestTargets
<1>3. Listed(target'[q], ask[q].scope[1], "PROCESSING")
  <2>1. CASE stage[q] \in {"complete", "commit"} /\ target'[q] = target[q]
    BY <2>1 DEF DInv, TargetsTold
  <2>2. CASE target'[q] \in CPP!SubscriptionToNotify(ask[q].scope[1], "PROCESSING")
    BY <2>2, SameStatements, TheChosenIsListed
  <2> QED  BY <1>2, <2>1, <2>2
<1> QED  BY <1>1, <1>2, <1>3 DEF Listed

LEMMA RequestKeepsDInv ==
  ASSUME DInv, NEW r \in Request, Requesting(r)
  PROVE  DInv'
<1>1. /\ CPP!CreateInv' /\ TargetsTold'
      /\ UNCHANGED <<clock, webhook_subscriptions, workerVars, retryVars>>
      /\ idempotency_keys' \in [Scope -> IdempotencyRow] /\ clock' \in Nat
      /\ ask[r].scope \in Scope /\ ask[r].body \in Body /\ now[r] \in Nat /\ target[r] \in Nat
      /\ IInv /\ CInv
  BY RequestFrame, RequestKeepsTargets DEF DInv
<1>2. CASE UNCHANGED <<payments, webhook_deliveries, outbox_work>>
  BY <1>1, <1>2, ElsewhereKeepsIInv, ElsewhereIsSilent, SilentKeepsCInv DEF DInv
<1>3. CASE /\ stage[r] = "commit"
           /\ InsertPayment(ask[r].scope, ask[r].body, now[r], target[r])
  <2>1. Listed(target[r], ask[r].scope[1], "PROCESSING")
    BY <1>3 DEF DInv, TargetsTold
  <2> QED  BY <1>1, <1>3, <2>1, CreationKeepsIInv, CreationKeepsCInv DEF DInv
<1> QED  BY <1>2, <1>3, RequestFrame

-----------------------------------------------------------------------------
(* A step of the rest of the service, for the requests. *)

(* What keeps Concerns and the requests' registers keeps their targets. *)
LEMMA TargetsStay ==
  ASSUME TargetsTold, ConcernsKept, UNCHANGED requestVars
  PROVE  TargetsTold'
  BY DEF TargetsTold, Listed, ConcernsKept, requestVars

LEMMA BeyondKeepsDInv ==
  ASSUME DInv, IInv', CInv', CPP!Beyond, ConcernsKept
  PROVE  DInv'
<1>1. CPP!CreateInv'
  BY SameAssumptions, CPP!BeyondKeepsCreateInv DEF DInv
<1>2. TargetsTold'
  BY TargetsStay DEF DInv, CPP!Beyond, requestVars
<1> QED  BY <1>1, <1>2 DEF DInv

LEMMA SilenceIsBeyond ==
  ASSUME IInv', UNCHANGED <<idempotency_keys, payments, requestVars>>
  PROVE  CPP!Beyond
  BY SameRows DEF IInv, TInv, CPP!Beyond, requestVars

LEMMA SettledKeeps ==
  ASSUME NEW p \in PaymentRow, NEW t
  PROVE  /\ Settle(p, t).account = p.account /\ Settle(p, t).key = p.key
         /\ Settle(p, t).body = p.body /\ Settle(p, t).created_at = p.created_at
  BY DEF Settle, PaymentRow

LEMMA SettlingIsBeyond ==
  ASSUME IInv, IInv', NEW w \in Worker, Settles(w), UNCHANGED requestVars
  PROVE  CPP!Beyond
<1> DEFINE id == Subject(w)
<1>1. /\ id \in DOMAIN payments /\ loaded[w] = payments[id]
      /\ DOMAIN payments' = DOMAIN payments /\ payments'[id] = Settled(w)
      /\ \A i \in DOMAIN payments : i # id => payments'[i] = payments[i]
      /\ UNCHANGED idempotency_keys
  BY SettlementWrites DEF Settles, WriteSettlement
<1>2. payments[id] \in PaymentRow
  BY <1>1, ElementOfSeq, LenProperties DEF IInv, TInv, TablesTypeOK
<1> HIDE DEF id
<1>3. \A i \in DOMAIN payments :
        /\ payments'[i].account = payments[i].account
        /\ payments'[i].key = payments[i].key
        /\ payments'[i].body = payments[i].body
        /\ payments'[i].created_at = payments[i].created_at
  BY <1>1, <1>2, SettledKeeps DEF Settled
<1>4. CPP!TablesTypeOK'
  BY SameRows DEF IInv, TInv
<1> QED  BY <1>1, <1>3, <1>4 DEF CPP!Beyond, requestVars

(* Workers and retries leave the keys alone. *)
LEMMA RestLeavesKeys ==
  ASSUME \/ RetryNext
         \/ \E w \in Worker : WorkerStep(w) \/ WorkerFails(w) \/ WorkerFailsAfter(w)
  PROVE  idempotency_keys' = idempotency_keys
<1>1. CASE RetryNext
  BY <1>1 DEF RetryNext, RetryLoad, RetryCommit, RetryFails, WriteRetry, tables
<1>2. ASSUME NEW w \in Worker, WorkerStep(w)
      PROVE  idempotency_keys' = idempotency_keys
  BY <1>2 DEF WorkerStep, ClaimDue, ClaimCommits, NextItem, BatchDone, SettleLoad, SettleUpdate,
              SettleCommit, WriteSettlement, DeliverLoad, Send, RecordAttempt, tables
<1>3. ASSUME NEW w \in Worker, WorkerFails(w) \/ WorkerFailsAfter(w)
      PROVE  idempotency_keys' = idempotency_keys
  BY <1>3 DEF WorkerFails, WorkerFailsAfter, WriteSettlement, tables
<1> QED  BY <1>1, <1>2, <1>3

(* The steps of the service, by what they do. *)
LEMMA StepCases ==
  ASSUME DInv, [Next]_vars
  PROVE  \/ \E r \in Request : Requesting(r)
         \/ Subscribing
         \/ /\ IInv' /\ UNCHANGED <<idempotency_keys, requestVars>>
            /\ \/ Silent
               \/ \E w \in Worker : SettleUpdate(w) \/ Settles(w)
<1>1. CASE Passing \/ UNCHANGED vars
  <2>1. clock' \in Nat /\ idempotency_keys' \in [Scope -> IdempotencyRow]
    BY <1>1 DEF Passing, Tick, vars, tables, DInv, IInv, TInv, TablesTypeOK
  <2>2. /\ UNCHANGED <<payments, webhook_subscriptions, webhook_deliveries, outbox_work>>
        /\ UNCHANGED <<workerVars, retryVars>> /\ UNCHANGED <<idempotency_keys, requestVars>>
    BY <1>1 DEF Passing, vars, tables
  <2> QED  BY <2>1, <2>2, ElsewhereKeepsIInv, ElsewhereIsSilent DEF DInv
<1>2. CASE Retrying
  BY <1>2, RetryingKeepsIInv, RetryingIsSilent, RestLeavesKeys DEF Retrying, DInv
<1>3. ASSUME NEW w \in Worker, Working(w)
      PROVE  /\ IInv' /\ UNCHANGED <<idempotency_keys, requestVars>>
             /\ Silent \/ SettleUpdate(w) \/ Settles(w)
  BY <1>3, WorkingKeepsIInv, WorkIsSilentOrSettles, RestLeavesKeys DEF Working, DInv
<1>4. ASSUME NEW w \in Worker, WorkerFault(w)
      PROVE  /\ IInv' /\ UNCHANGED <<idempotency_keys, requestVars>>
             /\ Silent \/ Settles(w)
  BY <1>4, FaultsKeepIInv, FaultIsSilentOrSettles, RestLeavesKeys DEF WorkerFault, DInv
<1> QED  BY <1>1, <1>2, <1>3, <1>4 DEF Next

LEMMA StepKeepsDInv == DInv /\ [Next]_vars => DInv'
<1> SUFFICES ASSUME DInv, [Next]_vars PROVE DInv'
  OBVIOUS
<1>1. ASSUME NEW r \in Request, Requesting(r)
      PROVE  DInv'
  BY <1>1, RequestKeepsDInv
<1>2. CASE Subscribing
  <2>1. IInv' /\ CInv' /\ ConcernsKept /\ UNCHANGED <<idempotency_keys, payments, requestVars>>
    BY <1>2, SubscriptionKeepsIInv, SubscriptionKeepsCInv, SubscribeKeepsConcerns
    DEF Subscribing, DInv, SubscriptionNext, Subscribe
  <2> QED  BY <2>1, SilenceIsBeyond, BeyondKeepsDInv
<1>3. ASSUME IInv', UNCHANGED <<idempotency_keys, requestVars>>, Silent
      PROVE  DInv'
  <2>1. CInv' /\ ConcernsKept /\ UNCHANGED payments
    BY <1>3, SilentKeepsCInv, SilentKeepsConcerns DEF DInv, Silent, NothingToAnnounce
  <2> QED  BY <1>3, <2>1, SilenceIsBeyond, BeyondKeepsDInv
<1>4. ASSUME IInv', UNCHANGED <<idempotency_keys, requestVars>>, NEW w \in Worker, SettleUpdate(w)
      PROVE  DInv'
  <2>1. CInv' /\ UNCHANGED <<payments, webhook_subscriptions>>
    BY <1>4, SettleUpdateChooses DEF DInv, SettleUpdate, tables
  <2> QED  BY <1>4, <2>1, SilenceIsBeyond, BeyondKeepsDInv DEF ConcernsKept
<1>5. ASSUME IInv', UNCHANGED <<idempotency_keys, requestVars>>, NEW w \in Worker, Settles(w)
      PROVE  DInv'
  BY <1>5, SettlingKeepsCInv, SettlementWrites, SettlingIsBeyond, BeyondKeepsDInv DEF DInv
<1> QED  BY <1>1, <1>2, <1>3, <1>4, <1>5, StepCases

LEMMA InitDInv == Init => DInv
<1> SUFFICES ASSUME Init PROVE DInv
  OBVIOUS
<1>1. CPP!Init /\ TablesInit /\ WorkerInit /\ RetryInit
  BY SameStart DEF Init, CP!Init, CP!TablesInit, TablesInit, CP!Absent, Absent, CP!Scope, Scope,
                   CP!NoPayment, NoPayment, CP!NoResponse, NoResponse
<1>2. CPP!CreateInv
  <2>1. CPP!TypeOK /\ CPP!IInv
    BY <1>1, SameAssumptions, CPP!TypeInit, CPP!IInvInit
  <2> QED  BY <1>1, <2>1, SameAssumptions, CPP!RInvInit DEF CPP!CreateInv
<1>3. TargetsTold
  BY <1>1 DEF CPP!Init, TargetsTold
<1> QED  BY <1>1, <1>2, <1>3, InitIInv, InitCInv DEF DInv

(* In every behaviour of the whole service both halves keep what they      *)
(* rest on, and no transaction notifies whom its account did not name.     *)
THEOREM Invariance == Spec => []DInv
  BY InitDInv, StepKeepsDInv, PTL DEF Spec

-----------------------------------------------------------------------------
(* Results. *)

(* Beside workers, retries and subscriptions a key still has at most one   *)
(* payment, its record is completed exactly when it has, and every 201     *)
(* repeats what was rendered at its creation.                              *)
THEOREM OnePaymentOneAnswerHolds == Spec => []OnePaymentOneAnswer
<1>1. DInv => OnePaymentOneAnswer
  BY SameAssumptions, SameInvariants, CPP!RecordedOnce, CPP!RecordsHavePayments,
     CPP!AnswersFollowRecords
  DEF DInv, CPP!CreateInv, OnePaymentOneAnswer
<1> QED  BY <1>1, Invariance, PTL

LEMMA OneOfOne ==
  ASSUME NEW S, NEW n \in S, \A m \in S : m = n
  PROVE  Cardinality(S) = 1
<1>1. S = {n}
  OBVIOUS
<1> QED  BY <1>1, FS_Singleton

(* Whatever raced with the commit of a payment, it has exactly one         *)
(* settlement row, due the delay after its creation; and a delivery is of  *)
(* its subscriber's payment, for an event the subscriber lists and a       *)
(* status the payment entered.                                             *)
THEOREM CommittedTogetherHolds == Spec => []CommittedTogether
<1>1. DInv => CommittedTogether
  <2> SUFFICES ASSUME DInv PROVE CommittedTogether
    OBVIOUS
  <2>1. ASSUME NEW i \in DOMAIN payments
        PROVE  LET settlements == {n \in DOMAIN outbox_work :
                     outbox_work[n].kind = "SETTLE_PAYMENT" /\ outbox_work[n].subject_id = i}
               IN  /\ Cardinality(settlements) = 1
                   /\ \A n \in settlements :
                        outbox_work[n].due_at = payments[i].created_at + ProcessingDelay
    <3> DEFINE settlements == {n \in DOMAIN outbox_work :
                 outbox_work[n].kind = "SETTLE_PAYMENT" /\ outbox_work[n].subject_id = i}
    <3>1. PICK n \in settlements : TRUE
      BY DEF DInv, IInv, TInv, SettlementRows, HasSettlementRow
    <3>2. \A m \in settlements : m = n
      BY DEF DInv, IInv, TInv, OneSettlementRow
    <3>3. Cardinality(settlements) = 1
      BY <3>1, <3>2, OneOfOne
    <3>4. \A m \in settlements :
            outbox_work[m].due_at = payments[i].created_at + ProcessingDelay
      BY DEF DInv, IInv, TInv, SettlementsDue
    <3> QED  BY <3>3, <3>4
  <2>2. ASSUME NEW d \in DOMAIN webhook_deliveries
        PROVE  Fits(d)
    BY DEF DInv, CInv, DeliveriesFit
  <2> QED  BY <2>1, <2>2 DEF CommittedTogether, Fits
<1> QED  BY <1>1, Invariance, PTL

(* The create path keeps its promise beside the rest of the service, which *)
(* the promise does not see.                                               *)
THEOREM PromiseStaysKept == Spec => PromiseKept
<1>1. Init => CP!Promise!Init
  <2>1. CPP!Init => CPP!Promise!Init
    BY SameAssumptions, CPP!InitKeepsPromise
  <2> QED  BY <2>1, SameStart, SamePromise DEF Init
<1>2. DInv /\ DInv' /\ [Next]_vars => [CP!Promise!Next]_(CP!Promise!vars)
  <2> SUFFICES ASSUME DInv, DInv', [Next]_vars
               PROVE  CPP!Promise!Next \/ UNCHANGED CPP!Promise!vars
    BY SamePromise
  <2>1. ASSUME NEW r \in Request, Requesting(r)
        PROVE  CPP!Promise!Next \/ UNCHANGED CPP!Promise!vars
    <3>1. CPP!Next /\ CPP!TypeOK /\ CPP!IInv /\ CPP!RInv
      BY <2>1, RequestFrame DEF DInv, CPP!CreateInv, CPP!Next
    <3> QED  BY <3>1, SameAssumptions, CPP!StepKeepsPromise
  <2>2. CASE CPP!Beyond
    BY <2>2, SameAssumptions, CPP!BeyondIsInvisible
  <2>3. ASSUME UNCHANGED <<idempotency_keys, requestVars>>
        PROVE  /\ UNCHANGED payments => CPP!Beyond
               /\ \A w \in Worker : Settles(w) => CPP!Beyond
    BY <2>3, SilenceIsBeyond, SettlingIsBeyond DEF DInv
  <2>4. CASE Subscribing
    BY <2>2, <2>3, <2>4 DEF Subscribing, SubscriptionNext, Subscribe
  <2>5. \A w \in Worker : SettleUpdate(w) => UNCHANGED payments
    BY DEF SettleUpdate, tables
  <2>6. Silent => UNCHANGED payments
    BY DEF Silent, NothingToAnnounce
  <2> QED  BY <2>1, <2>2, <2>3, <2>4, <2>5, <2>6, StepCases
<1> QED
  BY <1>1, <1>2, Invariance, PTL DEF Spec, PromiseKept, CP!KeepsPromise, CP!Promise!Spec

-----------------------------------------------------------------------------
(* Terminal events. *)

(* Payment i has a delivery for the status it is in. *)
Told(i) ==
  \E d \in DOMAIN webhook_deliveries :
    /\ webhook_deliveries[d].payment_id = i
    /\ webhook_deliveries[d].event_type = EventTypeForStatus(payments[i].status)

(* What is settled stays announced, whoever subscribes. *)
LEMMA SettledStaysTold ==
  ASSUME TerminalEventAnnounced, ConcernsKept, DeliveriesGrow,
         NEW i \in DOMAIN payments, payments'[i].status = payments[i].status,
         NEW j \in DOMAIN webhook_subscriptions',
         payments'[i].status \in TerminalStatus, Concerns(j, i)',
         EventTypeForStatus(payments'[i].status) \in webhook_subscriptions'[j].events
  PROVE  Told(i)'
<1>1. /\ j \in DOMAIN webhook_subscriptions
      /\ webhook_subscriptions'[j] = webhook_subscriptions[j]
  BY DEF ConcernsKept, Concerns
<1>2. Told(i)
  BY <1>1 DEF TerminalEventAnnounced, Told, Concerns, ConcernsKept
<1> QED  BY <1>2 DEF Told, DeliveriesGrow

LEMMA TerminalStaysAnnounced ==
  ASSUME TerminalEventAnnounced, ConcernsKept, DeliveriesGrow,
         \A i \in DOMAIN payments' :
           payments'[i].status \in TerminalStatus =>
             \/ i \in DOMAIN payments /\ payments'[i].status = payments[i].status
             \/ \A j \in DOMAIN webhook_subscriptions' :
                  /\ Concerns(j, i)'
                  /\ EventTypeForStatus(payments'[i].status) \in webhook_subscriptions'[j].events
                  => Told(i)'
  PROVE  TerminalEventAnnounced'
<1> SUFFICES ASSUME NEW i \in DOMAIN payments', NEW j \in DOMAIN webhook_subscriptions',
                    payments'[i].status \in TerminalStatus, Concerns(j, i)',
                    EventTypeForStatus(payments'[i].status) \in webhook_subscriptions'[j].events
             PROVE  Told(i)'
  BY DEF TerminalEventAnnounced, Told, Concerns
<1> QED  BY SettledStaysTold

LEMMA SettlingTells ==
  ASSUME DInv, TerminalEventAnnounced, NEW w \in Worker, Settles(w)
  PROVE  TerminalEventAnnounced'
<1>0. PICK id, st : id = Subject(w) /\ st = Settled(w).status
  OBVIOUS
<1>1. /\ id \in DOMAIN payments /\ id \in Nat /\ TInv
      /\ st \in Status /\ wnow[w] \in Nat /\ wtarget[w] \in Nat
      /\ DOMAIN payments' = DOMAIN payments
      /\ payments'[id].status = st /\ payments'[id].account = payments[id].account
      /\ \A i \in DOMAIN payments : i # id => payments'[i] = payments[i]
      /\ webhook_deliveries' = DeliveriesWith(wtarget[w], id, st, wnow[w])
      /\ UNCHANGED webhook_subscriptions /\ ConcernsKept /\ TablesGrow
  BY <1>0, SettlementWrites DEF DInv, IInv
<1>2. \A j \in DOMAIN webhook_subscriptions :
        Concerns(j, id) => wtarget[w] = TargetFor(j, st)
  BY <1>0 DEF DInv, CInv, TargetsFit, Settles
<1>3. ASSUME NEW j \in DOMAIN webhook_subscriptions,
             Concerns(j, id), EventTypeForStatus(st) \in webhook_subscriptions[j].events
      PROVE  \E d \in DOMAIN webhook_deliveries' :
               /\ webhook_deliveries'[d].payment_id = id
               /\ webhook_deliveries'[d].event_type = EventTypeForStatus(payments'[id].status)
  <2>1. wtarget[w] = j
    BY <1>2, <1>3 DEF TargetFor
  <2>2. wtarget[w] # NoSubscription
    BY <1>1, <2>1, LenProperties DEF NoSubscription, TInv, TablesTypeOK
  <2> DEFINE d == Len(webhook_deliveries) + 1
  <2>3. d \in DOMAIN webhook_deliveries' /\ d \notin DOMAIN webhook_deliveries
    BY <1>1, <2>2, DeliveriesWithRows, LenProperties DEF TInv, TablesTypeOK
  <2>4. webhook_deliveries'[d] = NewDelivery(wtarget[w], id, st, wnow[w])
    BY <1>1, <2>3, DeliveriesWithRows
  <2> QED  BY <1>1, <2>3, <2>4 DEF NewDelivery
<1>4. \A j \in DOMAIN webhook_subscriptions' :
        /\ Concerns(j, id)'
        /\ EventTypeForStatus(payments'[id].status) \in webhook_subscriptions'[j].events
        => Told(id)'
  BY <1>1, <1>3 DEF Concerns, Told
<1>5. \A i \in DOMAIN payments' :
        \/ i \in DOMAIN payments /\ payments'[i].status = payments[i].status
        \/ \A j \in DOMAIN webhook_subscriptions' :
             /\ Concerns(j, i)'
             /\ EventTypeForStatus(payments'[i].status) \in webhook_subscriptions'[j].events
             => Told(i)'
  <2> SUFFICES ASSUME NEW i \in DOMAIN payments'
               PROVE  \/ i \in DOMAIN payments /\ payments'[i].status = payments[i].status
                      \/ \A j \in DOMAIN webhook_subscriptions' :
                           /\ Concerns(j, i)'
                           /\ EventTypeForStatus(payments'[i].status)
                                \in webhook_subscriptions'[j].events
                           => Told(i)'
    OBVIOUS
  <2>1. CASE i = id
    BY <1>4, <2>1
  <2>2. CASE i # id
    BY <1>1, <2>2
  <2> QED  BY <2>1, <2>2
<1> QED  BY <1>1, <1>5, TerminalStaysAnnounced DEF TablesGrow

LEMMA StepKeepsAnnounced == DInv /\ TerminalEventAnnounced /\ [Next]_vars => TerminalEventAnnounced'
<1> SUFFICES ASSUME DInv, TerminalEventAnnounced, [Next]_vars PROVE TerminalEventAnnounced'
  OBVIOUS
<1>1. ASSUME NEW r \in Request, Requesting(r)
      PROVE  TerminalEventAnnounced'
  <2>1. /\ UNCHANGED <<clock, webhook_subscriptions>>
        /\ idempotency_keys' \in [Scope -> IdempotencyRow] /\ IInv
        /\ ask[r].scope \in Scope /\ ask[r].body \in Body
        /\ now[r] \in Nat /\ target[r] \in Nat
    BY <1>1, RequestFrame DEF DInv
  <2>2. CASE UNCHANGED <<payments, webhook_deliveries, outbox_work>>
    BY <2>1, <2>2 DEF TerminalEventAnnounced
  <2>3. CASE InsertPayment(ask[r].scope, ask[r].body, now[r], target[r])
    <3>0. PICK id : id = Len(payments) + 1
      OBVIOUS
    <3>1. /\ DOMAIN payments' = DOMAIN payments \cup {id}
          /\ payments'[id].status = "PROCESSING"
          /\ \A i \in DOMAIN payments : payments'[i] = payments[i]
          /\ TablesGrow /\ ConcernsKept
      BY <2>1, <2>3, <3>0, CreationWrites
    <3>2. "PROCESSING" \notin TerminalStatus
      BY DEF TerminalStatus
    <3>3. \A i \in DOMAIN payments' :
            payments'[i].status \in TerminalStatus =>
              i \in DOMAIN payments /\ payments'[i].status = payments[i].status
      BY <3>1, <3>2
    <3> QED  BY <3>1, <3>3, TerminalStaysAnnounced DEF TablesGrow
  <2> QED  BY <1>1, <2>2, <2>3, RequestFrame
<1>2. CASE Subscribing
  <2>1. ConcernsKept /\ UNCHANGED <<payments, webhook_deliveries>>
    BY <1>2, SubscribeKeepsConcerns DEF Subscribing, DInv
  <2>2. DeliveriesGrow
    BY <2>1 DEF DeliveriesGrow
  <2> QED  BY <2>1, <2>2, TerminalStaysAnnounced
<1>3. CASE Silent
  <2>1. ConcernsKept /\ DeliveriesGrow /\ UNCHANGED payments
    BY <1>3, SilentKeepsConcerns DEF Silent, NothingToAnnounce
  <2> QED  BY <2>1, TerminalStaysAnnounced
<1>4. ASSUME NEW w \in Worker, SettleUpdate(w)
      PROVE  TerminalEventAnnounced'
  BY <1>4 DEF SettleUpdate, tables, TerminalEventAnnounced
<1> QED  BY <1>1, <1>2, <1>3, <1>4, SettlingTells, StepCases

(* A settled payment whose account subscribed before it was committed has  *)
(* its terminal event, though its creation raced with the subscription,    *)
(* whoever settled it and whatever failed before.                          *)
THEOREM TerminalEventsAnnounced == Spec => []TerminalEventAnnounced
<1>1. Init => TerminalEventAnnounced
  BY DEF Init, CP!Init, CP!TablesInit, TerminalEventAnnounced
<1> QED  BY <1>1, StepKeepsAnnounced, Invariance, PTL DEF Spec
================================================================================
