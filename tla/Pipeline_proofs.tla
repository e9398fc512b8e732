--------------------------- MODULE Pipeline_proofs ---------------------------
(***************************************************************************)
(* The theorems about Pipeline: AfterCreation_proofs says that what        *)
(* workers, retries and subscriptions do keeps IInv and CInv; here are the *)
(* create requests and the conclusions.                                    *)
(***************************************************************************)
EXTENDS Pipeline, AfterCreation_proofs

(* Whatever is not a step of a create request.                             *)
Others ==
  \/ Subscription \/ Faults \/ Retrying \/ Passing \/ UNCHANGED vars
  \/ \E w \in Worker : Working(w)

LEMMA StepCases ==
  ASSUME [Next]_vars
  PROVE  Others \/ \E r \in CreateRequest : Creating(r)
  BY DEF Next, Others

LEMMA CommitInserts ==
  ASSUME IInv, RequestTypeOK, NEW r \in CreateRequest, Creating(r), Commit(r)
  PROVE  /\ stage[r] = "commit"
         /\ ask[r].scope \in Scope /\ ask[r].body \in Body
         /\ now[r] \in Nat /\ target[r] \in Nat
         /\ InsertPayment(ask[r].scope, ask[r].body, now[r], target[r])
         /\ UNCHANGED <<clock, webhook_subscriptions, workerVars, retryVars>>
         /\ idempotency_keys' \in [Scope -> IdempotencyRow]
<1>1. ask[r] \in Ask /\ now[r] \in Nat
  BY DEF RequestTypeOK
<1>2. target[r] \in {NoSubscription} \cup DOMAIN webhook_subscriptions
  BY DEF RequestTypeOK
<1>3. DOMAIN webhook_subscriptions \subseteq Nat
  BY LenProperties DEF IInv, TInv, TablesTypeOK
<1>4. target[r] \in Nat
  BY <1>2, <1>3 DEF NoSubscription
<1> QED  BY <1>1, <1>4 DEF Creating, Commit, IInv, TInv, TablesTypeOK, Ask

(* Reading the clock or the subscription writes nothing. *)
LEMMA ReadingWritesNothing ==
  ASSUME NEW r \in CreateRequest, Creating(r), Arrive(r) \/ Work(r)
  PROVE  UNCHANGED <<clock, tables, workerVars, retryVars>>
  BY DEF Creating, Arrive, Work

-----------------------------------------------------------------------------
(* IInv holds beside create requests. *)

LEMMA OthersKeepIInv ==
  ASSUME IInv, Others
  PROVE  IInv'
<1>1. CASE Subscription
  BY <1>1, SubscriptionKeepsIInv DEF Subscription
<1>2. CASE Faults
  BY <1>2, FaultsKeepIInv DEF Faults
<1>3. CASE Retrying
  BY <1>3, RetryingKeepsIInv DEF Retrying
<1>4. CASE Passing \/ UNCHANGED vars
  <2>1. clock' \in Nat
    BY <1>4 DEF Passing, Tick, vars, IInv, TInv, TablesTypeOK
  <2> QED  BY <1>4, <2>1, ElsewhereKeepsIInv DEF Passing, vars, tables, IInv, TInv, TablesTypeOK
<1>5. ASSUME NEW w \in Worker, Working(w)
      PROVE  IInv'
  BY <1>5, WorkingKeepsIInv DEF Working
<1> QED  BY <1>1, <1>2, <1>3, <1>4, <1>5 DEF Others

LEMMA CreatingKeepsIInv ==
  ASSUME IInv, RequestTypeOK, NEW r \in CreateRequest, Creating(r)
  PROVE  IInv'
<1>1. CASE Arrive(r) \/ Work(r)
  <2>1. UNCHANGED <<clock, tables, workerVars, retryVars>>
    BY <1>1, ReadingWritesNothing
  <2> QED  BY <2>1, ElsewhereKeepsIInv DEF tables, IInv, TInv, TablesTypeOK
<1>2. CASE Commit(r)
  BY <1>2, CommitInserts, CreationKeepsIInv
<1> QED  BY <1>1, <1>2 DEF Creating

(* What the steps beside create requests are, as far as events go: they    *)
(* announce nothing, choose whom to notify, settle or subscribe.           *)
LEMMA WhatOthersDo ==
  ASSUME IInv, Others
  PROVE  /\ UNCHANGED requestVars
         /\ \/ Silent
            \/ \E w \in Worker : SettleUpdate(w) /\ UNCHANGED clock
            \/ \E w \in Worker : Settles(w)
            \/ SubscriptionNext /\ UNCHANGED <<clock, workerVars>>
<1>1. CASE Subscription
  BY <1>1 DEF Subscription
<1>2. CASE Faults
  <2>1. PICK w \in Worker : (WorkerFails(w) \/ WorkerFailsAfter(w)) /\ UNCHANGED clock
    BY <1>2 DEF Faults
  <2> QED  BY <1>2, <2>1, FaultIsSilentOrSettles DEF Faults
<1>3. CASE Retrying
  BY <1>3, RetryingIsSilent DEF Retrying
<1>4. CASE Passing \/ UNCHANGED vars
  BY <1>4, ElsewhereIsSilent DEF Passing, vars, tables
<1>5. ASSUME NEW w \in Worker, Working(w)
      PROVE  /\ UNCHANGED requestVars /\ UNCHANGED clock
             /\ Silent \/ SettleUpdate(w) \/ Settles(w)
  BY <1>5, WorkIsSilentOrSettles DEF Working
<1> QED  BY <1>1, <1>2, <1>3, <1>4, <1>5 DEF Others

(* What all of them leave of payments and subscriptions. *)
LEMMA WhatOthersKeep ==
  ASSUME IInv, Others
  PROVE  /\ ConcernsKept
         /\ DOMAIN payments' = DOMAIN payments
         /\ \A i \in DOMAIN payments :
              \/ payments'[i] = payments[i]
              \/ \E w \in Worker :
                   /\ wstage[w] = "commit" /\ i = Subject(w)
                   /\ payments'[i] = Settled(w)
<1>1. CASE Silent \/ \E w \in Worker : SettleUpdate(w)
  <2>1. ConcernsKept /\ UNCHANGED payments
    BY <1>1 DEF Silent, NothingToAnnounce, SettleUpdate, tables, ConcernsKept
  <2> QED  BY <2>1
<1>2. ASSUME NEW w \in Worker, Settles(w)
      PROVE  /\ ConcernsKept /\ DOMAIN payments' = DOMAIN payments
             /\ \A i \in DOMAIN payments :
                  \/ payments'[i] = payments[i]
                  \/ /\ wstage[w] = "commit" /\ i = Subject(w)
                     /\ payments'[i] = Settled(w)
  BY <1>2, SettlementWrites DEF Settles
<1>3. CASE SubscriptionNext
  BY <1>3, SubscribeKeepsConcerns
<1> QED  BY <1>1, <1>2, <1>3, WhatOthersDo

-----------------------------------------------------------------------------
(* Registers of create requests. *)

(* Whom a request is about to notify: the one subscription of its account  *)
(* if it lists the event and was there when the request looked.            *)
ChosenAsFound(r) ==
  /\ Listed(target[r], ask[r].scope[1], "PROCESSING")
  /\ \A j \in DOMAIN webhook_subscriptions :
       webhook_subscriptions[j].account = ask[r].scope[1] =>
         target[r] = IF j =< heard[r] THEN TargetFor(j, "PROCESSING") ELSE NoSubscription

RequestsFit ==
  \A r \in CreateRequest :
    /\ stage[r] = "commit" => ChosenAsFound(r)
    /\ stage[r] = "done" =>
         made[r] \in DOMAIN payments /\ payments[made[r]].created_at = now[r]

(* What was read of the clock, and when. *)
TimesFit ==
  /\ \A w \in Worker : wnow[w] =< clock + Skew
  /\ \A i \in DOMAIN payments : payments[i].updated_at =< clock + Skew
  /\ \A r \in CreateRequest :
       stage[r] # "idle" => now[r] =< clock + Skew /\ began[r] =< now[r] + Skew

PipelineInv == IInv /\ CInv /\ RequestTypeOK /\ RequestsFit /\ TimesFit

LEMMA LongerKept ==
  ASSUME NEW S, NEW s \in Seq(S), NEW t \in Seq(S), DOMAIN s \subseteq DOMAIN t
  PROVE  0..Len(s) \subseteq 0..Len(t)
<1>1. /\ Len(s) \in Nat /\ Len(t) \in Nat
      /\ DOMAIN s = 1..Len(s) /\ DOMAIN t = 1..Len(t)
  BY LenProperties
<1>2. CASE Len(s) = 0
  BY <1>1, <1>2
<1>3. CASE Len(s) # 0
  <2>1. Len(s) \in DOMAIN t
    BY <1>1, <1>3
  <2> QED  BY <1>1, <2>1
<1> QED  BY <1>2, <1>3

LEMMA OthersKeepTypes ==
  ASSUME PipelineInv, Others
  PROVE  RequestTypeOK'
<1>1. /\ IInv' /\ UNCHANGED requestVars /\ ConcernsKept
      /\ DOMAIN payments' = DOMAIN payments
  BY OthersKeepIInv, WhatOthersDo, WhatOthersKeep DEF PipelineInv
<1>2. DOMAIN webhook_subscriptions \subseteq DOMAIN webhook_subscriptions'
  BY <1>1 DEF ConcernsKept
<1>3. 0..Len(webhook_subscriptions) \subseteq 0..Len(webhook_subscriptions')
  <2>1. /\ webhook_subscriptions \in Seq(SubscriptionRow)
        /\ webhook_subscriptions' \in Seq(SubscriptionRow)
    BY <1>1 DEF PipelineInv, IInv, TInv, TablesTypeOK
  <2> QED  BY <1>2, <2>1, LongerKept
<1>4. (target \in [CreateRequest -> {NoSubscription} \cup DOMAIN webhook_subscriptions])'
  BY <1>1, <1>2 DEF PipelineInv, RequestTypeOK, requestVars
<1>5. (heard \in [CreateRequest -> 0..Len(webhook_subscriptions)])'
  BY <1>1, <1>3 DEF PipelineInv, RequestTypeOK, requestVars
<1> QED  BY <1>1, <1>4, <1>5 DEF PipelineInv, RequestTypeOK, requestVars

LEMMA ArriveKeepsTypes ==
  ASSUME RequestTypeOK, TablesTypeOK, NEW r \in CreateRequest, Arrive(r)
  PROVE  RequestTypeOK'
<1>1. PICK t \in Nat : now' = [now EXCEPT ![r] = t]
  BY NowIsNat DEF Arrive
<1>2. UNCHANGED <<webhook_subscriptions, payments>> /\ clock \in Nat
  BY DEF Arrive, tables, TablesTypeOK
<1> QED  BY <1>1, <1>2 DEF Arrive, RequestTypeOK

LEMMA WorkKeepsTypes ==
  ASSUME RequestTypeOK, TablesTypeOK, NEW r \in CreateRequest, Work(r)
  PROVE  RequestTypeOK'
<1>1. PICK sub \in SubscriptionToNotify(ask[r].scope[1], CreationStatus(ask[r].body.token)) :
        target' = [target EXCEPT ![r] = sub]
  BY DEF Work
<1>2. sub \in {NoSubscription} \cup DOMAIN webhook_subscriptions
  BY <1>1 DEF SubscriptionToNotify, LoadActive
<1>3. Len(webhook_subscriptions) \in 0..Len(webhook_subscriptions)
  BY LenProperties DEF TablesTypeOK
<1>4. UNCHANGED <<webhook_subscriptions, payments>>
  BY DEF Work, tables
<1> QED  BY <1>1, <1>2, <1>3, <1>4 DEF Work, RequestTypeOK

(* What the commit of a request makes of the tables. *)
LEMMA CommitWrites ==
  ASSUME IInv, RequestTypeOK, NEW r \in CreateRequest, Creating(r), Commit(r),
         NEW id, id = Len(payments) + 1
  PROVE  /\ id \in Nat /\ id \notin DOMAIN payments
         /\ DOMAIN payments' = DOMAIN payments \cup {id}
         /\ payments'[id] = NewPayment(ask[r].scope, ask[r].body, now[r])
         /\ payments'[id].account = ask[r].scope[1] /\ payments'[id].status = "PROCESSING"
         /\ \A i \in DOMAIN payments : payments'[i] = payments[i]
         /\ webhook_deliveries' = DeliveriesWith(target[r], id, "PROCESSING", now[r])
         /\ made' = [made EXCEPT ![r] = id]
         /\ ConcernsKept
<1>1. /\ ask[r].scope \in Scope /\ ask[r].body \in Body
      /\ now[r] \in Nat /\ target[r] \in Nat
      /\ InsertPayment(ask[r].scope, ask[r].body, now[r], target[r])
      /\ UNCHANGED <<clock, webhook_subscriptions, workerVars, retryVars>>
      /\ idempotency_keys' \in [Scope -> IdempotencyRow]
  BY CommitInserts
<1>2. made' = [made EXCEPT ![r] = id]
  BY DEF Commit
<1>3. PICK s \in Scope, b \in Body, t \in Nat, sub \in Nat :
        s = ask[r].scope /\ b = ask[r].body /\ t = now[r] /\ sub = target[r]
  BY <1>1
<1>4. /\ InsertPayment(s, b, t, sub)
      /\ UNCHANGED <<clock, webhook_subscriptions>>
      /\ idempotency_keys' \in [Scope -> IdempotencyRow]
  BY <1>1, <1>3
<1>5. /\ id \in Nat /\ id \notin DOMAIN payments
      /\ DOMAIN payments' = DOMAIN payments \cup {id}
      /\ payments'[id] = NewPayment(s, b, t)
      /\ payments'[id].account = s[1] /\ payments'[id].status = "PROCESSING"
      /\ \A i \in DOMAIN payments : payments'[i] = payments[i]
      /\ webhook_deliveries' = DeliveriesWith(sub, id, "PROCESSING", t)
      /\ ConcernsKept
  BY <1>4, CreationWrites, Z3T(60)
<1> QED  BY <1>2, <1>3, <1>5

LEMMA CommitKeepsTypes ==
  ASSUME IInv, RequestTypeOK, NEW r \in CreateRequest, Creating(r), Commit(r)
  PROVE  RequestTypeOK'
<1> DEFINE id == Len(payments) + 1
<1> HIDE DEF id
<1>1. /\ DOMAIN payments' = DOMAIN payments \cup {id}
      /\ made' = [made EXCEPT ![r] = id]
  BY CommitWrites DEF id
<1>2. (made \in [CreateRequest -> {NoPayment} \cup DOMAIN payments])'
  BY <1>1 DEF RequestTypeOK
<1> QED  BY <1>2 DEF Commit, RequestTypeOK

LEMMA CreatingKeepsTypes ==
  ASSUME IInv, RequestTypeOK, NEW r \in CreateRequest, Creating(r)
  PROVE  RequestTypeOK'
  BY ArriveKeepsTypes, WorkKeepsTypes, CommitKeepsTypes DEF Creating, IInv, TInv

-----------------------------------------------------------------------------
(* CInv holds beside create requests. *)

LEMMA OthersKeepCInv ==
  ASSUME IInv, CInv, Others
  PROVE  CInv'
  BY WhatOthersDo, SilentKeepsCInv, SettleUpdateChooses, SettlingKeepsCInv, SubscriptionKeepsCInv

LEMMA CreatingKeepsCInv ==
  ASSUME PipelineInv, NEW r \in CreateRequest, Creating(r)
  PROVE  CInv'
<1>1. CASE Arrive(r) \/ Work(r)
  <2>1. UNCHANGED <<clock, tables, workerVars, retryVars>>
    BY <1>1, ReadingWritesNothing
  <2> QED  BY <2>1, ElsewhereIsSilent, SilentKeepsCInv DEF tables, PipelineInv
<1>2. CASE Commit(r)
  <2>1. /\ ask[r].scope \in Scope /\ ask[r].body \in Body
        /\ now[r] \in Nat /\ target[r] \in Nat /\ stage[r] = "commit"
        /\ InsertPayment(ask[r].scope, ask[r].body, now[r], target[r])
        /\ UNCHANGED <<clock, webhook_subscriptions, workerVars>>
        /\ idempotency_keys' \in [Scope -> IdempotencyRow]
    BY <1>2, CommitInserts DEF PipelineInv
  <2>2. Listed(target[r], ask[r].scope[1], "PROCESSING")
    BY <2>1 DEF PipelineInv, RequestsFit, ChosenAsFound
  <2> QED  BY <2>1, <2>2, CreationKeepsCInv DEF PipelineInv
<1> QED  BY <1>1, <1>2 DEF Creating

LEMMA OthersKeepFit ==
  ASSUME PipelineInv, Others
  PROVE  RequestsFit'
<1>1. /\ UNCHANGED requestVars /\ ConcernsKept /\ DOMAIN payments' = DOMAIN payments
      /\ \A i \in DOMAIN payments : payments'[i].created_at = payments[i].created_at
  <2>1. \A w \in Worker :
          wstage[w] = "commit" => Settled(w).created_at = payments[Subject(w)].created_at
    BY SettledRow DEF PipelineInv
  <2> QED  BY <2>1, WhatOthersDo, WhatOthersKeep DEF PipelineInv
<1>2. ASSUME NEW r \in CreateRequest, stage[r] = "done"
      PROVE  (made[r] \in DOMAIN payments /\ payments[made[r]].created_at = now[r])'
  BY <1>1, <1>2 DEF PipelineInv, RequestsFit, requestVars
<1>3. ASSUME NEW r \in CreateRequest, stage[r] = "commit"
      PROVE  ChosenAsFound(r)'
  <2>1. ChosenAsFound(r)
    BY <1>3 DEF PipelineInv, RequestsFit
  <2>2. Listed(target[r], ask[r].scope[1], "PROCESSING")'
    BY <1>1, <2>1 DEF ChosenAsFound, Listed, ConcernsKept, requestVars
  <2>3. ASSUME NEW j \in DOMAIN webhook_subscriptions',
               webhook_subscriptions'[j].account = ask[r].scope[1]
        PROVE  target[r] = IF j =< heard[r] THEN TargetFor(j, "PROCESSING")'
                                            ELSE NoSubscription
    <3>1. CASE j \in DOMAIN webhook_subscriptions
      <4>1. webhook_subscriptions'[j] = webhook_subscriptions[j]
        BY <1>1, <3>1 DEF ConcernsKept
      <4> QED  BY <2>1, <2>3, <3>1, <4>1 DEF ChosenAsFound, TargetFor
    <3>2. CASE j \notin DOMAIN webhook_subscriptions
      <4>1. OneSubscription' /\ TablesTypeOK /\ TablesTypeOK'
        BY OthersKeepCInv, OthersKeepIInv DEF PipelineInv, CInv, IInv, TInv
      <4>2. target[r] = NoSubscription
        <5>1. ASSUME target[r] # NoSubscription
              PROVE  FALSE
          <6>1. /\ target[r] \in DOMAIN webhook_subscriptions
                /\ target[r] \in DOMAIN webhook_subscriptions'
                /\ webhook_subscriptions'[target[r]].account = ask[r].scope[1]
            BY <1>1, <2>1, <5>1 DEF ChosenAsFound, Listed, ConcernsKept
          <6>2. target[r] = j
            BY <2>3, <4>1, <6>1 DEF OneSubscription
          <6> QED  BY <3>2, <6>1, <6>2
        <5> QED  BY <5>1
      <4>3. ~(j =< heard[r])
        <5>1. heard[r] \in 0..Len(webhook_subscriptions)
          BY DEF PipelineInv, RequestTypeOK
        <5>2. /\ Len(webhook_subscriptions) \in Nat
              /\ DOMAIN webhook_subscriptions = 1..Len(webhook_subscriptions)
              /\ Len(webhook_subscriptions') \in Nat
              /\ DOMAIN webhook_subscriptions' = 1..Len(webhook_subscriptions')
          BY <4>1, LenProperties DEF TablesTypeOK
        <5> QED  BY <2>3, <3>2, <5>1, <5>2
      <4> QED  BY <4>2, <4>3
    <3> QED  BY <3>1, <3>2
  <2> QED  BY <1>1, <2>2, <2>3 DEF ChosenAsFound, requestVars
<1> QED  BY <1>1, <1>2, <1>3 DEF RequestsFit, requestVars

LEMMA ArriveKeepsFit ==
  ASSUME PipelineInv, NEW r \in CreateRequest, Arrive(r)
  PROVE  RequestsFit'
<1>1. /\ UNCHANGED <<payments, webhook_subscriptions, ask, target, heard, made>>
      /\ stage' = [stage EXCEPT ![r] = "work"] /\ stage[r] = "idle"
      /\ \A q \in CreateRequest : q # r => now'[q] = now[q]
  BY DEF Arrive, tables, PipelineInv, RequestTypeOK
<1>2. ASSUME NEW q \in CreateRequest, stage'[q] = "commit"
      PROVE  ChosenAsFound(q)'
  <2>1. ChosenAsFound(q)
    BY <1>1, <1>2 DEF PipelineInv, RequestsFit, RequestTypeOK
  <2> QED  BY <1>1, <2>1 DEF ChosenAsFound, Listed, TargetFor
<1>3. ASSUME NEW q \in CreateRequest, stage'[q] = "done"
      PROVE  (made[q] \in DOMAIN payments /\ payments[made[q]].created_at = now[q])'
  BY <1>1, <1>3 DEF PipelineInv, RequestsFit, RequestTypeOK
<1> QED  BY <1>2, <1>3 DEF RequestsFit

LEMMA WorkKeepsFit ==
  ASSUME PipelineInv, NEW r \in CreateRequest, Work(r)
  PROVE  RequestsFit'
<1>1. PICK sub \in SubscriptionToNotify(ask[r].scope[1], "PROCESSING") :
        target' = [target EXCEPT ![r] = sub]
  BY DEF Work, CreationStatus
<1>2. /\ UNCHANGED <<payments, webhook_subscriptions, ask, now, made>>
      /\ stage' = [stage EXCEPT ![r] = "commit"]
      /\ heard' = [heard EXCEPT ![r] = Len(webhook_subscriptions)]
  BY DEF Work, tables
<1>3. ChosenAsFound(r)'
  <2>1. target'[r] = sub /\ heard'[r] = Len(webhook_subscriptions)
    BY <1>1, <1>2 DEF PipelineInv, RequestTypeOK
  <2>2. Listed(sub, ask[r].scope[1], "PROCESSING")
    BY <1>1, TheChosenIsListed
  <2>3. \A j \in DOMAIN webhook_subscriptions : j =< Len(webhook_subscriptions)
    BY LenProperties DEF PipelineInv, IInv, TInv, TablesTypeOK
  <2>4. \A j \in DOMAIN webhook_subscriptions :
          webhook_subscriptions[j].account = ask[r].scope[1] =>
            sub = TargetFor(j, "PROCESSING")
    BY <1>1, TheOneToNotify DEF PipelineInv, CInv
  <2> QED  BY <1>2, <2>1, <2>2, <2>3, <2>4 DEF ChosenAsFound, Listed, TargetFor
<1>4. ASSUME NEW q \in CreateRequest, q # r, stage'[q] = "commit"
      PROVE  ChosenAsFound(q)'
  <2>1. ChosenAsFound(q) /\ target'[q] = target[q] /\ heard'[q] = heard[q]
    BY <1>1, <1>2, <1>4 DEF PipelineInv, RequestsFit, RequestTypeOK
  <2> QED  BY <1>2, <2>1 DEF ChosenAsFound, Listed, TargetFor
<1>5. ASSUME NEW q \in CreateRequest, stage'[q] = "done"
      PROVE  (made[q] \in DOMAIN payments /\ payments[made[q]].created_at = now[q])'
  BY <1>2, <1>5 DEF PipelineInv, RequestsFit, RequestTypeOK
<1> QED  BY <1>3, <1>4, <1>5 DEF RequestsFit

LEMMA CommitKeepsFit ==
  ASSUME PipelineInv, NEW r \in CreateRequest, Creating(r), Commit(r)
  PROVE  RequestsFit'
<1> DEFINE id == Len(payments) + 1
<1> HIDE DEF id
<1>1. /\ id \in Nat /\ DOMAIN payments' = DOMAIN payments \cup {id}
      /\ payments'[id] = NewPayment(ask[r].scope, ask[r].body, now[r])
      /\ \A i \in DOMAIN payments : payments'[i] = payments[i]
      /\ made' = [made EXCEPT ![r] = id]
  BY CommitWrites DEF id, PipelineInv
<1>2. /\ UNCHANGED <<webhook_subscriptions, ask, now, target, heard>>
      /\ stage' = [stage EXCEPT ![r] = "done"]
  BY DEF Commit
<1>3. payments'[id].created_at = now[r]
  BY <1>1 DEF NewPayment
<1>4. ASSUME NEW q \in CreateRequest, stage'[q] = "commit"
      PROVE  ChosenAsFound(q)'
  <2>1. ChosenAsFound(q)
    BY <1>2, <1>4 DEF PipelineInv, RequestsFit, RequestTypeOK
  <2> QED  BY <1>2, <2>1 DEF ChosenAsFound, Listed, TargetFor
<1>5. ASSUME NEW q \in CreateRequest, stage'[q] = "done"
      PROVE  (made[q] \in DOMAIN payments /\ payments[made[q]].created_at = now[q])'
  BY <1>1, <1>2, <1>3, <1>5 DEF PipelineInv, RequestsFit, RequestTypeOK
<1> QED  BY <1>4, <1>5 DEF RequestsFit

LEMMA CreatingKeepsFit ==
  ASSUME PipelineInv, NEW r \in CreateRequest, Creating(r)
  PROVE  RequestsFit'
  BY ArriveKeepsFit, WorkKeepsFit, CommitKeepsFit DEF Creating

-----------------------------------------------------------------------------
(* The readings of the clock. *)

LEMMA WorkersRead ==
  ASSUME WorkerTypeOK, NEW w \in Worker,
         WorkerStep(w) \/ WorkerFails(w) \/ WorkerFailsAfter(w)
  PROVE  \A v \in Worker : wnow'[v] = wnow[v] \/ wnow'[v] = 0 \/ wnow'[v] \in Now
<1>1. CASE ClaimDue(w)
  BY <1>1 DEF ClaimDue, WorkerTypeOK
<1>2. CASE UNCHANGED wnow
  BY <1>2
<1>3. CASE EndBatch(w)
  BY <1>3 DEF EndBatch, WorkerTypeOK
<1> QED  BY <1>1, <1>2, <1>3 DEF WorkerStep, ClaimCommits, NextItem, BatchDone, SettleLoad,
       SettleUpdate, SettleCommit, DeliverLoad, Send, RecordAttempt, ItemDone, workerRegisters,
       WorkerFails, WorkerFailsAfter

LEMMA NowIsNear == \A t \in Now : t \in Nat /\ t =< clock + Skew /\ clock =< t + Skew
  BY NowIsNat DEF Now

LEMMA OthersKeepTimes ==
  ASSUME PipelineInv, Others
  PROVE  TimesFit'
<1>1. /\ clock \in Nat /\ Skew \in Nat /\ TimesFit
      /\ wnow \in [Worker -> Nat] /\ wnow' \in [Worker -> Nat]
      /\ IInv'
  BY TimeAssumption, OthersKeepIInv DEF PipelineInv, IInv, TInv, TablesTypeOK, WorkerTypeOK
<1>2. clock' = clock \/ clock' = clock + 1
  BY DEF Others, Subscription, Faults, Retrying, Passing, Tick, Working, vars
<1>3. \A w \in Worker : wnow'[w] = wnow[w] \/ wnow'[w] = 0 \/ wnow'[w] \in Now
  <2>1. CASE UNCHANGED workerVars
    BY <2>1 DEF workerVars
  <2>2. CASE \E w \in Worker : WorkerStep(w) \/ WorkerFails(w) \/ WorkerFailsAfter(w)
    BY <2>2, WorkersRead DEF PipelineInv, IInv
  <2> QED  BY <2>1, <2>2 DEF Others, Subscription, Faults, Retrying, Passing, Working, vars
<1>4. \A w \in Worker : wnow'[w] =< clock' + Skew
  BY <1>1, <1>2, <1>3, NowIsNear DEF TimesFit
<1>5. \A i \in DOMAIN payments' : payments'[i].updated_at =< clock' + Skew
  <2> SUFFICES ASSUME NEW i \in DOMAIN payments'
               PROVE  payments'[i].updated_at =< clock' + Skew
    OBVIOUS
  <2>1. i \in DOMAIN payments /\ payments'[i].updated_at \in Nat
    <3>1. payments' \in Seq(PaymentRow)
      BY <1>1 DEF IInv, TInv, TablesTypeOK
    <3>2. payments'[i] \in PaymentRow
      BY <3>1, ElementOfSeq, LenProperties
    <3> QED  BY <3>2, WhatOthersKeep DEF PipelineInv, PaymentRow
  <2>2. CASE payments'[i] = payments[i]
    BY <1>1, <1>2, <2>1, <2>2 DEF TimesFit
  <2>3. ASSUME NEW w \in Worker, wstage[w] = "commit", payments'[i] = Settled(w)
        PROVE  payments'[i].updated_at =< clock' + Skew
    <3>1. Settled(w).updated_at = wnow[w]
      BY <2>3, SettledRow DEF PipelineInv
    <3> QED  BY <1>1, <1>2, <2>3, <3>1 DEF TimesFit
  <2> QED  BY <2>1, <2>2, <2>3, WhatOthersKeep DEF PipelineInv
<1>6. \A r \in CreateRequest :
        stage'[r] # "idle" => now'[r] =< clock' + Skew /\ began'[r] =< now'[r] + Skew
  <2>1. UNCHANGED <<stage, now, began>> /\ now \in [CreateRequest -> Nat]
    BY WhatOthersDo DEF PipelineInv, requestVars, RequestTypeOK
  <2> QED  BY <1>1, <1>2, <2>1 DEF TimesFit
<1> QED  BY <1>4, <1>5, <1>6 DEF TimesFit

LEMMA CreatingKeepsTimes ==
  ASSUME PipelineInv, NEW r \in CreateRequest, Creating(r)
  PROVE  TimesFit'
<1>1. UNCHANGED clock /\ UNCHANGED wnow
  BY DEF Creating, workerVars
<1>2. CASE Arrive(r)
  <2>1. /\ UNCHANGED payments /\ began' = [began EXCEPT ![r] = clock]
        /\ stage' = [stage EXCEPT ![r] = "work"]
    BY <1>2 DEF Arrive, tables
  <2>2. PICK t \in Now : now' = [now EXCEPT ![r] = t]
    BY <1>2 DEF Arrive
  <2>3. t =< clock + Skew /\ clock =< t + Skew
    BY <2>2, NowIsNear
  <2>4. \A q \in CreateRequest : stage'[q] # "idle" =>
          now'[q] =< clock + Skew /\ began'[q] =< now'[q] + Skew
    BY <2>1, <2>2, <2>3 DEF PipelineInv, TimesFit, RequestTypeOK
  <2> QED  BY <1>1, <2>1, <2>4 DEF PipelineInv, TimesFit
<1>3. CASE Work(r)
  <2>1. UNCHANGED <<payments, now, began>> /\ stage' = [stage EXCEPT ![r] = "commit"]
    BY <1>3 DEF Work, tables
  <2>2. \A q \in CreateRequest : stage'[q] # "idle" => stage[q] # "idle"
    BY <1>3, <2>1 DEF Work, PipelineInv, RequestTypeOK
  <2> QED  BY <1>1, <2>1, <2>2 DEF PipelineInv, TimesFit
<1>4. CASE Commit(r)
  <2> DEFINE id == Len(payments) + 1
  <2> HIDE DEF id
  <2>1. /\ DOMAIN payments' = DOMAIN payments \cup {id}
        /\ payments'[id] = NewPayment(ask[r].scope, ask[r].body, now[r])
        /\ \A i \in DOMAIN payments : payments'[i] = payments[i]
    BY <1>4, CommitWrites DEF id, PipelineInv
  <2>2. payments'[id].updated_at = now[r]
    BY <2>1 DEF NewPayment
  <2>3. UNCHANGED <<now, began>> /\ stage' = [stage EXCEPT ![r] = "done"] /\ stage[r] = "commit"
    BY <1>4 DEF Commit
  <2>4. \A q \in CreateRequest : stage'[q] # "idle" => stage[q] # "idle"
    BY <2>3 DEF PipelineInv, RequestTypeOK
  <2>5. now[r] =< clock + Skew
    BY <2>3 DEF PipelineInv, TimesFit
  <2>6. \A i \in DOMAIN payments' : payments'[i].updated_at =< clock + Skew
    BY <2>1, <2>2, <2>5 DEF PipelineInv, TimesFit
  <2> QED  BY <1>1, <2>3, <2>4, <2>6 DEF PipelineInv, TimesFit
<1> QED  BY <1>2, <1>3, <1>4 DEF Creating

-----------------------------------------------------------------------------
(* The invariant. *)

LEMMA InitPipelineInv == Init => PipelineInv
<1> SUFFICES ASSUME Init PROVE PipelineInv
  OBVIOUS
<1>1. IInv /\ CInv
  BY InitIInv, InitCInv DEF Init
<1>2. RequestTypeOK
  <2>1. webhook_subscriptions = <<>> /\ Len(webhook_subscriptions) = 0
    BY DEF Init, TablesInit
  <2> QED  BY <2>1 DEF Init, RequestTypeOK, NoSubscription, NoPayment
<1>3. RequestsFit
  BY DEF Init, RequestsFit
<1>4. TimesFit
  BY TimeAssumption DEF Init, TablesInit, WorkerInit, TimesFit
<1> QED  BY <1>1, <1>2, <1>3, <1>4 DEF PipelineInv

LEMMA StepKeepsPipelineInv == PipelineInv /\ [Next]_vars => PipelineInv'
<1> SUFFICES ASSUME PipelineInv, [Next]_vars PROVE PipelineInv'
  OBVIOUS
<1>1. CASE Others
  BY <1>1, OthersKeepIInv, OthersKeepCInv, OthersKeepTypes, OthersKeepFit, OthersKeepTimes
  DEF PipelineInv
<1>2. ASSUME NEW r \in CreateRequest, Creating(r)
      PROVE  PipelineInv'
  BY <1>2, CreatingKeepsIInv, CreatingKeepsCInv, CreatingKeepsTypes, CreatingKeepsFit,
     CreatingKeepsTimes DEF PipelineInv
<1> QED  BY <1>1, <1>2, StepCases

(* In every behaviour of clients, workers and the clock, work names what   *)
(* exists, a payment has one settlement to be done, a worker's registers   *)
(* and a request's fit its stage, and no time is ahead by more than Skew.  *)
THEOREM Invariance == Spec => []PipelineInv
  BY InitPipelineInv, StepKeepsPipelineInv, PTL DEF Spec

(* Tables, registers and requests have their types in every behaviour. *)
THEOREM TypeCorrect == Spec => []TypeOK
<1>1. PipelineInv => TypeOK
  BY DEF PipelineInv, IInv, TInv, TypeOK
<1> QED  BY <1>1, Invariance, PTL

(* However many workers claim at once, crash or lose the answer to their   *)
(* commit, no two hold the same row of outbox_work.                        *)
THEOREM RowsHeldOnce == Spec => []RowInOneHand
<1>1. PipelineInv => RowInOneHand
  BY DEF PipelineInv, IInv
<1> QED  BY <1>1, Invariance, PTL

(* No event of a payment gets a second delivery.  *)
THEOREM EventsAnnouncedOnce == Spec => []OneDeliveryPerEvent
<1>1. PipelineInv => OneDeliveryPerEvent
  BY DEF PipelineInv, IInv, TInv
<1> QED  BY <1>1, Invariance, PTL

(* What a delivery says of its attempts is the outcome of a POST that was  *)
(* made for it, whatever the workers and retries in between.               *)
THEOREM OutcomesAreOfPosts == Spec => []OutcomeIsOfAPost
<1>1. PipelineInv => OutcomeIsOfAPost
  BY DEF PipelineInv, IInv, AttemptsTrue
<1> QED  BY <1>1, Invariance, PTL

(* However far clocks are off, up to Skew: once a payment is settled, the  *)
(* processing delay has passed in true time since its request read the     *)
(* clock, but for twice the Skew; and every POST was made for a row that   *)
(* was due by the clock of its batch.                                      *)
THEOREM NothingHappensEarly == Spec => []NothingEarly
<1>1. PipelineInv => NothingEarly
  <2> SUFFICES ASSUME PipelineInv PROVE NothingEarly
    OBVIOUS
  <2>1. ASSUME NEW r \in CreateRequest, stage[r] = "done",
               payments[made[r]].status \in TerminalStatus
        PROVE  clock + 2 * Skew >= began[r] + ProcessingDelay
    <3>1. PICK p \in PaymentRow : p = payments[made[r]] /\ made[r] \in DOMAIN payments
      <4>1. made[r] \in DOMAIN payments /\ payments \in Seq(PaymentRow)
        BY <2>1 DEF PipelineInv, RequestsFit, IInv, TInv, TablesTypeOK
      <4>2. payments[made[r]] \in PaymentRow
        BY <4>1, ElementOfSeq, LenProperties
      <4> QED  BY <4>1, <4>2
    <3>2. p.updated_at >= p.created_at + ProcessingDelay
      BY <2>1, <3>1 DEF PipelineInv, IInv, TInv, NoEarlySettlement, SettledInTime
    <3>3. p.updated_at =< clock + Skew
      BY <3>1 DEF PipelineInv, TimesFit
    <3>4. p.created_at = now[r] /\ began[r] =< now[r] + Skew
      BY <2>1, <3>1 DEF PipelineInv, RequestsFit, TimesFit
    <3>5. /\ clock \in Nat /\ Skew \in Nat /\ ProcessingDelay \in Nat
          /\ began[r] \in Nat /\ now[r] \in Nat /\ p.updated_at \in Nat
      BY TimeAssumption, DelayAssumption
      DEF PipelineInv, IInv, TInv, TablesTypeOK, RequestTypeOK, PaymentRow
    <3> QED  BY <3>2, <3>3, <3>4, <3>5
  <2>2. SendsInTime
    BY DEF PipelineInv, IInv, AttemptsTrue
  <2> QED  BY <2>1, <2>2 DEF NothingEarly, SendsInTime
<1> QED  BY <1>1, Invariance, PTL

(* What a step may do to a payment. *)
OnlySettles ==
  \A i \in DOMAIN payments :
    payments'[i] # payments[i] =>
      /\ payments[i].status = "PROCESSING"
      /\ payments'[i].status = SettledStatus(payments[i].body.token)

LEMMA StepOnlySettles == PipelineInv /\ [Next]_vars => OnlySettles
<1> SUFFICES ASSUME PipelineInv, [Next]_vars PROVE OnlySettles
  OBVIOUS
<1>1. CASE Others
  <2>1. \A w \in Worker : wstage[w] = "commit" =>
          /\ payments[Subject(w)].status = "PROCESSING"
          /\ Settled(w).status = SettledStatus(payments[Subject(w)].body.token)
    BY SettledRow DEF PipelineInv
  <2> QED  BY <1>1, <2>1, WhatOthersKeep DEF PipelineInv, OnlySettles
<1>2. ASSUME NEW r \in CreateRequest, Creating(r)
      PROVE  OnlySettles
  <2>1. CASE Arrive(r) \/ Work(r)
    BY <2>1 DEF Arrive, Work, tables, OnlySettles
  <2>2. CASE Commit(r)
    BY <1>2, <2>2, CommitWrites DEF PipelineInv, OnlySettles
  <2> QED  BY <1>2, <2>1, <2>2 DEF Creating
<1> QED  BY <1>1, <1>2, StepCases

(* A payment leaves PROCESSING once, for the status its token dictates,    *)
(* whichever worker settles it and however often it is claimed.            *)
THEOREM SettlesOnce == Spec => SettledOnce
<1>1. PipelineInv /\ [Next]_vars =>
        [\A i \in DOMAIN payments :
           payments'[i] # payments[i] =>
             /\ payments[i].status = "PROCESSING"
             /\ payments'[i].status = SettledStatus(payments[i].body.token)]_vars
  BY StepOnlySettles DEF OnlySettles
<1> QED  BY <1>1, Invariance, PTL DEF Spec, SettledOnce

-----------------------------------------------------------------------------
(* That no event of a payment goes missing. *)

(* Of payment i, subscription j has exactly the deliveries of the statuses *)
(* of S that it lists.                                                     *)
Told(i, j, S) ==
  /\ \A d \in DOMAIN webhook_deliveries :
       webhook_deliveries[d].payment_id = i =>
         /\ webhook_deliveries[d].event_type \in webhook_subscriptions[j].events
         /\ \E st \in S : webhook_deliveries[d].event_type = EventTypeForStatus(st)
  /\ \A st \in S :
       EventTypeForStatus(st) \in webhook_subscriptions[j].events =>
         \E d \in DOMAIN webhook_deliveries :
           /\ webhook_deliveries[d].payment_id = i
           /\ webhook_deliveries[d].event_type = EventTypeForStatus(st)

AllAnnounced ==
  \A r \in CreateRequest, j \in DOMAIN webhook_subscriptions :
    stage[r] = "done" /\ Concerns(j, made[r]) => Told(made[r], j, ToHear(r, j))

LEMMA AllAnnouncedIs == AllAnnounced => EventsAnnounced
<1> SUFFICES ASSUME AllAnnounced,
                    NEW r \in CreateRequest, NEW j \in DOMAIN webhook_subscriptions,
                    stage[r] = "done", Concerns(j, made[r])
             PROVE  {webhook_deliveries[d].event_type :
                       d \in {d \in DOMAIN webhook_deliveries :
                                webhook_deliveries[d].payment_id = made[r]}}
                    = {EventTypeForStatus(st) : st \in ToHear(r, j)}
                      \cap webhook_subscriptions[j].events
  BY DEF EventsAnnounced, Concerns
<1>1. Told(made[r], j, ToHear(r, j))
  BY DEF AllAnnounced
<1> QED  BY <1>1 DEF Told

(* A transaction that announces status st of payment id, for the choice    *)
(* that fits subscription j, adds st to what j was told.                   *)
LEMMA ToldOneMore ==
  ASSUME TInv, NEW id \in Nat, NEW st \in Status, NEW t \in Nat, NEW S,
         NEW j \in DOMAIN webhook_subscriptions,
         UNCHANGED webhook_subscriptions,
         webhook_deliveries' = DeliveriesWith(TargetFor(j, st), id, st, t),
         Told(id, j, S)
  PROVE  Told(id, j, S \cup {st})'
<1> DEFINE new == NewDelivery(TargetFor(j, st), id, st, t)
<1>0. j \in Nat /\ j # NoSubscription /\ TargetFor(j, st) \in Nat
  BY LenProperties DEF TInv, TablesTypeOK, NoSubscription, TargetFor
<1>1. /\ \A d \in DOMAIN webhook_deliveries :
           d \in DOMAIN webhook_deliveries' /\ webhook_deliveries'[d] = webhook_deliveries[d]
      /\ TargetFor(j, st) # NoSubscription =>
           Len(webhook_deliveries) + 1 \in DOMAIN webhook_deliveries'
      /\ \A d \in DOMAIN webhook_deliveries' \ DOMAIN webhook_deliveries :
           d = Len(webhook_deliveries) + 1 /\ webhook_deliveries'[d] = new
  BY <1>0, DeliveriesWithRows
<1>2. new.payment_id = id /\ new.event_type = EventTypeForStatus(st)
  BY DEF NewDelivery
<1>3. DOMAIN webhook_deliveries' = DOMAIN webhook_deliveries
        \/ TargetFor(j, st) # NoSubscription
  BY DEF DeliveriesWith
<1>4. TargetFor(j, st) # NoSubscription <=>
        EventTypeForStatus(st) \in webhook_subscriptions[j].events
  BY <1>0 DEF TargetFor
<1>5. Len(webhook_deliveries) + 1 \notin DOMAIN webhook_deliveries
  BY LenProperties DEF TInv, TablesTypeOK
<1> HIDE DEF new
<1>6. ASSUME NEW d \in DOMAIN webhook_deliveries', webhook_deliveries'[d].payment_id = id
      PROVE  /\ webhook_deliveries'[d].event_type \in webhook_subscriptions'[j].events
             /\ \E s \in S \cup {st} :
                  webhook_deliveries'[d].event_type = EventTypeForStatus(s)
  <2>1. CASE d \in DOMAIN webhook_deliveries
    BY <1>1, <1>6, <2>1 DEF Told
  <2>2. CASE d \notin DOMAIN webhook_deliveries
    <3>1. webhook_deliveries'[d] = new /\ TargetFor(j, st) # NoSubscription
      BY <1>1, <1>3, <2>2
    <3> QED  BY <1>2, <1>4, <3>1
  <2> QED  BY <2>1, <2>2
<1>7. ASSUME NEW s \in S \cup {st},
             EventTypeForStatus(s) \in webhook_subscriptions'[j].events
      PROVE  \E d \in DOMAIN webhook_deliveries' :
               /\ webhook_deliveries'[d].payment_id = id
               /\ webhook_deliveries'[d].event_type = EventTypeForStatus(s)
  <2>1. CASE s = st
    <3>1. /\ Len(webhook_deliveries) + 1 \in DOMAIN webhook_deliveries'
          /\ webhook_deliveries'[Len(webhook_deliveries) + 1] = new
      BY <1>1, <1>4, <1>5, <1>7, <2>1
    <3> QED  BY <1>2, <2>1, <3>1
  <2>2. CASE s # st
    BY <1>1, <1>7, <2>2 DEF Told
  <2> QED  BY <2>1, <2>2
<1> QED  BY <1>6, <1>7 DEF Told

(* Of other payments nothing is told. *)
LEMMA OthersStayTold ==
  ASSUME TInv, NEW id \in Nat, NEW st \in Status, NEW t \in Nat, NEW sub \in Nat,
         webhook_deliveries' = DeliveriesWith(sub, id, st, t),
         UNCHANGED webhook_subscriptions,
         NEW i, i # id, NEW j, NEW S, Told(i, j, S)
  PROVE  Told(i, j, S)'
<1>1. /\ \A d \in DOMAIN webhook_deliveries :
           d \in DOMAIN webhook_deliveries' /\ webhook_deliveries'[d] = webhook_deliveries[d]
      /\ \A d \in DOMAIN webhook_deliveries' \ DOMAIN webhook_deliveries :
           webhook_deliveries'[d] = NewDelivery(sub, id, st, t)
  BY DeliveriesWithRows
<1>2. NewDelivery(sub, id, st, t).payment_id = id
  BY DEF NewDelivery
<1> QED  BY <1>1, <1>2 DEF Told

(* Nor by what leaves the events of deliveries and the subscription. *)
LEMMA StaysTold ==
  ASSUME NEW i, NEW j, NEW S, Told(i, j, S),
         webhook_subscriptions'[j] = webhook_subscriptions[j],
         DOMAIN webhook_deliveries' = DOMAIN webhook_deliveries,
         \A d \in DOMAIN webhook_deliveries :
           /\ webhook_deliveries'[d].payment_id = webhook_deliveries[d].payment_id
           /\ webhook_deliveries'[d].event_type = webhook_deliveries[d].event_type
  PROVE  Told(i, j, S)'
  BY DEF Told

LEMMA OthersKeepAnnounced ==
  ASSUME PipelineInv, AllAnnounced, Others
  PROVE  AllAnnounced'
<1>1. /\ UNCHANGED requestVars
      /\ \/ Silent
         \/ \E w \in Worker : SettleUpdate(w) /\ UNCHANGED clock
         \/ \E w \in Worker : Settles(w)
         \/ SubscriptionNext /\ UNCHANGED <<clock, workerVars>>
  BY WhatOthersDo DEF PipelineInv
<1>2. ConcernsKept
  BY WhatOthersKeep DEF PipelineInv
<1> SUFFICES ASSUME NEW r \in CreateRequest, NEW j \in DOMAIN webhook_subscriptions',
                    stage[r] = "done", Concerns(j, made[r])'
             PROVE  Told(made[r], j, ToHear(r, j))'
  BY <1>1 DEF AllAnnounced, requestVars
<1>3. PICK i \in DOMAIN payments : i = made[r] /\ i = made'[r]
  BY <1>1 DEF PipelineInv, RequestsFit, requestVars
<1>4. /\ j \in DOMAIN webhook_subscriptions
      /\ webhook_subscriptions'[j] = webhook_subscriptions[j]
      /\ Concerns(j, i)
  BY <1>2, <1>3 DEF ConcernsKept, Concerns
<1>5. PICK S : S = ToHear(r, j)
  OBVIOUS
<1>6. Told(i, j, S)
  BY <1>3, <1>4, <1>5 DEF AllAnnounced
<1>7. CASE /\ UNCHANGED payments
           /\ DOMAIN webhook_deliveries' = DOMAIN webhook_deliveries
           /\ \A d \in DOMAIN webhook_deliveries :
                /\ webhook_deliveries'[d].payment_id = webhook_deliveries[d].payment_id
                /\ webhook_deliveries'[d].event_type = webhook_deliveries[d].event_type
  <2>1. ToHear(r, j)' = S
    BY <1>1, <1>5, <1>7 DEF ToHear, requestVars
  <2>2. Told(i, j, S)'
    BY <1>4, <1>6, <1>7, StaysTold
  <2> QED  BY <1>3, <2>1, <2>2
<1>8. ASSUME NEW w \in Worker, Settles(w)
      PROVE  Told(made[r], j, ToHear(r, j))'
  <2>1. PICK id \in Nat, st \in Status, t \in Nat, sub \in Nat :
          id = Subject(w) /\ st = Settled(w).status /\ t = wnow[w] /\ sub = wtarget[w]
    BY <1>8, SettlementWrites DEF PipelineInv
  <2>2. /\ payments[id].status = "PROCESSING"
        /\ st \in TerminalStatus
        /\ id \in DOMAIN payments
        /\ payments'[id].status = st
        /\ \A k \in DOMAIN payments : k # id => payments'[k] = payments[k]
        /\ webhook_deliveries' = DeliveriesWith(sub, id, st, t)
        /\ UNCHANGED webhook_subscriptions
        /\ TInv
    BY <1>8, <2>1, SettlementWrites DEF PipelineInv, IInv
  <2>3. CASE i # id
    <3>1. ToHear(r, j)' = S
      BY <1>1, <1>3, <1>5, <2>2, <2>3 DEF ToHear, requestVars
    <3>2. Told(i, j, S)'
      BY <1>6, <2>2, <2>3, OthersStayTold
    <3> QED  BY <1>3, <3>1, <3>2
  <2>4. CASE i = id
    <3>1. sub = TargetFor(j, st)
      BY <1>4, <1>8, <2>1, <2>4 DEF PipelineInv, CInv, TargetsFit, Settles
    <3>2. ToHear(r, j)' = S \cup {st}
      BY <1>1, <1>3, <1>5, <2>2, <2>4 DEF ToHear, requestVars, TerminalStatus
    <3>3. Told(id, j, S \cup {st})'
      BY <1>4, <1>6, <2>2, <2>4, <3>1, ToldOneMore
    <3> QED  BY <1>3, <2>4, <3>2, <3>3
  <2> QED  BY <2>3, <2>4
<1>9. CASE Silent
  BY <1>7, <1>9 DEF Silent, NothingToAnnounce, DeliveriesGrow
<1>10. CASE \E w \in Worker : SettleUpdate(w)
  BY <1>7, <1>10 DEF SettleUpdate, tables
<1>11. CASE SubscriptionNext
  BY <1>7, <1>11, SubscribeKeepsConcerns DEF PipelineInv
<1> QED  BY <1>1, <1>8, <1>9, <1>10, <1>11

LEMMA CommitAnnounces ==
  ASSUME PipelineInv, AllAnnounced, NEW r \in CreateRequest, Creating(r), Commit(r)
  PROVE  AllAnnounced'
<1>1. PICK id \in Nat : id = Len(payments) + 1
  <2>1. Len(payments) \in Nat
    BY LenProperties DEF PipelineInv, IInv, TInv, TablesTypeOK
  <2> QED  BY <2>1
<1>2. /\ id \notin DOMAIN payments
      /\ payments'[id].account = ask[r].scope[1] /\ payments'[id].status = "PROCESSING"
      /\ \A i \in DOMAIN payments : payments'[i] = payments[i]
      /\ webhook_deliveries' = DeliveriesWith(target[r], id, "PROCESSING", now[r])
      /\ made' = [made EXCEPT ![r] = id]
  BY <1>1, CommitWrites DEF PipelineInv
<1>3. /\ stage[r] = "commit" /\ stage' = [stage EXCEPT ![r] = "done"]
      /\ UNCHANGED <<webhook_subscriptions, heard>>
      /\ now[r] \in Nat /\ target[r] \in Nat
      /\ "PROCESSING" \in Status /\ TInv
  BY CommitInserts DEF Commit, PipelineInv, IInv, Status
<1> SUFFICES ASSUME NEW q \in CreateRequest, NEW j \in DOMAIN webhook_subscriptions,
                    stage'[q] = "done", Concerns(j, made[q])'
             PROVE  Told(made[q], j, ToHear(q, j))'
  BY <1>3 DEF AllAnnounced
<1>4. CASE q # r
  <2>1. PICK i \in DOMAIN payments : i = made[q]
    BY <1>3, <1>4 DEF PipelineInv, RequestsFit, RequestTypeOK
  <2>2. made'[q] = i /\ payments'[i] = payments[i] /\ i # id
    BY <1>2, <1>4, <2>1 DEF PipelineInv, RequestTypeOK
  <2>3. PICK S : S = ToHear(q, j)
    OBVIOUS
  <2>4. ToHear(q, j)' = S
    BY <1>3, <2>1, <2>2, <2>3 DEF ToHear
  <2>5. Told(i, j, S)
    <3>1. Concerns(j, i) /\ stage[q] = "done"
      BY <1>3, <1>4, <2>2 DEF Concerns, PipelineInv, RequestTypeOK
    <3> QED  BY <2>1, <2>3, <3>1 DEF AllAnnounced
  <2>6. Told(i, j, S)'
    BY <1>2, <1>3, <2>2, <2>5, OthersStayTold
  <2> QED  BY <2>2, <2>4, <2>6
<1>5. CASE q = r
  <2>1. made'[r] = id
    BY <1>2 DEF PipelineInv, RequestTypeOK
  <2>2. webhook_subscriptions[j].account = ask[r].scope[1]
    BY <1>2, <1>3, <1>5, <2>1 DEF Concerns
  <2>3. target[r] = IF j =< heard[r] THEN TargetFor(j, "PROCESSING") ELSE NoSubscription
    BY <1>3, <2>2 DEF PipelineInv, RequestsFit, ChosenAsFound
  <2>4. \A d \in DOMAIN webhook_deliveries : webhook_deliveries[d].payment_id # id
    BY <1>2, <1>3 DEF TInv, DeliveriesRefer
  <2>5. ToHear(r, j)' = IF j =< heard[r] THEN {"PROCESSING"} ELSE {}
    BY <1>2, <1>3, <2>1 DEF ToHear, TerminalStatus
  <2>6. Told(id, j, {})
    BY <2>4 DEF Told
  <2>7. CASE j =< heard[r]
    <3>1. Told(id, j, {} \cup {"PROCESSING"})'
      BY <1>2, <1>3, <2>3, <2>6, <2>7, ToldOneMore
    <3>2. {} \cup {"PROCESSING"} = {"PROCESSING"}
      OBVIOUS
    <3> QED  BY <1>5, <2>1, <2>5, <2>7, <3>1, <3>2
  <2>8. CASE ~(j =< heard[r])
    <3>1. UNCHANGED webhook_deliveries
      BY <1>2, <2>3, <2>8 DEF DeliveriesWith
    <3>2. Told(id, j, {})'
      BY <1>3, <2>6, <3>1 DEF Told
    <3> QED  BY <1>5, <2>1, <2>5, <2>8, <3>2
  <2> QED  BY <2>7, <2>8
<1> QED  BY <1>4, <1>5

LEMMA CreatingKeepsAnnounced ==
  ASSUME PipelineInv, AllAnnounced, NEW r \in CreateRequest, Creating(r)
  PROVE  AllAnnounced'
<1>1. CASE Arrive(r) \/ Work(r)
  <2>1. /\ UNCHANGED <<payments, webhook_subscriptions, webhook_deliveries, made>>
        /\ \A q \in CreateRequest : stage'[q] = "done" =>
             stage[q] = "done" /\ heard'[q] = heard[q]
    BY <1>1 DEF Arrive, Work, tables, PipelineInv, RequestTypeOK
  <2> SUFFICES ASSUME NEW q \in CreateRequest, NEW j \in DOMAIN webhook_subscriptions,
                      stage'[q] = "done", Concerns(j, made[q])
               PROVE  Told(made[q], j, ToHear(q, j))'
    BY <2>1 DEF AllAnnounced, Concerns
  <2>2. Told(made[q], j, ToHear(q, j))
    BY <2>1 DEF AllAnnounced
  <2> QED  BY <2>1, <2>2 DEF Told, ToHear
<1>2. CASE Commit(r)
  BY <1>2, CommitAnnounces
<1> QED  BY <1>1, <1>2 DEF Creating

LEMMA StepKeepsAnnounced == PipelineInv /\ AllAnnounced /\ [Next]_vars => AllAnnounced'
<1> SUFFICES ASSUME PipelineInv, AllAnnounced, [Next]_vars PROVE AllAnnounced'
  OBVIOUS
<1> QED  BY StepCases, OthersKeepAnnounced, CreatingKeepsAnnounced

(* No event goes missing and none is announced that should not be: a       *)
(* subscription committed before a payment has a delivery of each event it *)
(* lists and no other, whichever worker settled it and whatever failed in  *)
(* between; but for payment.processing, where it has to be committed       *)
(* before the create request looks for it.                                 *)
THEOREM EveryEventAnnounced == Spec => []EventsAnnounced
<1>1. Init => AllAnnounced
  BY DEF Init, TablesInit, AllAnnounced
<1>2. AllAnnounced => EventsAnnounced
  BY AllAnnouncedIs
<1> QED  BY <1>1, <1>2, StepKeepsAnnounced, Invariance, PTL DEF Spec
=============================================================================
