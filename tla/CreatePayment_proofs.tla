------------------------- MODULE CreatePayment_proofs -------------------------
(***************************************************************************)
(* Theorems about CreatePayment, for any number of accounts, keys,         *)
(* requests and bodies, any lease, any skew of the clocks and any faults.  *)
(*                                                                         *)
(* The argument: claimed_at only grows while a record is in flight, since  *)
(* a reclaim needs a claim older than its own reading of the clock by more *)
(* than the lease.  So a request that holds a token holds one no newer     *)
(* than the record's, no two hold the same one, and the one whose token is *)
(* the record's is the only one Complete lets through.                     *)
(***************************************************************************)
EXTENDS CreatePayment, Database_proofs

(* A request that holds a token finds a record no older than the token; if *)
(* it is the token's own, the record is still in flight.  One that passed  *)
(* Complete has the record's token, kept so by the row's lock.             *)
TokensAreCurrent ==
  \A r \in Request : Holding(r) =>
    /\ Row(r).state # "ABSENT"
    /\ now[r] =< Row(r).claimed_at
    /\ now[r] = Row(r).claimed_at => Row(r).state = "IN_FLIGHT"
    /\ stage[r] = "commit" => now[r] = Row(r).claimed_at

(* Every payment is the one its key's record names. *)
PaymentsAreRecorded ==
  \A i \in 1..Len(payments) :
    /\ idempotency_keys[ScopeOf(payments[i])].state = "COMPLETED"
    /\ idempotency_keys[ScopeOf(payments[i])].payment_id = i

IInv == TokensAreCurrent /\ OwnersHaveOwnTokens /\ PaymentsAreRecorded

-----------------------------------------------------------------------------
(* Types. *)

(* What registers hold before they are set is of their type. *)
LEMMA DefaultsTyped ==
  /\ NoResponse \in Response
  /\ Absent \in IdempotencyRow
  /\ NoResult \in Result
  /\ NoSubscription \in Nat
  BY DEF NoResponse, Response, Absent, IdempotencyRow, FingerprintOf, NoResult,
         Result, NoSubscription, NoPayment

(* What a request asks for and finds is of its type. *)
LEMMA RowTyped ==
  ASSUME TypeOK, NEW r \in Request
  PROVE  /\ ask[r].scope \in Scope /\ ask[r].body \in Body
         /\ Row(r) \in IdempotencyRow
         /\ now[r] \in Nat
  BY DEF TypeOK, TablesTypeOK, Ask, Row

(* A payment has the scope of a key. *)
LEMMA PaymentTyped ==
  ASSUME TypeOK, NEW i \in 1..Len(payments)
  PROVE  payments[i] \in PaymentRow /\ ScopeOf(payments[i]) \in Scope
<1>1. payments[i] \in PaymentRow
  BY DEF TypeOK, TablesTypeOK
<1> QED  BY <1>1 DEF PaymentRow, ScopeOf, Scope

(* An answer keeps the registers it writes typed. *)
LEMMA AnswerTyped ==
  ASSUME TypeOK, NEW r \in Request, NEW c \in {0, 201, 409, 422, 500},
         NEW b \in Response, Answer(r, c, b)
  PROVE  stage' \in [Request -> Stage] /\ result' \in [Request -> Result]
  BY DEF TypeOK, Answer, GoTo, Stage, Result

(* An owner's transaction writes rows of their tables. *)
LEMMA WriteTransactionTyped ==
  ASSUME TypeOK, NEW r \in Request, WriteTransaction(r)
  PROVE  /\ CreatedResponse(r) \in Response
         /\ idempotency_keys' \in [Scope -> IdempotencyRow]
         /\ payments' \in Seq(PaymentRow)
         /\ webhook_subscriptions' \in Seq(SubscriptionRow)
         /\ webhook_deliveries' \in Seq(DeliveryRow)
         /\ outbox_work' \in Seq(OutboxRow)
<1>1. /\ ask[r].scope \in Scope /\ ask[r].body \in Body
      /\ now[r] \in Nat /\ target[r] \in Nat
  BY DEF TypeOK, Ask
<1>2. Len(payments) + 1 \in Nat
  BY DEF TypeOK, TablesTypeOK
<1>3. CreatedResponse(r) \in Response
  BY <1>1, <1>2, NewPaymentTyped DEF CreatedResponse
<1>4. idempotency_keys' \in [Scope -> IdempotencyRow]
  BY <1>1, <1>2, <1>3 DEF WriteTransaction, TypeOK, TablesTypeOK, IdempotencyRow
<1>5. /\ payments' \in Seq(PaymentRow)
      /\ webhook_deliveries' \in Seq(DeliveryRow)
      /\ outbox_work' \in Seq(OutboxRow)
  BY <1>1, InsertPaymentTyped DEF WriteTransaction, TypeOK
<1> QED  BY <1>3, <1>4, <1>5 DEF WriteTransaction, TypeOK, TablesTypeOK

(* Claim and Reclaim write a row of the table. *)
LEMMA WriteClaimTyped ==
  ASSUME TypeOK, NEW r \in Request, WriteClaim(r) \/ WriteReclaim(r)
  PROVE  idempotency_keys' \in [Scope -> IdempotencyRow]
<1>1. Fingerprint(ask[r].body) \in FingerprintOf /\ NoPayment \in Nat
  BY RowTyped DEF FingerprintOf, NoPayment
<1>2. CASE WriteClaim(r)
  BY <1>1, <1>2, RowTyped, DefaultsTyped DEF WriteClaim, TypeOK, TablesTypeOK, IdempotencyRow
<1>3. CASE WriteReclaim(r)
  <2>1. [Row(r) EXCEPT !.claimed_at = now[r]] \in IdempotencyRow
    BY RowTyped DEF IdempotencyRow
  <2>2. idempotency_keys' = [idempotency_keys EXCEPT ![ask[r].scope] = [Row(r) EXCEPT !.claimed_at = now[r]]]
    BY <1>3 DEF WriteReclaim, Row
  <2> QED  BY <2>1, <2>2 DEF TypeOK, TablesTypeOK
<1> QED  BY <1>2, <1>3

(* It starts so. *)
LEMMA TypeInit == Init => TypeOK
  BY DefaultsTyped DEF Init, TablesInit, TypeOK, TablesTypeOK, Stage

(* Every step keeps TypeOK. *)
LEMMA TypeStep == TypeOK /\ [Next]_vars => TypeOK'
<1> SUFFICES ASSUME TypeOK, [Next]_vars PROVE TypeOK'
  OBVIOUS
<1> USE DefaultsTyped
<1>1. CASE Tick /\ UNCHANGED <<tables, requestVars>>
  BY <1>1 DEF Tick, tables, requestVars, TypeOK, TablesTypeOK
<1>2. CASE UNCHANGED vars
  BY <1>2 DEF vars, tables, requestVars, TypeOK, TablesTypeOK
<1>3. ASSUME NEW r \in Request, RequestNext(r) PROVE TypeOK'
  <2> USE DEF At, GoTo, Stage
  <2>1. CASE Arrive(r)
    BY <2>1, NowIsNat DEF Arrive, tables, TypeOK, TablesTypeOK
  <2>2. CASE Claim(r)
    BY <2>2, WriteClaimTyped DEF Claim, TypeOK, TablesTypeOK
  <2>3. CASE ClaimConflicts(r)
    BY <2>3 DEF ClaimConflicts, tables, TypeOK, TablesTypeOK
  <2>4. CASE Load(r)
    <3>1. stage' \in [Request -> Stage] /\ result' \in [Request -> Result]
      BY <2>4, AnswerTyped DEF Load, TypeOK
    <3> QED  BY <2>4, <3>1, RowTyped DEF Load, tables, TypeOK, TablesTypeOK
  <2>5. CASE Replay(r)
    <3>1. seen[r].response \in Response
      BY DEF TypeOK, IdempotencyRow
    <3>2. stage' \in [Request -> Stage] /\ result' \in [Request -> Result]
      BY <2>5, <3>1, AnswerTyped DEF Replay
    <3> QED  BY <2>5, <3>2 DEF Replay, tables, TypeOK, TablesTypeOK
  <2>6. CASE Reclaim(r)
    BY <2>6, WriteClaimTyped DEF Reclaim, TypeOK, TablesTypeOK
  <2>7. CASE ReclaimMatchesNothing(r)
    <3>1. stage' \in [Request -> Stage] /\ result' \in [Request -> Result]
      BY <2>7, AnswerTyped DEF ReclaimMatchesNothing
    <3> QED  BY <2>7, <3>1 DEF ReclaimMatchesNothing, tables, TypeOK, TablesTypeOK
  <2>8. CASE Work(r)
    <3>1. ask[r].scope[1] \in Account
      BY RowTyped DEF Scope
    <3> QED  BY <2>8, <3>1, SubscriptionTyped DEF Work, tables, TypeOK, TablesTypeOK
  <2>9. CASE Complete(r)
    BY <2>9 DEF Complete, tables, TypeOK, TablesTypeOK
  <2>10. CASE OwnershipLost(r)
    <3>1. stage' \in [Request -> Stage] /\ result' \in [Request -> Result]
      BY <2>10, AnswerTyped DEF OwnershipLost
    <3> QED  BY <2>10, <3>1 DEF OwnershipLost, tables, TypeOK, TablesTypeOK
  <2>11. CASE Commit(r)
    <3>1. WriteTransaction(r)
      BY <2>11 DEF Commit
    <3>2. stage' \in [Request -> Stage] /\ result' \in [Request -> Result]
      BY <2>11, <3>1, WriteTransactionTyped, AnswerTyped DEF Commit
    <3> QED  BY <2>11, <3>1, <3>2, WriteTransactionTyped DEF Commit, TypeOK, TablesTypeOK
  <2>12. CASE Abort(r)
    <3>1. stage' \in [Request -> Stage] /\ result' \in [Request -> Result]
      BY <2>12, AnswerTyped DEF Abort
    <3> QED  BY <2>12, <3>1 DEF Abort, tables, TypeOK, TablesTypeOK
  <2>13. CASE AbortAfter(r)
    <3>1. stage' \in [Request -> Stage] /\ result' \in [Request -> Result]
      BY <2>13, AnswerTyped DEF AbortAfter
    <3>2. CASE WriteTransaction(r)
      BY <2>13, <3>1, <3>2, WriteTransactionTyped DEF AbortAfter, TypeOK, TablesTypeOK
    <3>3. CASE /\ WriteClaim(r) \/ WriteReclaim(r)
               /\ UNCHANGED <<payments, webhook_subscriptions, webhook_deliveries,
                              outbox_work>>
      BY <2>13, <3>1, <3>3, WriteClaimTyped DEF AbortAfter, WriteClaim, WriteReclaim, TypeOK, TablesTypeOK
    <3> QED  BY <2>13, <3>2, <3>3 DEF AbortAfter
  <2> QED
    BY <1>3, <2>1, <2>2, <2>3, <2>4, <2>5, <2>6, <2>7, <2>8, <2>9, <2>10, <2>11,
       <2>12, <2>13
    DEF RequestNext, Progress
<1> QED  BY <1>1, <1>2, <1>3 DEF Next

(* Every table and register keeps the type of its columns. *)
THEOREM TypeCorrect == Spec => []TypeOK
<1> QED  BY TypeInit, TypeStep, PTL DEF Spec

-----------------------------------------------------------------------------
(* The inductive invariant. *)

(* Steps that write no table and let nobody begin to hold a token. *)
LEMMA NobodyBeginsToHold ==
  ASSUME TypeOK, IInv, UNCHANGED <<idempotency_keys, payments, ask>>,
         \A q \in Request : Holding(q)' =>
           /\ Holding(q)
           /\ stage'[q] = "commit" => stage[q] = "commit"
           /\ now'[q] = now[q]
  PROVE  IInv'
<1>1. TokensAreCurrent'
  BY DEF IInv, TokensAreCurrent, Row, Holding
<1>2. OwnersHaveOwnTokens'
  BY DEF IInv, OwnersHaveOwnTokens
<1>3. PaymentsAreRecorded'
  BY DEF IInv, PaymentsAreRecorded, ScopeOf
<1> QED  BY <1>1, <1>2, <1>3 DEF IInv

(* A claim: nobody holds a token of the key and no payment has it, since   *)
(* its record was absent.                                                  *)
LEMMA ClaimKeepsIInv ==
  ASSUME TypeOK, IInv, NEW r \in Request, WriteClaim(r),
         NEW st \in {"work", "done"}, GoTo(r, st),
         UNCHANGED <<payments, ask, now>>
  PROVE  IInv'
<1> DEFINE s == ask[r].scope
<1>1. /\ s \in Scope /\ idempotency_keys[s].state = "ABSENT"
      /\ idempotency_keys'[s].state = "IN_FLIGHT"
      /\ idempotency_keys'[s].claimed_at = now[r]
      /\ \A x \in Scope : x # s => idempotency_keys'[x] = idempotency_keys[x]
  BY RowTyped DEF WriteClaim, Row, TypeOK, TablesTypeOK
<1>2. \A q \in Request : Holding(q) => ask[q].scope # s
  BY <1>1 DEF IInv, TokensAreCurrent, Row
<1>3. \A q \in Request : q # r => stage'[q] = stage[q]
  BY DEF GoTo, TypeOK
<1>4. stage'[r] \in {"work", "done"}
  BY DEF GoTo, TypeOK
<1>5. TokensAreCurrent'
  <2> SUFFICES ASSUME NEW q \in Request, Holding(q)'
               PROVE  /\ Row(q)'.state # "ABSENT"
                      /\ now'[q] =< Row(q)'.claimed_at
                      /\ now'[q] = Row(q)'.claimed_at => Row(q)'.state = "IN_FLIGHT"
                      /\ stage'[q] = "commit" => now'[q] = Row(q)'.claimed_at
    BY DEF TokensAreCurrent
  <2>1. CASE q = r
    BY <2>1, <1>1, <1>4, RowTyped DEF Row
  <2>2. CASE q # r
    <3>1. Holding(q) /\ stage'[q] = stage[q] /\ ask[q].scope # s
      BY <2>2, <1>2, <1>3 DEF Holding
    <3>2. Row(q)' = Row(q)
      BY <3>1, <1>1, RowTyped DEF Row
    <3> QED  BY <3>1, <3>2 DEF IInv, TokensAreCurrent
  <2> QED  BY <2>1, <2>2
<1>6. OwnersHaveOwnTokens'
  BY <1>2, <1>3 DEF IInv, OwnersHaveOwnTokens, Holding
<1>7. PaymentsAreRecorded'
  <2> SUFFICES ASSUME NEW i \in 1..Len(payments)
               PROVE  /\ idempotency_keys'[ScopeOf(payments[i])].state = "COMPLETED"
                      /\ idempotency_keys'[ScopeOf(payments[i])].payment_id = i
    BY DEF PaymentsAreRecorded, ScopeOf
  <2>1. ScopeOf(payments[i]) \in Scope
    BY PaymentTyped
  <2> QED  BY <2>1, <1>1 DEF IInv, PaymentsAreRecorded
<1> QED  BY <1>5, <1>6, <1>7 DEF IInv

(* A reclaim moves claimed_at past every token of the key: it was older    *)
(* than the new one by more than the lease.  No transaction that passed    *)
(* Complete is open, or its row would be locked.                           *)
LEMMA ReclaimKeepsIInv ==
  ASSUME TypeOK, IInv, NEW r \in Request, WriteReclaim(r),
         NEW st \in {"work", "done"}, GoTo(r, st),
         UNCHANGED <<payments, ask, now>>
  PROVE  IInv'
<1> DEFINE s == ask[r].scope
<1>1. /\ s \in Scope /\ idempotency_keys[s].state = "IN_FLIGHT"
      /\ idempotency_keys[s].claimed_at < now[r] - Lease
      /\ idempotency_keys[s].claimed_at \in Nat /\ now[r] \in Nat
      /\ idempotency_keys'[s].state = "IN_FLIGHT"
      /\ idempotency_keys'[s].claimed_at = now[r]
      /\ \A x \in Scope : x # s => idempotency_keys'[x] = idempotency_keys[x]
  BY RowTyped DEF WriteReclaim, Reclaimable, Cutoff, Row, TypeOK, TablesTypeOK, IdempotencyRow
<1>2. \A q \in Request : Holding(q) /\ ask[q].scope = s =>
        now[q] < now[r] /\ stage[q] # "commit"
  <2> SUFFICES ASSUME NEW q \in Request, Holding(q), ask[q].scope = s
               PROVE  now[q] < now[r] /\ stage[q] # "commit"
    OBVIOUS
  <2>1. now[q] =< idempotency_keys[s].claimed_at /\ now[q] \in Nat
    BY RowTyped DEF IInv, TokensAreCurrent, Row
  <2>2. now[q] < now[r]
    BY <2>1, <1>1, LeaseAssumption
  <2> QED  BY <2>2 DEF WriteReclaim, Locked
<1>3. \A q \in Request : q # r => stage'[q] = stage[q]
  BY DEF GoTo, TypeOK
<1>4. stage'[r] \in {"work", "done"}
  BY DEF GoTo, TypeOK
<1>5. TokensAreCurrent'
  <2> SUFFICES ASSUME NEW q \in Request, Holding(q)'
               PROVE  /\ Row(q)'.state # "ABSENT"
                      /\ now'[q] =< Row(q)'.claimed_at
                      /\ now'[q] = Row(q)'.claimed_at => Row(q)'.state = "IN_FLIGHT"
                      /\ stage'[q] = "commit" => now'[q] = Row(q)'.claimed_at
    BY DEF TokensAreCurrent
  <2>1. CASE q = r
    BY <2>1, <1>1, <1>4 DEF Row
  <2>2. CASE q # r /\ ask[q].scope = s
    <3>1. Holding(q) /\ stage'[q] = stage[q]
      BY <2>2, <1>3 DEF Holding
    <3>2. now[q] < now[r] /\ stage[q] # "commit" /\ now[q] \in Nat
      BY <2>2, <3>1, <1>2, RowTyped
    <3> QED  BY <2>2, <3>1, <3>2, <1>1 DEF Row
  <2>3. CASE q # r /\ ask[q].scope # s
    <3>1. Holding(q) /\ stage'[q] = stage[q]
      BY <2>3, <1>3 DEF Holding
    <3>2. Row(q)' = Row(q)
      BY <2>3, <1>1, RowTyped DEF Row
    <3> QED  BY <3>1, <3>2 DEF IInv, TokensAreCurrent
  <2> QED  BY <2>1, <2>2, <2>3
<1>6. OwnersHaveOwnTokens'
  <2> SUFFICES ASSUME NEW q \in Request, NEW p \in Request, Holding(q)', Holding(p)',
                      ask[q].scope = ask[p].scope, now[q] = now[p], q # p
               PROVE  FALSE
    BY DEF OwnersHaveOwnTokens
  <2>1. now[q] \in Nat /\ now[p] \in Nat
    BY RowTyped
  <2>2. CASE q # r /\ p # r
    BY <2>2, <1>3 DEF IInv, OwnersHaveOwnTokens, Holding
  <2>3. CASE q = r
    BY <2>1, <2>3, <1>2, <1>3 DEF Holding
  <2>4. CASE p = r
    BY <2>1, <2>4, <1>2, <1>3 DEF Holding
  <2> QED  BY <2>2, <2>3, <2>4
<1>7. PaymentsAreRecorded'
  <2> SUFFICES ASSUME NEW i \in 1..Len(payments)
               PROVE  /\ idempotency_keys'[ScopeOf(payments[i])].state = "COMPLETED"
                      /\ idempotency_keys'[ScopeOf(payments[i])].payment_id = i
    BY DEF PaymentsAreRecorded, ScopeOf
  <2>1. ScopeOf(payments[i]) \in Scope
    BY PaymentTyped
  <2> QED  BY <2>1, <1>1 DEF IInv, PaymentsAreRecorded
<1> QED  BY <1>5, <1>6, <1>7 DEF IInv

(* A commit: the record is in flight with the committer's token, so the    *)
(* key has no payment yet, and every other token of it is older.           *)
LEMMA CommitKeepsIInv ==
  ASSUME TypeOK, IInv, NEW r \in Request, At(r, "commit"), WriteTransaction(r),
         GoTo(r, "done"), UNCHANGED <<ask, now>>
  PROVE  IInv'
<1> DEFINE s == ask[r].scope
           n == Len(payments) + 1
<1>1. /\ idempotency_keys[s].state = "IN_FLIGHT"
      /\ idempotency_keys[s].claimed_at = now[r]
  BY DEF At, IInv, TokensAreCurrent, Holding, Row
<1>2. /\ s \in Scope
      /\ idempotency_keys'[s].state = "COMPLETED"
      /\ idempotency_keys'[s].claimed_at = now[r]
      /\ idempotency_keys'[s].payment_id = n
      /\ \A x \in Scope : x # s => idempotency_keys'[x] = idempotency_keys[x]
  BY <1>1, RowTyped DEF WriteTransaction, TypeOK, TablesTypeOK
<1>3. \A q \in Request : q # r => stage'[q] = stage[q]
  BY DEF GoTo, TypeOK
<1>4. ~Holding(r)'
  BY DEF GoTo, TypeOK, Holding
<1>5. Holding(r)
  BY DEF At, Holding
<1>6. TokensAreCurrent'
  <2> SUFFICES ASSUME NEW q \in Request, Holding(q)'
               PROVE  /\ Row(q)'.state # "ABSENT"
                      /\ now'[q] =< Row(q)'.claimed_at
                      /\ now'[q] = Row(q)'.claimed_at => Row(q)'.state = "IN_FLIGHT"
                      /\ stage'[q] = "commit" => now'[q] = Row(q)'.claimed_at
    BY DEF TokensAreCurrent
  <2>1. q # r /\ Holding(q) /\ stage'[q] = stage[q]
    BY <1>3, <1>4 DEF Holding
  <2>2. CASE ask[q].scope = s
    <3>1. now[q] # now[r]
      BY <2>1, <2>2, <1>5 DEF IInv, OwnersHaveOwnTokens
    <3>2. now[q] =< now[r] /\ stage[q] # "commit"
      BY <2>1, <2>2, <1>1, <3>1 DEF IInv, TokensAreCurrent, Row
    <3> QED  BY <2>1, <2>2, <3>1, <3>2, <1>2 DEF Row
  <2>3. CASE ask[q].scope # s
    <3>1. Row(q)' = Row(q)
      BY <2>3, <1>2, RowTyped DEF Row
    <3> QED  BY <2>1, <3>1 DEF IInv, TokensAreCurrent
  <2> QED  BY <2>2, <2>3
<1>7. OwnersHaveOwnTokens'
  BY <1>3, <1>4 DEF IInv, OwnersHaveOwnTokens, Holding
<1>8. PaymentsAreRecorded'
  <2>1. /\ payments' = Append(payments, NewPayment(s, ask[r].body, now[r]))
        /\ payments \in Seq(PaymentRow)
    BY DEF WriteTransaction, InsertPayment, TypeOK, TablesTypeOK
  <2>2. ScopeOf(NewPayment(s, ask[r].body, now[r])) = s
    BY RowTyped, NewPaymentTyped
  <2>3. NewPayment(s, ask[r].body, now[r]) \in PaymentRow
    BY RowTyped, NewPaymentTyped
  <2>4. /\ Len(payments') = n /\ Len(payments) \in Nat
        /\ payments'[n] = NewPayment(s, ask[r].body, now[r])
        /\ \A i \in 1..Len(payments) : payments'[i] = payments[i] /\ payments[i] \in PaymentRow
    BY <2>1, <2>3
  <2> SUFFICES ASSUME NEW i \in 1..n
               PROVE  /\ idempotency_keys'[ScopeOf(payments'[i])].state = "COMPLETED"
                      /\ idempotency_keys'[ScopeOf(payments'[i])].payment_id = i
    BY <2>4 DEF PaymentsAreRecorded, ScopeOf
  <2>5. CASE i = n
    BY <2>2, <2>4, <2>5, <1>2
  <2>6. CASE i \in 1..Len(payments)
    <3>1. /\ idempotency_keys[ScopeOf(payments[i])].state = "COMPLETED"
          /\ idempotency_keys[ScopeOf(payments[i])].payment_id = i
      BY <2>6 DEF IInv, PaymentsAreRecorded
    <3>2. ScopeOf(payments[i]) \in Scope
      BY <2>6, PaymentTyped
    <3> QED  BY <3>1, <3>2, <2>4, <2>6, <1>1, <1>2
  <2> QED  BY <2>4, <2>5, <2>6
<1> QED  BY <1>6, <1>7, <1>8 DEF IInv

(* Every step keeps IInv. *)
LEMMA IInvStep == TypeOK /\ IInv /\ [Next]_vars => IInv'
<1> SUFFICES ASSUME TypeOK, IInv, [Next]_vars PROVE IInv'
  OBVIOUS
<1>1. CASE Tick /\ UNCHANGED <<tables, requestVars>>
  BY <1>1, NobodyBeginsToHold DEF tables, requestVars, Holding
<1>2. CASE UNCHANGED vars
  BY <1>2, NobodyBeginsToHold DEF vars, tables, requestVars, Holding
<1>3. ASSUME NEW r \in Request, RequestNext(r) PROVE IInv'
  <2> USE DEF At, GoTo, Answer, Holding
  <2>1. CASE Arrive(r)
    BY <2>1, NobodyBeginsToHold DEF Arrive, tables, TypeOK
  <2>2. CASE Claim(r)
    BY <2>2, ClaimKeepsIInv DEF Claim
  <2>3. CASE ClaimConflicts(r)
    BY <2>3, NobodyBeginsToHold DEF ClaimConflicts, tables, TypeOK
  <2>4. CASE Load(r)
    BY <2>4, NobodyBeginsToHold DEF Load, tables, TypeOK
  <2>5. CASE Replay(r)
    BY <2>5, NobodyBeginsToHold DEF Replay, tables, TypeOK
  <2>6. CASE Reclaim(r)
    BY <2>6, ReclaimKeepsIInv DEF Reclaim
  <2>7. CASE ReclaimMatchesNothing(r)
    BY <2>7, NobodyBeginsToHold DEF ReclaimMatchesNothing, tables, TypeOK
  <2>8. CASE Work(r)
    BY <2>8, NobodyBeginsToHold DEF Work, tables, TypeOK
  <2>9. CASE Complete(r)
    <3>1. /\ UNCHANGED <<idempotency_keys, payments, ask, now>>
          /\ stage' = [stage EXCEPT ![r] = "commit"] /\ stage[r] = "complete"
          /\ now[r] = Row(r).claimed_at
      BY <2>9 DEF Complete, OwnsKey, tables
    <3>2. TokensAreCurrent'
      BY <3>1 DEF IInv, TokensAreCurrent, Row, TypeOK
    <3>3. OwnersHaveOwnTokens'
      BY <3>1 DEF IInv, OwnersHaveOwnTokens, TypeOK
    <3>4. PaymentsAreRecorded'
      BY <3>1 DEF IInv, PaymentsAreRecorded, ScopeOf
    <3> QED  BY <3>2, <3>3, <3>4 DEF IInv
  <2>10. CASE OwnershipLost(r)
    BY <2>10, NobodyBeginsToHold DEF OwnershipLost, tables, TypeOK
  <2>11. CASE Commit(r)
    BY <2>11, CommitKeepsIInv DEF Commit
  <2>12. CASE Abort(r)
    BY <2>12, NobodyBeginsToHold DEF Abort, tables, TypeOK
  <2>13. CASE AbortAfter(r)
    BY <2>13, ClaimKeepsIInv, ReclaimKeepsIInv, CommitKeepsIInv DEF AbortAfter
  <2> QED
    BY <1>3, <2>1, <2>2, <2>3, <2>4, <2>5, <2>6, <2>7, <2>8, <2>9, <2>10, <2>11,
       <2>12, <2>13
    DEF RequestNext, Progress
<1> QED  BY <1>1, <1>2, <1>3 DEF Next

(* It starts so. *)
LEMMA IInvInit == Init => IInv
  BY DEF Init, TablesInit, IInv, TokensAreCurrent, OwnersHaveOwnTokens,
         PaymentsAreRecorded, Holding

(* The inductive invariant holds at all times. *)
LEMMA IInvHolds == Spec => [](TypeOK /\ IInv)
  BY TypeInit, IInvInit, TypeStep, IInvStep, PTL DEF Spec

-----------------------------------------------------------------------------
(* Results. *)

LEMMA RecordedOnce == TypeOK /\ IInv => AtMostOnePayment
<1> SUFFICES ASSUME TypeOK, IInv, NEW i \in DOMAIN payments, NEW j \in DOMAIN payments,
                    payments[i].account = payments[j].account,
                    payments[i].key = payments[j].key
             PROVE  i = j
  BY DEF AtMostOnePayment
<1>1. i \in 1..Len(payments) /\ j \in 1..Len(payments)
  BY DEF TypeOK, TablesTypeOK
<1> QED  BY <1>1 DEF IInv, PaymentsAreRecorded, ScopeOf

(* At most one payment is ever created for an idempotency key of an        *)
(* account: Execute under any races, crashes, lost commits, leases and     *)
(* clocks.                                                                 *)
THEOREM OnePaymentPerKey == Spec => []AtMostOnePayment
  BY RecordedOnce, IInvHolds, PTL

(* Requests that hold tokens for one key hold different ones: what         *)
(* Complete's condition on claimed_at relies on.                           *)
THEOREM TokensDiffer == Spec => []OwnersHaveOwnTokens
<1>1. IInv => OwnersHaveOwnTokens
  BY DEF IInv
<1> QED  BY <1>1, IInvHolds, PTL

(* ErrIdempotencyOwnershipLost is only ever answered to a request whose    *)
(* key was claimed by a later one.                                         *)
THEOREM LostToALaterClaim == Spec => LosesOnlyToLaterClaim
<1>1. TypeOK /\ IInv /\ [Next]_vars =>
        [\A r \in Request : OwnershipLost(r) => Row(r).claimed_at > now[r]]_vars
  <2> SUFFICES ASSUME TypeOK, IInv, NEW r \in Request, OwnershipLost(r)
               PROVE  Row(r).claimed_at > now[r]
    OBVIOUS
  <2>1. Holding(r) /\ ~OwnsKey(r)
    BY DEF OwnershipLost, At, Holding
  <2>2. now[r] =< Row(r).claimed_at /\ now[r] # Row(r).claimed_at
    BY <2>1 DEF IInv, TokensAreCurrent, OwnsKey
  <2>3. now[r] \in Nat /\ Row(r).claimed_at \in Nat
    BY RowTyped DEF IdempotencyRow
  <2> QED  BY <2>2, <2>3
<1> QED  BY <1>1, IInvHolds, PTL DEF Spec, LosesOnlyToLaterClaim

(* A record in flight is written by ever later claims and once by the      *)
(* commit of its owner; a completed one never again.                       *)
Forward ==
  \A s \in Scope :
    LET old == idempotency_keys[s]
        new == idempotency_keys'[s]
    IN  /\ old.state = "COMPLETED" => new = old
        /\ old.state = "IN_FLIGHT" =>
             /\ new.state # "ABSENT"
             /\ new.fingerprint = old.fingerprint
             /\ new.claimed_at # old.claimed_at => new.claimed_at > old.claimed_at + Lease

(* A claim moves only an absent record. *)
LEMMA ClaimGoesForward ==
  ASSUME TypeOK, NEW r \in Request, WriteClaim(r)
  PROVE  Forward
<1>1. /\ ask[r].scope \in Scope /\ idempotency_keys[ask[r].scope].state = "ABSENT"
      /\ \A x \in Scope : x # ask[r].scope => idempotency_keys'[x] = idempotency_keys[x]
  BY RowTyped DEF WriteClaim, Row, TypeOK, TablesTypeOK
<1> QED  BY <1>1 DEF Forward

(* A reclaim moves claimed_at by more than the lease. *)
LEMMA ReclaimGoesForward ==
  ASSUME TypeOK, NEW r \in Request, WriteReclaim(r)
  PROVE  Forward
<1> DEFINE s == ask[r].scope
<1>1. /\ s \in Scope /\ idempotency_keys[s].state = "IN_FLIGHT"
      /\ idempotency_keys[s].claimed_at < now[r] - Lease
      /\ idempotency_keys'[s] = [idempotency_keys[s] EXCEPT !.claimed_at = now[r]]
      /\ idempotency_keys[s] \in IdempotencyRow /\ now[r] \in Nat
      /\ \A x \in Scope : x # s => idempotency_keys'[x] = idempotency_keys[x]
  BY RowTyped DEF WriteReclaim, Reclaimable, Cutoff, Row, TypeOK, TablesTypeOK
<1>2. /\ idempotency_keys'[s].state = "IN_FLIGHT"
      /\ idempotency_keys'[s].fingerprint = idempotency_keys[s].fingerprint
      /\ idempotency_keys'[s].claimed_at = now[r]
      /\ idempotency_keys[s].claimed_at \in Nat
  BY <1>1 DEF IdempotencyRow
<1>3. now[r] > idempotency_keys[s].claimed_at + Lease
  BY <1>1, <1>2, LeaseAssumption
<1> QED  BY <1>1, <1>2, <1>3 DEF Forward

(* A commit completes a record in flight and leaves its claim as it was. *)
LEMMA CommitGoesForward ==
  ASSUME TypeOK, IInv, NEW r \in Request, At(r, "commit"), WriteTransaction(r)
  PROVE  Forward
<1> DEFINE s == ask[r].scope
<1>1. idempotency_keys[s].state = "IN_FLIGHT"
  BY DEF At, IInv, TokensAreCurrent, Holding, Row
<1>2. /\ s \in Scope
      /\ idempotency_keys'[s].state = "COMPLETED"
      /\ idempotency_keys'[s].fingerprint = idempotency_keys[s].fingerprint
      /\ idempotency_keys'[s].claimed_at = idempotency_keys[s].claimed_at
      /\ \A x \in Scope : x # s => idempotency_keys'[x] = idempotency_keys[x]
  BY RowTyped DEF WriteTransaction, TypeOK, TablesTypeOK
<1> QED  BY <1>1, <1>2 DEF Forward

(* Every step moves records forward. *)
LEMMA NextGoesForward == TypeOK /\ IInv /\ Next => Forward
<1> SUFFICES ASSUME TypeOK, IInv, Next PROVE Forward
  OBVIOUS
<1>1. UNCHANGED idempotency_keys => Forward
  <2>1. \A s \in Scope : idempotency_keys[s].claimed_at = idempotency_keys[s].claimed_at
    OBVIOUS
  <2> QED  BY <2>1 DEF Forward
<1>2. ASSUME NEW r \in Request, RequestNext(r) PROVE Forward
  <2>1. \/ UNCHANGED idempotency_keys
        \/ WriteClaim(r)
        \/ WriteReclaim(r)
        \/ At(r, "commit") /\ WriteTransaction(r)
    BY <1>2
    DEF RequestNext, Progress, tables, Arrive, Claim, ClaimConflicts, Load, Replay,
        Reclaim, ReclaimMatchesNothing, Work, Complete, OwnershipLost, Commit,
        Abort, AbortAfter
  <2> QED  BY <1>1, <2>1, ClaimGoesForward, ReclaimGoesForward, CommitGoesForward
<1>3. CASE Tick /\ UNCHANGED <<tables, requestVars>>
  BY <1>1, <1>3 DEF tables
<1> QED  BY <1>2, <1>3 DEF Next

(* A completed record is final, and a lease is never taken over early:     *)
(* successive claims of a key are more than the lease apart.               *)
THEOREM RecordsMoveForward == Spec => RecordMovesForward
<1>1. TypeOK /\ IInv /\ [Next]_vars => [Forward]_vars
  BY NextGoesForward
<1>2. [][Forward]_vars <=> RecordMovesForward
  BY DEF Forward, RecordMovesForward
<1> QED  BY <1>1, <1>2, IInvHolds, PTL DEF Spec
=============================================================================
