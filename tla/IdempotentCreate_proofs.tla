------------------------ MODULE IdempotentCreate_proofs ------------------------
(***************************************************************************)
(* CreatePayment implements IdempotentCreate, and its answers agree, for   *)
(* any accounts, keys, bodies and requests, any lease and skew of the      *)
(* clocks and any faults.                                                  *)
(*                                                                         *)
(* The argument goes from the records to the requests.  Records only move  *)
(* forward (Forward): a fingerprint once written stays, and a completed    *)
(* record is final.  So what a request learnt of its key's record is still *)
(* true when it uses it, whatever others did in between (Follows).         *)
(***************************************************************************)
EXTENDS CreatePayment_proofs

(* A request that knows that its body is the one its key is bound to. *)
Matched(r) ==
  \/ Holding(r)
  \/ stage[r] \in {"reclaim", "replay"}
  \/ result[r].status = 201

(* What a request knows of its key's record, and has told of it. *)
Follows(r) ==
  /\ stage[r] # "done" => result[r] = NoResult
  /\ Matched(r) \/ stage[r] = "load" => Row(r).state # "ABSENT"
  /\ Matched(r) => Row(r).fingerprint = Fingerprint(ask[r].body)
  /\ stage[r] = "replay" => Row(r).state = "COMPLETED" /\ Row(r) = seen[r]
  /\ result[r].status = 201 =>
       Row(r).state = "COMPLETED" /\ result[r].response = Row(r).response

(* A completed record has its payment, as it was when it was created; one  *)
(* that is not has no response yet, and an absent one no fingerprint.      *)
Rendered(s) ==
  LET row == idempotency_keys[s]
      i   == row.payment_id
  IN  /\ row.state = "COMPLETED" =>
           /\ i \in 1..Len(payments)
           /\ ScopeOf(payments[i]) = s
           /\ row.response = Encode(i, [payments[i] EXCEPT !.status = "PROCESSING"])
           /\ row.fingerprint = Fingerprint(payments[i].body)
      /\ row.state # "COMPLETED" => row.response = NoResponse
      /\ row.state = "ABSENT" <=> row.fingerprint = <<>>

RInv == (\A r \in Request : Follows(r)) /\ (\A s \in Scope : Rendered(s))

-----------------------------------------------------------------------------
(* Bodies and rows. *)

(* A body is what its fingerprint says, and no fingerprint is empty. *)
LEMMA FingerprintTells ==
  ASSUME NEW b \in Body, NEW c \in Body
  PROVE  /\ Fingerprint(b) = Fingerprint(c) => b = c
         /\ Fingerprint(b) # <<>>
<1>1. /\ b = [reference |-> b.reference, token |-> b.token]
      /\ c = [reference |-> c.reference, token |-> c.token]
  BY BodyAssumption
<1>2. Fingerprint(b) = Fingerprint(c) => b.reference = c.reference /\ b.token = c.token
  BY DEF Fingerprint
<1>3. Fingerprint(b) # <<>>
  BY DEF Fingerprint
<1> QED  BY <1>1, <1>2, <1>3

(* A record that is not absent keeps its fingerprint and its presence; a   *)
(* completed one keeps everything.                                         *)
LEMMA RecordStays ==
  ASSUME TypeOK, Forward, NEW s \in Scope, idempotency_keys[s].state # "ABSENT"
  PROVE  /\ idempotency_keys'[s].state # "ABSENT"
         /\ idempotency_keys'[s].fingerprint = idempotency_keys[s].fingerprint
         /\ idempotency_keys[s].state = "COMPLETED" =>
              idempotency_keys'[s] = idempotency_keys[s]
<1>1. idempotency_keys[s].state \in {"IN_FLIGHT", "COMPLETED"}
  BY DEF TypeOK, TablesTypeOK, IdempotencyRow
<1> QED  BY <1>1 DEF Forward

(* A request that does not move keeps what it knows. *)
LEMMA FollowsOn ==
  ASSUME TypeOK, Forward, NEW r \in Request, Follows(r),
         ask'[r] = ask[r], stage'[r] = stage[r], seen'[r] = seen[r],
         result'[r] = result[r]
  PROVE  Follows(r)'
<1>1. ask[r].scope \in Scope
  BY RowTyped
<1>2. Row(r).state # "ABSENT" =>
        /\ Row(r)'.state # "ABSENT"
        /\ Row(r)'.fingerprint = Row(r).fingerprint
        /\ Row(r).state = "COMPLETED" => Row(r)' = Row(r)
  BY <1>1, RecordStays DEF Row
<1>3. Matched(r)' <=> Matched(r)
  BY DEF Matched, Holding
<1> QED  BY <1>2, <1>3 DEF Follows

-----------------------------------------------------------------------------
(* Records. *)

(* Claim and Reclaim write records without a response. *)
LEMMA ClaimRenders ==
  ASSUME TypeOK, RInv, NEW r \in Request, WriteClaim(r) \/ WriteReclaim(r),
         UNCHANGED payments
  PROVE  \A s \in Scope : Rendered(s)'
<1> SUFFICES ASSUME NEW s \in Scope PROVE Rendered(s)'
  OBVIOUS
<1>1. ask[r].scope \in Scope /\ ask[r].body \in Body /\ idempotency_keys \in [Scope -> IdempotencyRow]
  BY RowTyped DEF TypeOK, TablesTypeOK
<1>2. CASE s # ask[r].scope
  <2>1. idempotency_keys'[s] = idempotency_keys[s]
    BY <1>1, <1>2 DEF WriteClaim, WriteReclaim
  <2> QED  BY <2>1 DEF RInv, Rendered
<1>3. CASE s = ask[r].scope /\ WriteClaim(r)
  <2>1. /\ idempotency_keys'[s].state = "IN_FLIGHT"
        /\ idempotency_keys'[s].response = NoResponse
        /\ idempotency_keys'[s].fingerprint = Fingerprint(ask[r].body)
    BY <1>1, <1>3 DEF WriteClaim
  <2> QED  BY <1>1, <2>1, FingerprintTells DEF Rendered
<1>4. CASE s = ask[r].scope /\ WriteReclaim(r)
  <2>1. /\ idempotency_keys[s].state = "IN_FLIGHT" /\ idempotency_keys[s] \in IdempotencyRow
        /\ idempotency_keys'[s] = [idempotency_keys[s] EXCEPT !.claimed_at = now[r]]
    BY <1>1, <1>4 DEF WriteReclaim, Reclaimable, Row
  <2>2. /\ idempotency_keys'[s].state = "IN_FLIGHT"
        /\ idempotency_keys'[s].response = idempotency_keys[s].response
        /\ idempotency_keys'[s].fingerprint = idempotency_keys[s].fingerprint
    BY <2>1 DEF IdempotencyRow
  <2> QED  BY <2>1, <2>2 DEF RInv, Rendered
<1> QED  BY <1>2, <1>3, <1>4

(* What a transaction writes, field by field. *)
LEMMA TransactionWrites ==
  ASSUME TypeOK, NEW r \in Request, WriteTransaction(r)
  PROVE  LET s == ask[r].scope
             n == Len(payments) + 1
             p == NewPayment(s, ask[r].body, now[r])
         IN  /\ s \in Scope /\ n \in Nat /\ n > 0
             /\ idempotency_keys'[s].state = "COMPLETED"
             /\ idempotency_keys'[s].payment_id = n
             /\ idempotency_keys'[s].fingerprint = idempotency_keys[s].fingerprint
             /\ idempotency_keys'[s].response = CreatedResponse(r)
             /\ \A x \in Scope : x # s => idempotency_keys'[x] = idempotency_keys[x]
             /\ DOMAIN payments' = DOMAIN payments \cup {n}
             /\ DOMAIN payments = 1..Len(payments) /\ Len(payments') = n
             /\ payments'[n] = p /\ p \in PaymentRow
             /\ \A i \in 1..Len(payments) : payments'[i] = payments[i]
<1> DEFINE s == ask[r].scope
           n == Len(payments) + 1
           p == NewPayment(s, ask[r].body, now[r])
<1>1. s \in Scope /\ ask[r].body \in Body /\ now[r] \in Nat
  BY RowTyped
<1>2. p \in PaymentRow
  BY <1>1, NewPaymentTyped
<1>3. payments' = Append(payments, p) /\ payments \in Seq(PaymentRow)
  BY DEF WriteTransaction, InsertPayment, TypeOK, TablesTypeOK
<1>4. /\ n \in Nat /\ n > 0
      /\ DOMAIN payments' = DOMAIN payments \cup {n}
      /\ DOMAIN payments = 1..Len(payments) /\ Len(payments') = n
      /\ payments'[n] = p
      /\ \A i \in 1..Len(payments) : payments'[i] = payments[i]
  BY <1>2, <1>3
<1>5. /\ idempotency_keys'[s].state = "COMPLETED"
      /\ idempotency_keys'[s].payment_id = n
      /\ idempotency_keys'[s].fingerprint = idempotency_keys[s].fingerprint
      /\ idempotency_keys'[s].response = CreatedResponse(r)
      /\ \A x \in Scope : x # s => idempotency_keys'[x] = idempotency_keys[x]
  BY <1>1 DEF WriteTransaction, TypeOK, TablesTypeOK
<1> QED  BY <1>1, <1>2, <1>4, <1>5

(* A commit writes the response of the payment it inserts. *)
LEMMA CommitRenders ==
  ASSUME TypeOK, RInv, NEW r \in Request, At(r, "commit"), WriteTransaction(r)
  PROVE  \A s \in Scope : Rendered(s)'
<1> SUFFICES ASSUME NEW s \in Scope PROVE Rendered(s)'
  OBVIOUS
<1> DEFINE n == Len(payments) + 1
           p == NewPayment(ask[r].scope, ask[r].body, now[r])
<1>1. CASE s = ask[r].scope
  <2>1. /\ idempotency_keys'[s].state = "COMPLETED"
        /\ idempotency_keys'[s].payment_id = n
        /\ idempotency_keys'[s].response = CreatedResponse(r)
        /\ payments'[n] = p /\ p \in PaymentRow /\ n \in 1..Len(payments')
    BY <1>1, TransactionWrites
  <2>2. ScopeOf(p) = s
    BY <1>1, RowTyped, NewPaymentTyped
  <2>3. CreatedResponse(r) = Encode(n, [p EXCEPT !.status = "PROCESSING"])
    BY DEF CreatedResponse, Encode, NewPayment, CreationStatus
  <2>4. idempotency_keys'[s].fingerprint = Fingerprint(p.body)
    <3>1. idempotency_keys'[s].fingerprint = Row(r).fingerprint
      BY <1>1, TransactionWrites DEF Row
    <3>2. Row(r).fingerprint = Fingerprint(ask[r].body)
      BY DEF RInv, Follows, Matched, Holding, At
    <3> QED  BY <3>1, <3>2 DEF NewPayment
  <2>5. Fingerprint(p.body) # <<>>
    BY RowTyped, FingerprintTells DEF NewPayment
  <2> QED  BY <2>1, <2>2, <2>3, <2>4, <2>5 DEF Rendered
<1>2. CASE s # ask[r].scope
  <2>1. idempotency_keys'[s] = idempotency_keys[s]
    BY <1>2, TransactionWrites
  <2>2. \A i \in 1..Len(payments) : i \in 1..Len(payments') /\ payments'[i] = payments[i]
    BY TransactionWrites
  <2> QED  BY <2>1, <2>2 DEF RInv, Rendered
<1> QED  BY <1>1, <1>2

(* Every step keeps the records so. *)
LEMMA RenderedStep ==
  ASSUME TypeOK, RInv, Next
  PROVE  \A s \in Scope : Rendered(s)'
<1>1. UNCHANGED <<idempotency_keys, payments>> => \A s \in Scope : Rendered(s)'
  BY DEF RInv, Rendered
<1>2. ASSUME NEW r \in Request, RequestNext(r) PROVE \A s \in Scope : Rendered(s)'
  <2>1. \/ UNCHANGED <<idempotency_keys, payments>>
        \/ (WriteClaim(r) \/ WriteReclaim(r)) /\ UNCHANGED payments
        \/ At(r, "commit") /\ WriteTransaction(r)
    BY <1>2
    DEF RequestNext, Progress, tables, Arrive, Claim, ClaimConflicts, Load, Replay,
        Reclaim, ReclaimMatchesNothing, Work, Complete, OwnershipLost, Commit,
        Abort, AbortAfter
  <2> QED  BY <1>1, <2>1, ClaimRenders, CommitRenders
<1>3. CASE Tick /\ UNCHANGED <<tables, requestVars>>
  BY <1>1, <1>3 DEF tables
<1> QED  BY <1>2, <1>3 DEF Next

-----------------------------------------------------------------------------
(* Requests. *)

(* Only the request that takes a step has its registers changed. *)
LEMMA OthersStay ==
  ASSUME TypeOK, NEW r \in Request, RequestNext(r), NEW q \in Request, q # r
  PROVE  ask'[q] = ask[q] /\ stage'[q] = stage[q] /\ seen'[q] = seen[q]
         /\ result'[q] = result[q]
  BY DEF RequestNext, Progress, TypeOK, At, GoTo, Answer, Arrive, Claim,
         ClaimConflicts, Load, Replay, Reclaim, ReclaimMatchesNothing, Work,
         Complete, OwnershipLost, Commit, Abort, AbortAfter

(* A request that is answered anything but 201 claims to know nothing. *)
LEMMA Dismissed ==
  ASSUME TypeOK, NEW r \in Request, NEW c \in {409, 422, 500}, NEW b,
         Answer(r, c, b)
  PROVE  Follows(r)'
<1>1. stage'[r] = "done" /\ result'[r].status # 201
  BY DEF Answer, GoTo, TypeOK
<1> QED  BY <1>1 DEF Follows, Matched, Holding

(* The request that takes a step still knows what it claims to know. *)
LEMMA FollowsStep ==
  ASSUME TypeOK, IInv, RInv, Forward, NEW r \in Request, RequestNext(r)
  PROVE  Follows(r)'
<1> USE DEF At, GoTo
<1> DEFINE s == ask[r].scope
<1>1. /\ s \in Scope /\ idempotency_keys \in [Scope -> IdempotencyRow]
      /\ Follows(r)
  BY RowTyped DEF RInv, TypeOK, TablesTypeOK
<1>2. Row(r).state # "ABSENT" =>
        /\ idempotency_keys'[s].state # "ABSENT"
        /\ idempotency_keys'[s].fingerprint = Row(r).fingerprint
        /\ Row(r).state = "COMPLETED" => idempotency_keys'[s] = Row(r)
  BY <1>1, RecordStays DEF Row
<1>3. stage[r] # "done" => result[r] = NoResult /\ result[r].status # 201
  BY <1>1 DEF Follows, NoResult
<1>4. CASE Arrive(r)
  <2>1. stage'[r] = "claim" /\ result'[r] = NoResult
    BY <1>4 DEF Arrive, TypeOK
  <2> QED  BY <2>1 DEF Follows, Matched, Holding, NoResult
<1>5. CASE Claim(r)
  <2>1. /\ stage'[r] = "work" /\ result'[r] = NoResult /\ ask' = ask
    BY <1>3, <1>5 DEF Claim, TypeOK
  <2>2. /\ idempotency_keys'[s].state = "IN_FLIGHT"
        /\ idempotency_keys'[s].fingerprint = Fingerprint(ask[r].body)
    BY <1>1, <1>5 DEF Claim, WriteClaim
  <2> QED  BY <2>1, <2>2 DEF Follows, Matched, Holding, NoResult, Row
<1>6. CASE ClaimConflicts(r)
  <2>1. /\ stage'[r] = "load" /\ result'[r] = NoResult /\ ask' = ask
        /\ Row(r).state # "ABSENT"
    BY <1>3, <1>6 DEF ClaimConflicts, TypeOK
  <2> QED  BY <1>2, <2>1 DEF Follows, Matched, Holding, NoResult, Row
<1>7. CASE Load(r)
  <2>1. Row(r).state # "ABSENT" /\ ask' = ask /\ idempotency_keys' = idempotency_keys
    BY <1>1, <1>7 DEF Load, Follows, tables
  <2>2. CASE Answer(r, 422, NoResponse) \/ Answer(r, 409, NoResponse)
    BY <2>2, Dismissed
  <2>3. CASE /\ stage' = [stage EXCEPT ![r] = "replay"] /\ UNCHANGED result
             /\ Row(r).state = "COMPLETED"
             /\ Row(r).fingerprint = Fingerprint(ask[r].body)
    <3>1. stage'[r] = "replay" /\ result'[r] = NoResult /\ seen'[r] = Row(r)
      BY <1>3, <1>7, <2>3 DEF Load, TypeOK
    <3> QED  BY <2>1, <2>3, <3>1 DEF Follows, Matched, Holding, NoResult, Row
  <2>4. CASE /\ stage' = [stage EXCEPT ![r] = "reclaim"] /\ UNCHANGED result
             /\ Row(r).fingerprint = Fingerprint(ask[r].body)
    <3>1. stage'[r] = "reclaim" /\ result'[r] = NoResult
      BY <1>3, <1>7, <2>4 DEF Load, TypeOK
    <3> QED  BY <2>1, <2>4, <3>1 DEF Follows, Matched, Holding, NoResult, Row
  <2> QED  BY <1>7, <2>2, <2>3, <2>4 DEF Load
<1>8. CASE Replay(r)
  <2>1. /\ Row(r).state = "COMPLETED" /\ Row(r) = seen[r]
        /\ Row(r).fingerprint = Fingerprint(ask[r].body)
        /\ ask' = ask /\ idempotency_keys' = idempotency_keys
    BY <1>1, <1>8 DEF Replay, Follows, Matched, tables
  <2>2. CASE Answer(r, 500, NoResponse)
    BY <2>2, Dismissed
  <2>3. CASE Answer(r, 201, seen[r].response)
    <3>1. stage'[r] = "done" /\ result'[r] = [status |-> 201, response |-> Row(r).response]
      BY <2>1, <2>3 DEF Answer, TypeOK
    <3> QED  BY <2>1, <3>1 DEF Follows, Matched, Holding, Row
  <2> QED  BY <1>8, <2>2, <2>3 DEF Replay
<1>9. CASE Reclaim(r) \/ Work(r) \/ Complete(r)
  <2>1. /\ stage'[r] \in {"work", "complete", "commit"}
        /\ result'[r] = NoResult /\ ask' = ask /\ Matched(r)
    BY <1>3, <1>9 DEF Reclaim, Work, Complete, TypeOK, Matched, Holding
  <2>2. Row(r).state # "ABSENT" /\ Row(r).fingerprint = Fingerprint(ask[r].body)
    BY <1>1, <2>1 DEF Follows
  <2> QED  BY <1>2, <2>1, <2>2 DEF Follows, Matched, Holding, NoResult, Row
<1>10. CASE ReclaimMatchesNothing(r) \/ OwnershipLost(r) \/ Abort(r) \/ AbortAfter(r)
  BY <1>10, Dismissed DEF ReclaimMatchesNothing, OwnershipLost, Abort, AbortAfter
<1>11. CASE Commit(r)
  <2>1. /\ stage'[r] = "done" /\ ask' = ask
        /\ result'[r] = [status |-> 201, response |-> CreatedResponse(r)]
    BY <1>11 DEF Commit, Answer, TypeOK
  <2>2. /\ idempotency_keys'[s].state = "COMPLETED"
        /\ idempotency_keys'[s].response = CreatedResponse(r)
        /\ idempotency_keys'[s].fingerprint = Row(r).fingerprint
    BY <1>11, TransactionWrites DEF Commit, Row
  <2>3. Row(r).fingerprint = Fingerprint(ask[r].body)
    BY <1>1, <1>11 DEF Commit, Follows, Matched, Holding
  <2> QED  BY <2>1, <2>2, <2>3 DEF Follows, Matched, Holding, Row
<1> QED
  BY <1>4, <1>5, <1>6, <1>7, <1>8, <1>9, <1>10, <1>11 DEF RequestNext, Progress

(* Every step keeps RInv. *)
LEMMA RInvStep == TypeOK /\ IInv /\ RInv /\ [Next]_vars => RInv'
<1> SUFFICES ASSUME TypeOK, IInv, RInv, [Next]_vars PROVE RInv'
  OBVIOUS
<1>1. CASE UNCHANGED vars
  BY <1>1 DEF vars, tables, requestVars, RInv, Follows, Rendered, Matched, Holding, Row
<1>2. CASE Next
  <2>1. \A s \in Scope : Rendered(s)'
    BY <1>2, RenderedStep
  <2>2. Forward
    BY <1>2, NextGoesForward
  <2>3. CASE Tick /\ UNCHANGED <<tables, requestVars>>
    <3>1. \A q \in Request : Follows(q)'
      BY <2>3 DEF tables, requestVars, RInv, Follows, Matched, Holding, Row
    <3> QED  BY <2>1, <3>1 DEF RInv
  <2>4. ASSUME NEW r \in Request, RequestNext(r) PROVE \A q \in Request : Follows(q)'
    <3> SUFFICES ASSUME NEW q \in Request PROVE Follows(q)'
      OBVIOUS
    <3>1. CASE q = r
      BY <2>2, <2>4, <3>1, FollowsStep
    <3>2. CASE q # r
      <4>1. Follows(q)
        BY DEF RInv
      <4> QED  BY <2>2, <2>4, <3>2, <4>1, OthersStay, FollowsOn
    <3> QED  BY <3>1, <3>2
  <2> QED  BY <1>2, <2>1, <2>3, <2>4 DEF Next, RInv
<1> QED  BY <1>1, <1>2

(* It starts so. *)
LEMMA RInvInit == Init => RInv
<1> SUFFICES ASSUME Init PROVE RInv
  OBVIOUS
<1>1. \A r \in Request : Follows(r)
  BY DEF Init, Follows, Matched, Holding, NoResult
<1>2. \A s \in Scope : Rendered(s)
  BY DEF Init, TablesInit, Rendered, Absent
<1> QED  BY <1>1, <1>2 DEF RInv

(* RInv holds at all times. *)
LEMMA RInvHolds == Spec => [](TypeOK /\ IInv /\ RInv)
  BY IInvHolds, RInvInit, RInvStep, PTL DEF Spec

-----------------------------------------------------------------------------
(* Results. *)

LEMMA RecordsHavePayments == TypeOK /\ IInv /\ RInv => CompletedIffPayment
<1> SUFFICES ASSUME TypeOK, IInv, RInv, NEW s \in Scope
             PROVE  LET row == idempotency_keys[s]
                        mine == {i \in DOMAIN payments :
                                   payments[i].account = s[1] /\ payments[i].key = s[2]}
                    IN  /\ mine # {} <=> row.state = "COMPLETED"
                        /\ \A i \in mine :
                             /\ row.payment_id = i
                             /\ row.response = Encode(i, [payments[i] EXCEPT !.status = "PROCESSING"])
                             /\ row.fingerprint = Fingerprint(payments[i].body)
  BY DEF CompletedIffPayment
<1> DEFINE row == idempotency_keys[s]
           mine == {i \in DOMAIN payments :
                      payments[i].account = s[1] /\ payments[i].key = s[2]}
<1>1. DOMAIN payments = 1..Len(payments)
  BY DEF TypeOK, TablesTypeOK
<1>2. s = <<s[1], s[2]>>
  BY DEF Scope
<1>3. \A i \in mine : row.state = "COMPLETED" /\ row.payment_id = i
  BY <1>1, <1>2 DEF IInv, PaymentsAreRecorded, ScopeOf
<1>4. row.state = "COMPLETED" => row.payment_id \in mine
  BY <1>1, <1>2 DEF RInv, Rendered, ScopeOf
<1>5. \A i \in mine :
        /\ row.response = Encode(i, [payments[i] EXCEPT !.status = "PROCESSING"])
        /\ row.fingerprint = Fingerprint(payments[i].body)
  BY <1>3 DEF RInv, Rendered
<1> QED  BY <1>3, <1>4, <1>5

(* A payment exists exactly for the completed records, each with the       *)
(* response rendered when it was created and for the body it was created   *)
(* from: the owner's transaction is all or nothing.                        *)
THEOREM CompletedExactly == Spec => []CompletedIffPayment
  BY RecordsHavePayments, RInvHolds, PTL

LEMMA AnswersFollowRecords == TypeOK /\ RInv => AnswersAgree
<1> SUFFICES ASSUME TypeOK, RInv, NEW r \in Request, result[r].status = 201
             PROVE  /\ result[r].response = Row(r).response
                    /\ Row(r).fingerprint = Fingerprint(ask[r].body)
                    /\ result[r].response.payment_id \in DOMAIN payments
                    /\ payments[result[r].response.payment_id].body = ask[r].body
  BY DEF AnswersAgree
<1> DEFINE i == Row(r).payment_id
<1>1. /\ result[r].response = Row(r).response
      /\ Row(r).fingerprint = Fingerprint(ask[r].body)
      /\ Row(r).state = "COMPLETED"
  BY DEF RInv, Follows, Matched
<1>2. /\ i \in 1..Len(payments)
      /\ Row(r).response = Encode(i, [payments[i] EXCEPT !.status = "PROCESSING"])
      /\ Row(r).fingerprint = Fingerprint(payments[i].body)
  BY <1>1, RowTyped DEF RInv, Rendered, Row
<1>3. Row(r).response.payment_id = i
  BY <1>2 DEF Encode
<1>4. payments[i].body \in Body
  <2>1. payments[i] \in PaymentRow
    BY <1>2, PaymentTyped
  <2> QED  BY <2>1 DEF PaymentRow
<1>5. DOMAIN payments = 1..Len(payments)
  BY DEF TypeOK, TablesTypeOK
<1>6. payments[i].body = ask[r].body
  <2>1. Fingerprint(payments[i].body) = Fingerprint(ask[r].body)
    BY <1>1, <1>2
  <2>2. ask[r].body \in Body
    BY RowTyped
  <2> QED  BY <1>4, <2>1, <2>2, FingerprintTells
<1> QED  BY <1>1, <1>2, <1>3, <1>5, <1>6

(* Whoever is told 201 is told the recorded response, of a payment for the *)
(* body it sent.                                                           *)
THEOREM EveryAnswerAgrees == Spec => []AnswersAgree
  BY AnswersFollowRecords, RInvHolds, PTL

-----------------------------------------------------------------------------
(* Refinement. *)

Bound == [s \in Scope |-> idempotency_keys[s].fingerprint]

Made == {<<ScopeOf(payments[i]), i>> : i \in DOMAIN payments}

Answers == [s \in Scope |-> idempotency_keys[s].response]

Asked == [r \in Request |-> [scope |-> ask[r].scope, print |-> Fingerprint(ask[r].body)]]

(* A claim of an absent record binds the key. *)
LEMMA ClaimBinds ==
  ASSUME TypeOK, RInv, NEW r \in Request, WriteClaim(r)
  PROVE  /\ Bound[Asked[r].scope] = <<>>
         /\ Bound' = [Bound EXCEPT ![Asked[r].scope] = Asked[r].print]
         /\ Answers' = Answers
<1> DEFINE s == ask[r].scope
<1>1. /\ s \in Scope /\ idempotency_keys[s].state = "ABSENT"
      /\ idempotency_keys'[s].fingerprint = Fingerprint(ask[r].body)
      /\ idempotency_keys'[s].response = NoResponse
      /\ \A x \in Scope : x # s => idempotency_keys'[x] = idempotency_keys[x]
  BY RowTyped DEF WriteClaim, Row, TypeOK, TablesTypeOK
<1>2. idempotency_keys[s].fingerprint = <<>> /\ idempotency_keys[s].response = NoResponse
  BY <1>1 DEF RInv, Rendered
<1>3. Asked[r].scope = s /\ Asked[r].print = Fingerprint(ask[r].body)
  BY DEF Asked
<1> QED  BY <1>1, <1>2, <1>3 DEF Bound, Answers

(* A takeover is invisible. *)
LEMMA ReclaimInvisible ==
  ASSUME TypeOK, NEW r \in Request, WriteReclaim(r)
  PROVE  Bound' = Bound /\ Answers' = Answers
<1> DEFINE s == ask[r].scope
<1>1. /\ s \in Scope /\ idempotency_keys[s] \in IdempotencyRow
      /\ idempotency_keys'[s] = [idempotency_keys[s] EXCEPT !.claimed_at = now[r]]
      /\ \A x \in Scope : x # s => idempotency_keys'[x] = idempotency_keys[x]
  BY RowTyped DEF WriteReclaim, TypeOK, TablesTypeOK
<1>2. /\ idempotency_keys'[s].fingerprint = idempotency_keys[s].fingerprint
      /\ idempotency_keys'[s].response = idempotency_keys[s].response
  BY <1>1 DEF IdempotencyRow
<1> QED  BY <1>1, <1>2 DEF Bound, Answers

(* A commit makes the one payment of its scope. *)
LEMMA CommitMakes ==
  ASSUME TypeOK, IInv, RInv, NEW r \in Request, At(r, "commit"), WriteTransaction(r)
  PROVE  LET s == Asked[r].scope
             id == Answers'[s].payment_id
         IN  /\ Bound[s] = Asked[r].print
             /\ Answers[s] = NoResponse
             /\ Answers'[s] = CreatedResponse(r)
             /\ Answers'[s] \in Response \ {NoResponse}
             /\ Answers' = [Answers EXCEPT ![s] = Answers'[s]]
             /\ \A m \in Made : m[1] # s /\ m[2] # id
             /\ Made' = Made \cup {<<s, id>>}
             /\ Bound' = Bound
<1> DEFINE s == ask[r].scope
           n == Len(payments) + 1
           p == NewPayment(s, ask[r].body, now[r])
<1>1. Asked[r].scope = s /\ Asked[r].print = Fingerprint(ask[r].body)
  BY DEF Asked
<1>2. s \in Scope /\ idempotency_keys[s].state = "IN_FLIGHT"
  BY RowTyped DEF At, IInv, TokensAreCurrent, Holding, Row
<1>3. idempotency_keys[s].fingerprint = Fingerprint(ask[r].body)
  BY DEF At, RInv, Follows, Matched, Holding, Row
<1>4. idempotency_keys[s].response = NoResponse
  BY <1>2 DEF RInv, Rendered
<1>5. /\ n \in Nat /\ n > 0
      /\ idempotency_keys'[s].response = CreatedResponse(r)
      /\ idempotency_keys'[s].fingerprint = idempotency_keys[s].fingerprint
      /\ \A x \in Scope : x # s => idempotency_keys'[x] = idempotency_keys[x]
      /\ DOMAIN payments' = DOMAIN payments \cup {n}
      /\ DOMAIN payments = 1..Len(payments)
      /\ payments'[n] = p
      /\ \A i \in 1..Len(payments) : payments'[i] = payments[i]
  BY TransactionWrites
<1>6. CreatedResponse(r) \in Response /\ CreatedResponse(r).payment_id = n
  BY WriteTransactionTyped DEF CreatedResponse, Encode
<1>7. CreatedResponse(r) # NoResponse
  BY <1>5, <1>6 DEF NoResponse, NoPayment
<1>8. ScopeOf(p) = s
  BY RowTyped, NewPaymentTyped
<1>9. Made' = Made \cup {<<s, n>>}
  BY <1>5, <1>8 DEF Made, ScopeOf
<1>10. \A i \in 1..Len(payments) : ScopeOf(payments[i]) # s /\ i # n
  BY <1>2, <1>5 DEF IInv, PaymentsAreRecorded
<1>11. \A m \in Made : m[1] # s /\ m[2] # n
  BY <1>5, <1>10 DEF Made
<1>12. Answers'[s] = CreatedResponse(r) /\ Answers[s] = NoResponse
       /\ Bound[s] = Fingerprint(ask[r].body)
  BY <1>2, <1>3, <1>4, <1>5 DEF Answers, Bound
<1>13. Answers' = [Answers EXCEPT ![s] = Answers'[s]] /\ Bound' = Bound
  BY <1>2, <1>5 DEF Answers, Bound
<1> QED  BY <1>1, <1>6, <1>7, <1>9, <1>11, <1>12, <1>13

(* A step that changes at most what a request was told. *)
LEMMA TablesKept ==
  ASSUME UNCHANGED <<idempotency_keys, payments, ask>>
  PROVE  Bound' = Bound /\ Made' = Made /\ Answers' = Answers /\ Asked' = Asked
  BY DEF Bound, Made, Answers, Asked, ScopeOf

(* A step of the promise for a request is a step of the promise. *)
LEMMA PromiseStep ==
  ASSUME NEW r \in Request,
         \/ Promise!AskAgain(r) \/ Promise!Bind(r) \/ Promise!Make(r)
         \/ Promise!Repeat(r) \/ Promise!Refuse(r) \/ Promise!ComeBack(r)
  PROVE  Promise!Next
  BY Zenon DEF Promise!Next
(* What a request sees of the promise, in the terms of the code. *)
LEMMA InTermsOfCode ==
  ASSUME TypeOK, RInv, NEW r \in Request, RequestNext(r)
  PROVE  /\ ask[r].scope \in Scope /\ result \in [Request -> Result]
         /\ Asked[r].scope = ask[r].scope /\ Asked[r].print = Fingerprint(ask[r].body)
         /\ Bound[ask[r].scope] = Row(r).fingerprint
         /\ Answers[ask[r].scope] = Row(r).response
         /\ Follows(r)
         /\ stage[r] # "done" => result[r] = Promise!Silence
         /\ Asked' = Asked /\ ask' = ask
<1>1. /\ ask[r].scope \in Scope /\ result \in [Request -> Result]
      /\ Asked[r].scope = ask[r].scope /\ Asked[r].print = Fingerprint(ask[r].body)
      /\ Bound[ask[r].scope] = Row(r).fingerprint
      /\ Answers[ask[r].scope] = Row(r).response
      /\ Follows(r)
  BY RowTyped DEF RInv, TypeOK, Asked, Bound, Answers, Row
<1>2. stage[r] # "done" => result[r] = Promise!Silence
  BY <1>1 DEF Follows, NoResult, Promise!Silence
<1>3. ask' = ask /\ Asked' = Asked
  BY DEF RequestNext, Progress, Asked, Arrive, Claim, ClaimConflicts, Load, Replay,
         Reclaim, ReclaimMatchesNothing, Work, Complete, OwnershipLost, Commit,
         Abort, AbortAfter
<1> QED  BY <1>1, <1>2, <1>3

(* A request that ends without an answer is told to come back. *)
LEMMA EndsInComeBack ==
  ASSUME TypeOK, RInv, NEW r \in Request, RequestNext(r), stage[r] # "done",
         UNCHANGED <<idempotency_keys, payments>>,
         \/ Answer(r, 500, NoResponse)
         \/ Answer(r, 409, NoResponse) /\ Row(r).fingerprint = Fingerprint(ask[r].body)
  PROVE  Promise!Next
<1>1. result[r] = Promise!Silence /\ ask' = ask
  BY InTermsOfCode
<1>2. \/ Promise!Tell(r, 500, NoResponse)
      \/ /\ Bound[Asked[r].scope] = Asked[r].print
         /\ Promise!Tell(r, 409, NoResponse)
  BY InTermsOfCode DEF Answer, Promise!Tell
<1>3. Bound' = Bound /\ Made' = Made /\ Answers' = Answers /\ Asked' = Asked
  BY <1>1, TablesKept
<1>4. Promise!ComeBack(r)
  BY <1>1, <1>2, <1>3 DEF Promise!ComeBack, Bound, Made, Answers, Asked, ScopeOf
<1> QED  BY <1>4, PromiseStep

(* A claim binds the key, whether or not its request learns so. *)
LEMMA ClaimsBind ==
  ASSUME TypeOK, RInv, NEW r \in Request, RequestNext(r), At(r, "claim"),
         WriteClaim(r), UNCHANGED payments,
         UNCHANGED result \/ Answer(r, 500, NoResponse)
  PROVE  Promise!Next
<1>1. result[r] = Promise!Silence /\ Asked' = Asked
  BY InTermsOfCode DEF At
<1>2. UNCHANGED result \/ Promise!Tell(r, 500, NoResponse)
  BY DEF Answer, Promise!Tell
<1>3. Made' = Made
  BY DEF Made, ScopeOf
<1>4. Promise!Bind(r)
  BY <1>1, <1>2, <1>3, ClaimBinds DEF Promise!Bind, Bound, Made, Answers, Asked, ScopeOf
<1> QED  BY <1>4, PromiseStep

(* A commit makes the payment, whether or not its request learns so. *)
LEMMA CommitsMake ==
  ASSUME TypeOK, IInv, RInv, NEW r \in Request, RequestNext(r), At(r, "commit"),
         WriteTransaction(r),
         Answer(r, 201, CreatedResponse(r)) \/ Answer(r, 500, NoResponse)
  PROVE  Promise!Next
<1>1. result[r] = Promise!Silence /\ Asked' = Asked
  BY InTermsOfCode DEF At
<1>2. \/ Promise!Tell(r, 201, Answers'[Asked[r].scope])
      \/ Promise!Tell(r, 500, NoResponse)
  BY CommitMakes DEF Answer, Promise!Tell
<1>3. Promise!Make(r)
  BY <1>1, <1>2, CommitMakes DEF Promise!Make, Bound, Made, Answers, Asked, ScopeOf
<1> QED  BY <1>3, PromiseStep

(* What a request does upon the record it loaded. *)
LEMMA LoadKeepsPromise ==
  ASSUME TypeOK, RInv, NEW r \in Request, RequestNext(r), Load(r)
  PROVE  Promise!Next \/ UNCHANGED <<Asked, Bound, Made, Answers, result>>
<1>1. /\ stage[r] = "load" /\ stage[r] # "done"
      /\ UNCHANGED <<idempotency_keys, payments>> /\ ask' = ask
      /\ Follows(r) /\ ask[r].scope \in Scope
  BY InTermsOfCode DEF Load, At, tables
<1>2. Bound' = Bound /\ Made' = Made /\ Answers' = Answers /\ Asked' = Asked
  BY <1>1, TablesKept
<1>3. CASE Row(r).fingerprint # Fingerprint(ask[r].body) /\ Answer(r, 422, NoResponse)
  <2>1. Row(r).fingerprint # <<>>
    BY <1>1 DEF Follows, RInv, Rendered, Row
  <2>2. Bound[Asked[r].scope] \notin {<<>>, Asked[r].print}
    BY <1>3, <2>1, InTermsOfCode
  <2>3. result[r] = Promise!Silence /\ Promise!Tell(r, 422, NoResponse)
    BY <1>1, <1>3, InTermsOfCode DEF Answer, Promise!Tell
  <2>4. Promise!Refuse(r)
    BY <1>2, <2>2, <2>3 DEF Promise!Refuse, Bound, Made, Answers, Asked, ScopeOf
  <2> QED  BY <2>4, PromiseStep
<1>4. CASE Row(r).fingerprint = Fingerprint(ask[r].body) /\ Answer(r, 409, NoResponse)
  BY <1>1, <1>4, EndsInComeBack
<1>5. CASE UNCHANGED result
  BY <1>2, <1>5
<1> QED  BY <1>3, <1>4, <1>5 DEF Load

(* A replay repeats the recorded response. *)
LEMMA ReplayKeepsPromise ==
  ASSUME TypeOK, RInv, NEW r \in Request, RequestNext(r), Replay(r)
  PROVE  Promise!Next
<1>1. /\ stage[r] = "replay" /\ stage[r] # "done"
      /\ UNCHANGED <<idempotency_keys, payments>> /\ ask' = ask
      /\ Follows(r) /\ ask[r].scope \in Scope
  BY InTermsOfCode DEF Replay, At, tables
<1>2. Bound' = Bound /\ Made' = Made /\ Answers' = Answers /\ Asked' = Asked
  BY <1>1, TablesKept
<1>3. CASE Answer(r, 500, NoResponse)
  BY <1>1, <1>3, EndsInComeBack
<1>4. CASE Answer(r, 201, seen[r].response)
  <2>1. /\ Row(r).state = "COMPLETED" /\ seen[r] = Row(r)
        /\ Row(r).fingerprint = Fingerprint(ask[r].body)
    BY <1>1 DEF Follows, Matched
  <2>2. Row(r).response # NoResponse
    <3>1. /\ Row(r).payment_id \in 1..Len(payments)
          /\ Row(r).response = Encode(Row(r).payment_id,
                                      [payments[Row(r).payment_id] EXCEPT !.status = "PROCESSING"])
      BY <1>1, <2>1 DEF RInv, Rendered, Row
    <3>2. Len(payments) \in Nat
      BY DEF TypeOK, TablesTypeOK
    <3> QED  BY <3>1, <3>2 DEF Encode, NoResponse, NoPayment
  <2>3. /\ Bound[Asked[r].scope] = Asked[r].print
        /\ Answers[Asked[r].scope] # NoResponse
        /\ result[r] = Promise!Silence
        /\ Promise!Tell(r, 201, Answers[Asked[r].scope])
    BY <1>1, <1>4, <2>1, <2>2, InTermsOfCode DEF Answer, Promise!Tell
  <2>4. Promise!Repeat(r)
    BY <1>2, <2>3 DEF Promise!Repeat, Bound, Made, Answers, Asked, ScopeOf
  <2> QED  BY <2>4, PromiseStep
<1> QED  BY <1>3, <1>4 DEF Replay

(* A client that sends its request again waits for a new answer. *)
LEMMA ArriveKeepsPromise ==
  ASSUME TypeOK, RInv, NEW r \in Request, RequestNext(r), Arrive(r)
  PROVE  Promise!Next \/ UNCHANGED <<Asked, Bound, Made, Answers, result>>
<1>1. /\ UNCHANGED <<idempotency_keys, payments>> /\ ask' = ask
      /\ result' = [result EXCEPT ![r] = Promise!Silence]
      /\ result \in [Request -> Result]
  BY InTermsOfCode DEF Arrive, tables, NoResult, Promise!Silence
<1>2. Bound' = Bound /\ Made' = Made /\ Answers' = Answers /\ Asked' = Asked
  BY <1>1, TablesKept
<1>3. CASE At(r, "idle")
  <2>1. result[r] = Promise!Silence
    BY <1>3, InTermsOfCode DEF At
  <2>2. result' = result
    BY <1>1, <2>1
  <2> QED  BY <1>2, <2>2
<1>4. CASE result[r].status \in {409, 500}
  <2>1. Promise!AskAgain(r)
    BY <1>1, <1>2, <1>4 DEF Promise!AskAgain, Bound, Made, Answers, Asked, ScopeOf
  <2> QED  BY <2>1, PromiseStep
<1> QED  BY <1>3, <1>4 DEF Arrive

(* Every step of a request is one that the promise allows, or none. *)
LEMMA RequestKeepsPromise ==
  ASSUME TypeOK, IInv, RInv, NEW r \in Request, RequestNext(r)
  PROVE  Promise!Next \/ UNCHANGED <<Asked, Bound, Made, Answers, result>>
<1>1. CASE Arrive(r)
  BY <1>1, ArriveKeepsPromise
<1>2. CASE Claim(r)
  <2>1. At(r, "claim") /\ WriteClaim(r) /\ UNCHANGED payments /\ UNCHANGED result
    BY <1>2 DEF Claim
  <2> QED  BY <2>1, ClaimsBind
<1>3. CASE ClaimConflicts(r) \/ Work(r) \/ Complete(r)
  <2>1. UNCHANGED <<idempotency_keys, payments, ask, result>>
    BY <1>3 DEF ClaimConflicts, Work, Complete, tables
  <2> QED  BY <2>1, TablesKept
<1>4. CASE Load(r)
  BY <1>4, LoadKeepsPromise
<1>5. CASE Replay(r)
  BY <1>5, ReplayKeepsPromise
<1>6. CASE Reclaim(r)
  <2>1. WriteReclaim(r) /\ UNCHANGED payments /\ UNCHANGED result
    BY <1>6 DEF Reclaim
  <2>2. Made' = Made /\ Asked' = Asked
    BY <2>1, InTermsOfCode DEF Made, ScopeOf
  <2> QED  BY <2>1, <2>2, ReclaimInvisible
<1>7. CASE ReclaimMatchesNothing(r) \/ OwnershipLost(r) \/ Abort(r)
  <2>1. /\ stage[r] # "done" /\ UNCHANGED <<idempotency_keys, payments>>
        /\ \/ Answer(r, 500, NoResponse)
           \/ Answer(r, 409, NoResponse) /\ stage[r] = "reclaim"
    BY <1>7 DEF ReclaimMatchesNothing, OwnershipLost, Abort, At, tables
  <2>2. stage[r] = "reclaim" => Row(r).fingerprint = Fingerprint(ask[r].body)
    BY DEF RInv, Follows, Matched
  <2> QED  BY <2>1, <2>2, EndsInComeBack
<1>8. CASE Commit(r)
  <2>1. At(r, "commit") /\ WriteTransaction(r) /\ Answer(r, 201, CreatedResponse(r))
    BY <1>8 DEF Commit
  <2> QED  BY <2>1, CommitsMake
<1>9. CASE AbortAfter(r)
  <2>1. CASE At(r, "claim") /\ WriteClaim(r) /\ UNCHANGED payments
    BY <1>9, <2>1, ClaimsBind DEF AbortAfter
  <2>2. CASE At(r, "reclaim") /\ WriteReclaim(r) /\ UNCHANGED payments
    <3>1. /\ result[r] = Promise!Silence /\ Asked' = Asked
          /\ Promise!Tell(r, 500, NoResponse)
      BY <1>9, <2>2, InTermsOfCode DEF At, AbortAfter, Answer, Promise!Tell
    <3>2. Made' = Made
      BY <2>2, InTermsOfCode DEF Made, ScopeOf
    <3>3. Promise!ComeBack(r)
      BY <2>2, <3>1, <3>2, ReclaimInvisible
      DEF Promise!ComeBack, Bound, Made, Answers, Asked, ScopeOf
    <3> QED  BY <3>3, PromiseStep
  <2>3. CASE At(r, "commit") /\ WriteTransaction(r)
    BY <1>9, <2>3, CommitsMake DEF AbortAfter
  <2> QED  BY <1>9, <2>1, <2>2, <2>3 DEF AbortAfter
<1> QED
  BY <1>1, <1>2, <1>3, <1>4, <1>5, <1>6, <1>7, <1>8, <1>9 DEF RequestNext, Progress

(* So is every step. *)
LEMMA StepKeepsPromise ==
  TypeOK /\ IInv /\ RInv /\ [Next]_vars => [Promise!Next]_(Promise!vars)
<1> SUFFICES ASSUME TypeOK, IInv, RInv, [Next]_vars
             PROVE  Promise!Next \/ UNCHANGED Promise!vars
  OBVIOUS
<1>1. UNCHANGED <<Asked, Bound, Made, Answers, result>> => UNCHANGED Promise!vars
  BY DEF Promise!vars, Bound, Made, Answers, Asked, ScopeOf
<1>2. UNCHANGED <<idempotency_keys, payments, ask, result>> => UNCHANGED Promise!vars
  BY <1>1, TablesKept
<1>3. CASE UNCHANGED vars
  BY <1>2, <1>3 DEF vars, tables, requestVars
<1>4. CASE Next
  <2>1. CASE Tick /\ UNCHANGED <<tables, requestVars>>
    BY <1>2, <2>1 DEF tables, requestVars
  <2>2. ASSUME NEW r \in Request, RequestNext(r)
        PROVE  Promise!Next \/ UNCHANGED Promise!vars
    BY <1>1, <2>2, RequestKeepsPromise
  <2> QED  BY <1>4, <2>1, <2>2 DEF Next
<1> QED  BY <1>3, <1>4

(* The initial states are the promise's. *)
LEMMA InitKeepsPromise == Init => Promise!Init
<1> SUFFICES ASSUME Init PROVE Promise!Init
  OBVIOUS
<1>1. /\ ask \in [Request -> Ask] /\ payments = <<>>
      /\ idempotency_keys = [s \in Scope |-> Absent]
      /\ result = [r \in Request |-> NoResult]
  BY DEF Init, TablesInit
<1>2. Asked \in [Request -> [scope : Scope, print : {Fingerprint(b) : b \in Body}]]
  BY <1>1 DEF Asked, Ask
<1>3. /\ Bound = [s \in Scope |-> <<>>] /\ Made = {}
      /\ Answers = [s \in Scope |-> NoResponse]
      /\ result = [r \in Request |-> Promise!Silence]
  BY <1>1 DEF Bound, Made, Answers, Absent, NoResult, Promise!Silence
<1> QED  BY <1>2, <1>3 DEF Promise!Init, Bound, Made, Answers, Asked, ScopeOf

(* POST /v1/payments implements its abstract specification: behind leases, *)
(* takeovers, crashed requests and lost commits, a key is bound to one     *)
(* body for ever, pays once, and repeats one answer.                       *)
THEOREM KeepsItsPromise == Spec => KeepsPromise
  BY RInvHolds, InitKeepsPromise, StepKeepsPromise, PTL
  DEF Spec, KeepsPromise, Promise!Spec

-----------------------------------------------------------------------------
(* Beside other processes: what a request writes, and what may happen      *)
(* beside it.                                                              *)

(* The rest of the service settles payments, and leaves their scopes,      *)
(* bodies and creation times, the keys and the requests alone.             *)
Beyond ==
  /\ UNCHANGED <<idempotency_keys, stage, ask, now, seen, target, result>>
  /\ TablesTypeOK'
  /\ DOMAIN payments' = DOMAIN payments
  /\ \A i \in DOMAIN payments :
       /\ payments'[i].account = payments[i].account
       /\ payments'[i].key = payments[i].key
       /\ payments'[i].body = payments[i].body
       /\ payments'[i].created_at = payments[i].created_at

CreateInv == TypeOK /\ IInv /\ RInv

LEMMA BeyondKeepsCreateInv ==
  ASSUME CreateInv, Beyond
  PROVE  CreateInv'
<1>1. TypeOK'
  BY DEF CreateInv, TypeOK, Beyond
<1>2. DOMAIN payments = 1..Len(payments) /\ DOMAIN payments' = 1..Len(payments')
  BY <1>1 DEF CreateInv, TypeOK, TablesTypeOK
<1>3. Len(payments') = Len(payments)
  <2>1. Len(payments) \in Nat /\ Len(payments') \in Nat
    BY <1>1 DEF CreateInv, TypeOK, TablesTypeOK
  <2> QED  BY <1>2, <2>1 DEF Beyond
<1>4. \A i \in 1..Len(payments) : ScopeOf(payments'[i]) = ScopeOf(payments[i])
  BY <1>2 DEF Beyond, ScopeOf
<1>5. IInv'
  <2>1. TokensAreCurrent' /\ OwnersHaveOwnTokens'
    BY DEF CreateInv, IInv, TokensAreCurrent, OwnersHaveOwnTokens, Holding, Row, Beyond
  <2>2. PaymentsAreRecorded'
    BY <1>3, <1>4 DEF CreateInv, IInv, PaymentsAreRecorded, Beyond
  <2> QED  BY <2>1, <2>2 DEF IInv
<1>6. ASSUME NEW s \in Scope
      PROVE  Rendered(s)'
  <2> DEFINE i == idempotency_keys[s].payment_id
  <2>1. Rendered(s) /\ idempotency_keys' = idempotency_keys
    BY DEF CreateInv, RInv, Beyond
  <2>2. CASE idempotency_keys[s].state = "COMPLETED"
    <3>1. /\ i \in 1..Len(payments) /\ ScopeOf(payments[i]) = s
          /\ idempotency_keys[s].response = Encode(i, [payments[i] EXCEPT !.status = "PROCESSING"])
          /\ idempotency_keys[s].fingerprint = Fingerprint(payments[i].body)
      BY <2>1, <2>2 DEF Rendered
    <3>2. payments[i] \in PaymentRow /\ payments'[i] \in PaymentRow
      BY <1>1, <1>3, <3>1 DEF CreateInv, TypeOK, TablesTypeOK
    <3>3. /\ payments'[i].body = payments[i].body
          /\ payments'[i].created_at = payments[i].created_at
      BY <1>2, <3>1 DEF Beyond
    <3>4. Encode(i, [payments'[i] EXCEPT !.status = "PROCESSING"])
            = Encode(i, [payments[i] EXCEPT !.status = "PROCESSING"])
      BY <3>2, <3>3 DEF Encode, PaymentRow
    <3>5. ScopeOf(payments'[i]) = s /\ i \in 1..Len(payments')
      BY <1>3, <1>4, <3>1
    <3> QED  BY <2>1, <2>2, <3>1, <3>3, <3>4, <3>5 DEF Rendered
  <2>3. CASE idempotency_keys[s].state # "COMPLETED"
    BY <2>1, <2>3 DEF Rendered
  <2> QED  BY <2>2, <2>3
<1>7. \A r \in Request : Follows(r)'
  BY DEF CreateInv, RInv, Follows, Matched, Holding, Row, Beyond
<1> QED  BY <1>1, <1>5, <1>6, <1>7 DEF CreateInv, RInv

LEMMA BeyondIsInvisible ==
  ASSUME Beyond
  PROVE  UNCHANGED Promise!vars
<1>1. Made' = Made
  <2>1. \A i \in DOMAIN payments : ScopeOf(payments'[i]) = ScopeOf(payments[i])
    BY DEF Beyond, ScopeOf
  <2> QED  BY <2>1 DEF Made, Beyond
<1>2. Bound' = Bound /\ Answers' = Answers /\ Asked' = Asked /\ result' = result
  BY DEF Bound, Answers, Asked, Beyond
<1> QED  BY <1>1, <1>2 DEF Promise!vars, Bound, Made, Answers, Asked, ScopeOf

(* What a request's step writes but its registers: nothing but keys, or    *)
(* the transaction of a key's owner.                                       *)
LEMMA RequestWrites ==
  ASSUME TypeOK, NEW r \in Request, RequestNext(r)
  PROVE  /\ UNCHANGED <<clock, webhook_subscriptions>>
         /\ \/ UNCHANGED <<payments, webhook_deliveries, outbox_work>>
            \/ stage[r] = "commit" /\ InsertPayment(ask[r].scope, ask[r].body, now[r], target[r])
<1>1. CASE \/ Claim(r) \/ ClaimConflicts(r) \/ Load(r) \/ Replay(r) \/ Reclaim(r)
           \/ ReclaimMatchesNothing(r) \/ Work(r) \/ Complete(r) \/ OwnershipLost(r)
           \/ Arrive(r) \/ Abort(r)
  BY <1>1 DEF Claim, ClaimConflicts, Load, Replay, Reclaim, ReclaimMatchesNothing, Work,
              Complete, OwnershipLost, Arrive, Abort, tables
<1>2. CASE Commit(r) \/ AbortAfter(r)
  BY <1>2 DEF Commit, AbortAfter, WriteTransaction, WriteClaim, WriteReclaim, At
<1> QED  BY <1>1, <1>2 DEF RequestNext, Progress

(* Whom a transaction notifies is chosen once, when it reads. *)
LEMMA RequestTargets ==
  ASSUME TypeOK, NEW r \in Request, RequestNext(r), NEW q \in Request,
         stage'[q] \in {"complete", "commit"}
  PROVE  /\ ask' = ask
         /\ \/ stage[q] \in {"complete", "commit"} /\ target'[q] = target[q]
            \/ /\ UNCHANGED tables
               /\ target'[q] \in SubscriptionToNotify(ask[q].scope[1], "PROCESSING")
<1>0. stage \in [Request -> Stage] /\ target \in [Request -> Nat]
  BY DEF TypeOK
<1>1. CASE Work(r)
  <2>1. /\ ask' = ask /\ UNCHANGED tables
        /\ stage' = [stage EXCEPT ![r] = "complete"]
        /\ \E sub \in SubscriptionToNotify(ask[r].scope[1], "PROCESSING") :
             target' = [target EXCEPT ![r] = sub]
    BY <1>1 DEF Work, GoTo, CreationStatus
  <2> QED  BY <1>0, <2>1
<1>2. CASE Complete(r)
  BY <1>0, <1>2 DEF Complete, At, GoTo
<1>3. CASE Arrive(r)
  BY <1>0, <1>3 DEF Arrive, GoTo
<1>4. CASE \/ Claim(r) \/ ClaimConflicts(r) \/ Load(r) \/ Replay(r) \/ Reclaim(r)
           \/ ReclaimMatchesNothing(r) \/ OwnershipLost(r) \/ Abort(r)
           \/ Commit(r) \/ AbortAfter(r)
  <2>1. ask' = ask /\ target' = target
    BY <1>4 DEF Claim, ClaimConflicts, Load, Replay, Reclaim, ReclaimMatchesNothing,
                OwnershipLost, Abort, Commit, AbortAfter
  <2>2. \E st \in Stage \ {"complete", "commit"} : stage' = [stage EXCEPT ![r] = st]
    BY <1>4 DEF Claim, ClaimConflicts, Load, Replay, Reclaim, ReclaimMatchesNothing,
                OwnershipLost, Abort, Commit, AbortAfter, Answer, GoTo, Stage
  <2> QED  BY <1>0, <2>1, <2>2
<1> QED  BY <1>1, <1>2, <1>3, <1>4 DEF RequestNext, Progress
=============================================================================
