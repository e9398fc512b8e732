---------------------------- MODULE CreatePayment ----------------------------
(***************************************************************************)
(* POST /v1/payments: CreatePaymentUseCase.Execute over the idempotency    *)
(* store, one step per statement that other requests can observe.          *)
(*                                                                         *)
(* Claim, Load and Reclaim are statements of their own and commit at once; *)
(* everything the owner of a key writes is one transaction, visible only   *)
(* at Commit.  The row lock of Complete's UPDATE is held until then.       *)
(* Requests may run in any number of server processes: nothing is shared   *)
(* but the tables.                                                         *)
(***************************************************************************)
EXTENDS Database

CONSTANTS
  Request,      \* requests, each a client that may send its request again
  Lease,        \* DUMMYPAY_IDEMPOTENCY_LEASE
  FaultsUntil   \* bound: no fault strikes after this time

ASSUME LeaseAssumption == Lease \in Nat \ {0}
ASSUME FaultsAssumption == FaultsUntil \in Int

VARIABLES
  stage,    \* the statement a request executes next
  ask,      \* what it asks: an account and key, and a body
  now,      \* the time it read first; its ownership token on the key
  seen,     \* the record Load returned
  target,   \* the subscription its transaction notifies
  result    \* what the client was told

requestVars == <<stage, ask, now, seen, target, result>>
vars == <<clock, tables, requestVars>>

Stage == {"idle", "claim", "load", "replay", "reclaim",
          "work", "complete", "commit", "done"}

NoResult == [status |-> 0, response |-> NoResponse]

Ask == [scope : Scope, body : Body]

Result == [status : {0, 201, 409, 422, 500}, response : Response]

TypeOK ==
  /\ TablesTypeOK
  /\ stage \in [Request -> Stage]
  /\ ask \in [Request -> Ask]
  /\ now \in [Request -> Nat]
  /\ seen \in [Request -> IdempotencyRow]
  /\ target \in [Request -> Nat]
  /\ result \in [Request -> Result]

-----------------------------------------------------------------------------

Row(r) == idempotency_keys[ask[r].scope]

(* Another transaction holds the lock on the key's row. *)
Locked(s) == \E q \in Request : stage[q] = "commit" /\ ask[q].scope = s

(* Variants: the lease is added; the cutoff is taken from the record. *)
CutoffAhead(r) == now[r] + Lease

CutoffOfRecord(r) == Row(r).claimed_at - Lease

(* An in-flight record claimed before this is taken to be abandoned. *)
Cutoff(r) == now[r] - Lease

At(r, st) == stage[r] = st

GoTo(r, st) == stage' = [stage EXCEPT ![r] = st]

Answer(r, status, response) ==
  /\ GoTo(r, "done")
  /\ result' = [result EXCEPT ![r] = [status |-> status, response |-> response]]

Init ==
  /\ TablesInit
  /\ stage = [r \in Request |-> "idle"]
  /\ ask \in [Request -> Ask]
  /\ now = [r \in Request |-> 0]
  /\ seen = [r \in Request |-> Absent]
  /\ target = [r \in Request |-> NoSubscription]
  /\ result = [r \in Request |-> NoResult]

(* A validated request enters Execute, which reads the clock once.  The    *)
(* client sends it again when it was told 409 or 500, or nothing at all.   *)
Arrive(r) ==
  /\ \/ At(r, "idle")
     \/ At(r, "done") /\ result[r].status \in {409, 500}
  /\ \E t \in Now : now' = [now EXCEPT ![r] = t]
  /\ GoTo(r, "claim")
  /\ result' = [result EXCEPT ![r] = NoResult]
  /\ seen' = [seen EXCEPT ![r] = Absent]
  /\ target' = [target EXCEPT ![r] = NoSubscription]
  /\ UNCHANGED <<clock, tables, ask>>

(* INSERT ... ON CONFLICT DO NOTHING. *)
WriteClaim(r) ==
  /\ Row(r).state = "ABSENT"
  /\ idempotency_keys' =
       [idempotency_keys EXCEPT ![ask[r].scope] =
          [state |-> "IN_FLIGHT", fingerprint |-> Fingerprint(ask[r].body),
           claimed_at |-> now[r], payment_id |-> NoPayment, response |-> NoResponse]]

Claim(r) ==
  /\ At(r, "claim")
  /\ WriteClaim(r)
  /\ GoTo(r, "work")
  /\ UNCHANGED <<clock, payments, webhook_subscriptions, webhook_deliveries,
                 outbox_work, ask, now, seen, target, result>>

ClaimConflicts(r) ==
  /\ At(r, "claim")
  /\ Row(r).state # "ABSENT"
  /\ GoTo(r, "load")
  /\ UNCHANGED <<clock, tables, ask, now, seen, target, result>>

(* Variant: whether the record is in flight is looked at before its body. *)
LoadLooksAtStateFirst(r) ==
  /\ At(r, "load")
  /\ seen' = [seen EXCEPT ![r] = Row(r)]
  /\ IF Row(r).state = "IN_FLIGHT"
     THEN IF Row(r).claimed_at < Cutoff(r)
          THEN GoTo(r, "reclaim") /\ UNCHANGED result
          ELSE Answer(r, 409, NoResponse)
     ELSE IF Row(r).fingerprint = Fingerprint(ask[r].body)
          THEN GoTo(r, "replay") /\ UNCHANGED result
          ELSE Answer(r, 422, NoResponse)
  /\ UNCHANGED <<clock, tables, ask, now, target>>

(* Load, and the branches Execute takes on what it returned. *)
Load(r) ==
  /\ At(r, "load")
  /\ seen' = [seen EXCEPT ![r] = Row(r)]
  /\ \/ /\ Row(r).fingerprint # Fingerprint(ask[r].body)
        /\ Answer(r, 422, NoResponse)
     \/ /\ Row(r).fingerprint = Fingerprint(ask[r].body)
        /\ Row(r).state = "COMPLETED"
        /\ GoTo(r, "replay") /\ UNCHANGED result
     \/ /\ Row(r).fingerprint = Fingerprint(ask[r].body)
        /\ Row(r).state = "IN_FLIGHT"
        /\ IF Row(r).claimed_at < Cutoff(r)
           THEN GoTo(r, "reclaim") /\ UNCHANGED result
           ELSE Answer(r, 409, NoResponse)
  /\ UNCHANGED <<clock, tables, ask, now, target>>

(* Variant: the payment is rendered anew. *)
ReplayRendersAnew(r) ==
  /\ At(r, "replay")
  /\ Answer(r, 201, Encode(seen[r].payment_id, payments[seen[r].payment_id]))
  /\ UNCHANGED <<clock, tables, ask, now, seen, target>>

(* The stored response goes out, once the payment it names is found. *)
Replay(r) ==
  /\ At(r, "replay")
  /\ IF seen[r].payment_id \in DOMAIN payments
     THEN Answer(r, 201, seen[r].response)
     ELSE Answer(r, 500, NoResponse)
  /\ UNCHANGED <<clock, tables, ask, now, seen, target>>

(* Variant: the UPDATE does not look at the state. *)
ReclaimableInAnyState(r) == Row(r).claimed_at < Cutoff(r)

(* UPDATE ... WHERE state = 'IN_FLIGHT' AND claimed_at < cutoff.  A row    *)
(* that matches but is locked makes the statement wait, then look again.   *)
Reclaimable(r) == Row(r).state = "IN_FLIGHT" /\ Row(r).claimed_at < Cutoff(r)

WriteReclaim(r) ==
  /\ Reclaimable(r)
  /\ ~Locked(ask[r].scope)
  /\ idempotency_keys' =
       [idempotency_keys EXCEPT ![ask[r].scope] = [@ EXCEPT !.claimed_at = now[r]]]

Reclaim(r) ==
  /\ At(r, "reclaim")
  /\ WriteReclaim(r)
  /\ GoTo(r, "work")
  /\ UNCHANGED <<clock, payments, webhook_subscriptions, webhook_deliveries,
                 outbox_work, ask, now, seen, target, result>>

ReclaimMatchesNothing(r) ==
  /\ At(r, "reclaim")
  /\ ~Reclaimable(r)
  /\ Answer(r, 409, NoResponse)
  /\ UNCHANGED <<clock, tables, ask, now, seen, target>>

(* The owner's transaction up to Complete.  Its inserts are private until  *)
(* Commit; what it reads is the active subscription of the account.        *)
Work(r) ==
  /\ At(r, "work")
  /\ \E sub \in SubscriptionToNotify(ask[r].scope[1],
                                     CreationStatus(ask[r].body.token)) :
       target' = [target EXCEPT ![r] = sub]
  /\ GoTo(r, "complete")
  /\ UNCHANGED <<clock, tables, ask, now, seen, result>>

(* Variants: Complete is conditional on the state only; on nothing. *)
OwnsKeyByState(r) == Row(r).state = "IN_FLIGHT"

OwnsKeyAlways(r) == TRUE

(* UPDATE ... WHERE state = 'IN_FLIGHT' AND claimed_at = the token. *)
OwnsKey(r) == Row(r).state = "IN_FLIGHT" /\ Row(r).claimed_at = now[r]

Complete(r) ==
  /\ At(r, "complete")
  /\ OwnsKey(r)
  /\ ~Locked(ask[r].scope)
  /\ GoTo(r, "commit")
  /\ UNCHANGED <<clock, tables, ask, now, seen, target, result>>

(* ErrIdempotencyOwnershipLost: the transaction rolls back. *)
OwnershipLost(r) ==
  /\ At(r, "complete")
  /\ ~OwnsKey(r)
  /\ Answer(r, 500, NoResponse)
  /\ UNCHANGED <<clock, tables, ask, now, seen, target>>

(* Variant: the response is dated when it is rendered. *)
CreatedResponseDatedLate(r) ==
  Encode(Len(payments) + 1, NewPayment(ask[r].scope, ask[r].body, clock))

(* The commit makes all writes of the transaction visible. *)
CreatedResponse(r) ==
  Encode(Len(payments) + 1, NewPayment(ask[r].scope, ask[r].body, now[r]))

WriteTransaction(r) ==
  /\ InsertPayment(ask[r].scope, ask[r].body, now[r], target[r])
  /\ idempotency_keys' =
       [idempotency_keys EXCEPT ![ask[r].scope] =
          [state |-> "COMPLETED", fingerprint |-> @.fingerprint,
           claimed_at |-> @.claimed_at, payment_id |-> Len(payments) + 1,
           response |-> CreatedResponse(r)]]
  /\ UNCHANGED webhook_subscriptions

Commit(r) ==
  /\ At(r, "commit")
  /\ WriteTransaction(r)
  /\ Answer(r, 201, CreatedResponse(r))
  /\ UNCHANGED <<clock, ask, now, seen, target>>

(***************************************************************************)
(* Faults.  A request can end at any point: its process crashes, its       *)
(* client disconnects (the context is the HTTP request's), a statement     *)
(* fails.  An open transaction rolls back.                                 *)
(***************************************************************************)
Abort(r) ==
  /\ clock =< FaultsUntil
  /\ stage[r] \notin {"idle", "done"}
  /\ Answer(r, 500, NoResponse)
  /\ UNCHANGED <<clock, tables, ask, now, seen, target>>

(* The server committed, but the request ended before it learnt so. *)
AbortAfter(r) ==
  /\ clock =< FaultsUntil
  /\ Answer(r, 500, NoResponse)
  /\ \/ /\ At(r, "claim") /\ WriteClaim(r)
        /\ UNCHANGED <<payments, webhook_subscriptions, webhook_deliveries,
                       outbox_work>>
     \/ /\ At(r, "reclaim") /\ WriteReclaim(r)
        /\ UNCHANGED <<payments, webhook_subscriptions, webhook_deliveries,
                       outbox_work>>
     \/ /\ At(r, "commit") /\ WriteTransaction(r)
  /\ UNCHANGED <<clock, ask, now, seen, target>>

Progress(r) ==
  \/ Claim(r) \/ ClaimConflicts(r) \/ Load(r) \/ Replay(r)
  \/ Reclaim(r) \/ ReclaimMatchesNothing(r)
  \/ Work(r) \/ Complete(r) \/ OwnershipLost(r) \/ Commit(r)

RequestNext(r) == Arrive(r) \/ Progress(r) \/ Abort(r) \/ AbortAfter(r)

Next ==
  \/ Tick /\ UNCHANGED <<tables, requestVars>>
  \/ \E r \in Request : RequestNext(r)

Spec == Init /\ [][Next]_vars

(***************************************************************************)
(* A running request goes on to its next statement, time passes, and a     *)
(* client keeps sending until it has an answer it can use.                 *)
(***************************************************************************)
Fairness ==
  /\ WF_vars(Tick /\ UNCHANGED <<tables, requestVars>>)
  /\ \A r \in Request : WF_vars(Arrive(r)) /\ WF_vars(Progress(r))

FairSpec == Spec /\ Fairness

-----------------------------------------------------------------------------
(* Properties. *)

(* At most one payment is ever created for an idempotency key of an        *)
(* account, whatever requests race, crash or outlive their lease, and      *)
(* whatever the clocks they read (spec 4.1, ADR-0007).                     *)
AtMostOnePayment ==
  \A i, j \in DOMAIN payments :
    payments[i].account = payments[j].account /\ payments[i].key = payments[j].key
      => i = j

(* A payment exists exactly when its key's record is COMPLETED and names   *)
(* it, with the response rendered at its creation and the fingerprint of   *)
(* the body it was created from: the owner's transaction is one.           *)
CompletedIffPayment ==
  \A s \in Scope :
    LET row == idempotency_keys[s]
        mine == {i \in DOMAIN payments :
                   payments[i].account = s[1] /\ payments[i].key = s[2]}
    IN  /\ mine # {} <=> row.state = "COMPLETED"
        /\ \A i \in mine :
             /\ row.payment_id = i
             /\ row.response = Encode(i, [payments[i] EXCEPT !.status = "PROCESSING"])
             /\ row.fingerprint = Fingerprint(payments[i].body)

(* Two requests that carry an ownership token for the same key carry       *)
(* different ones, although tokens are only readings of a wall clock: each *)
(* Reclaim moves claimed_at forward.  It is what lets Complete tell the    *)
(* present owner from one whose lease was taken over.                      *)
Holding(r) == stage[r] \in {"work", "complete", "commit"}

OwnersHaveOwnTokens ==
  \A r, q \in Request :
    Holding(r) /\ Holding(q) /\ ask[r].scope = ask[q].scope /\ now[r] = now[q]
      => r = q

(* Everyone who is told 201 for a key is told the same response, the       *)
(* recorded one, whoever created the payment and whatever happened to the  *)
(* payment since; and it is a payment for the body they sent.              *)
AnswersAgree ==
  \A r \in Request : result[r].status = 201 =>
    /\ result[r].response = Row(r).response
    /\ Row(r).fingerprint = Fingerprint(ask[r].body)
    /\ result[r].response.payment_id \in DOMAIN payments
    /\ payments[result[r].response.payment_id].body = ask[r].body

(* A record is written by claims in order of their tokens until it is      *)
(* completed, and never after; its fingerprint is the first claim's.       *)
RecordMovesForward ==
  [][\A s \in Scope :
       LET old == idempotency_keys[s]
           new == idempotency_keys'[s]
       IN  /\ old.state = "COMPLETED" => new = old
           /\ old.state = "IN_FLIGHT" =>
                /\ new.state # "ABSENT"
                /\ new.fingerprint = old.fingerprint
                /\ new.claimed_at # old.claimed_at => new.claimed_at > old.claimed_at + Lease
    ]_vars

(* The owner of a key loses it only to a later claim: a request whose      *)
(* Complete matches nothing finds a claim newer than its own, never its    *)
(* own claim completed by a request that had lost the key before.          *)
LosesOnlyToLaterClaim ==
  [][\A r \in Request :
       OwnershipLost(r) => Row(r).claimed_at > now[r]]_vars

(* Every client that keeps sending its request is answered in the end, by  *)
(* a payment or because it reused a key: a key whose owner died does not   *)
(* stay in flight for ever, and no two requests wait for each other.       *)
EveryoneAnswered ==
  \A r \in Request : [](stage[r] # "idle" => <>(result[r].status \in {201, 422}))

(* Spec 4.1 on two requests racing to reclaim a key: "one wins, the other  *)
(* re-reads".  The one that lost the race, because another moved the      *)
(* claim since it loaded the record, is not told 409 when the record it    *)
(* would re-read is COMPLETED.                                             *)
ReclaimLoserReReads ==
  [][\A r \in Request :
       /\ ReclaimMatchesNothing(r)
       /\ Row(r).claimed_at # seen[r].claimed_at
       /\ Row(r).state = "COMPLETED"
       => result'[r].status # 409]_vars

-----------------------------------------------------------------------------
(* What this implements: the records, the payments and the answers, with   *)
(* everything about who owns a key, since when and until when left out.    *)
Promise ==
  INSTANCE IdempotentCreate WITH
    Digest  <- {Fingerprint(b) : b \in Body},
    Unbound <- <<>>,
    None    <- NoResponse,
    asked   <- [r \in Request |-> [scope |-> ask[r].scope,
                                   print |-> Fingerprint(ask[r].body)]],
    bound   <- [s \in Scope |-> idempotency_keys[s].fingerprint],
    made    <- {<<<<payments[i].account, payments[i].key>>, i>> : i \in DOMAIN payments},
    answer  <- [s \in Scope |-> idempotency_keys[s].response],
    told    <- result

(* The create path keeps the promise of IdempotentCreate: behind leases,   *)
(* takeovers, lost commits and retries, each key sees one body bound, one  *)
(* payment made, one answer repeated.                                      *)
KeepsPromise == Promise!Spec
=============================================================================
