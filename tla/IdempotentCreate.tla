--------------------------- MODULE IdempotentCreate ---------------------------
(***************************************************************************)
(* What POST /v1/payments promises its clients (the comments of the        *)
(* interface payment.IdempotencyStore and of Execute), without saying how: *)
(* no stages, clocks, leases, locks or transactions.                       *)
(*                                                                         *)
(* An idempotency key of an account is bound to the first body that claims *)
(* it, for ever.  At most one payment is made for it, with one response.   *)
(* A request is told that response, or that its body is not the key's, or  *)
(* to come back; and nothing it is told depends on who made the payment.   *)
(***************************************************************************)
CONSTANTS
  Request,    \* requests
  Scope,      \* scopes: an account and a key
  Digest,     \* fingerprints of bodies
  Response,   \* responses, each naming a payment by its payment_id
  Unbound,    \* instead of a fingerprint: no body claimed the key
  None        \* instead of a response

VARIABLES
  asked,    \* what each request asks: a scope and a fingerprint
  bound,    \* the fingerprint each scope is bound to
  made,     \* the payments made: pairs of a scope and a payment's id
  answer,   \* the response of each scope
  told      \* what each request was told: a status and a response

vars == <<asked, bound, made, answer, told>>

Silence == [status |-> 0, response |-> None]

Tell(r, status, response) ==
  told' = [told EXCEPT ![r] = [status |-> status, response |-> response]]

Init ==
  /\ asked \in [Request -> [scope : Scope, print : Digest]]
  /\ bound = [s \in Scope |-> Unbound]
  /\ made = {}
  /\ answer = [s \in Scope |-> None]
  /\ told = [r \in Request |-> Silence]

(* A client told to come back does. *)
AskAgain(r) ==
  /\ told[r].status \in {409, 500}
  /\ told' = [told EXCEPT ![r] = Silence]
  /\ UNCHANGED <<asked, bound, made, answer>>

(* The first body binds the key; its request may end without knowing. *)
Bind(r) ==
  /\ told[r] = Silence
  /\ bound[asked[r].scope] = Unbound
  /\ bound' = [bound EXCEPT ![asked[r].scope] = asked[r].print]
  /\ UNCHANGED told \/ Tell(r, 500, None)
  /\ UNCHANGED <<asked, made, answer>>

(* One payment for the scope, with an id no payment has, and the response  *)
(* that names it; its request may end without knowing.                     *)
Make(r) ==
  LET s == asked[r].scope
      id == answer'[s].payment_id
  IN  /\ told[r] = Silence
      /\ bound[s] = asked[r].print
      /\ answer[s] = None
      /\ answer'[s] \in Response \ {None}
      /\ answer' = [answer EXCEPT ![s] = answer'[s]]
      /\ \A m \in made : m[1] # s /\ m[2] # id
      /\ made' = made \cup {<<s, id>>}
      /\ Tell(r, 201, answer'[s]) \/ Tell(r, 500, None)
      /\ UNCHANGED <<asked, bound>>

Repeat(r) ==
  /\ told[r] = Silence
  /\ bound[asked[r].scope] = asked[r].print
  /\ answer[asked[r].scope] # None
  /\ Tell(r, 201, answer[asked[r].scope])
  /\ UNCHANGED <<asked, bound, made, answer>>

Refuse(r) ==
  /\ told[r] = Silence
  /\ bound[asked[r].scope] \notin {Unbound, asked[r].print}
  /\ Tell(r, 422, None)
  /\ UNCHANGED <<asked, bound, made, answer>>

(* A conflict is told only of a key that this same body has claimed. *)
ComeBack(r) ==
  /\ told[r] = Silence
  /\ \/ Tell(r, 500, None)
     \/ bound[asked[r].scope] = asked[r].print /\ Tell(r, 409, None)
  /\ UNCHANGED <<asked, bound, made, answer>>

Next ==
  \E r \in Request :
    AskAgain(r) \/ Bind(r) \/ Make(r) \/ Repeat(r) \/ Refuse(r) \/ ComeBack(r)

Spec == Init /\ [][Next]_vars
=============================================================================
