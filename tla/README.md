# A TLA+ model of dummy-pay

dummy-pay is a simulated payment provider: an HTTP API over PostgreSQL, and a
background worker that settles payments and delivers webhooks. This directory
holds TLA+ modules translated from its Go code and SQL, TLC configurations that
check them on small instances, and machine-checked proofs of every safety and
action property those configurations check.
`PROJECT.json` lists the runs, maps every definition to the lines it models and
names the hazards the properties are for.

## The system

| component | state it keeps | operations | interacts with |
|---|---|---|---|
| create payment (`payment/create_payment.go`, its handler) | none between requests; a request holds the time it read, which is its ownership token | `Execute` | idempotency store, repositories, outbox, subscriptions, all through the database |
| idempotency store (`postgres/idempotency.go`) | `idempotency_keys` | `Claim`, `Load`, `Reclaim`, `Complete` | its rows arbitrate races between requests of any number of processes |
| transactions (`postgres/tx.go`) | the open transaction in the context | `Within` | every repository runs in it through `querier` |
| repositories, outbox writer (`postgres/*.go`) | `payments`, `webhook_subscriptions`, `webhook_deliveries`, `outbox_work` | one statement each | |
| worker and ticker (`payment/worker.go`, `cmd/dummypay`) | the batch in hand | `ProcessBatch`: claim, `settlePayment`, `deliverWebhook` | outbox, payments, deliveries, the receiver |
| webhook sender (`webhook/sender.go`) | none | `Send` | the subscriber's server |
| retry (`payment/retry_delivery.go`) | none | `Execute` | deliveries and outbox, racing with workers |
| subscriptions (`payment/create_subscription.go`) | none | `Execute` | one active row per account, by a unique index |
| domain rules (`payment/payment.go`, `events.go`, `fingerprint.go`, `valueobjects.go`) | none | `Settle`, `EventTypeForStatus`, `Fingerprint`, ... | |
| configuration (`config/config.go`) | what it loaded at startup | `Load` | every other part takes it for granted |
| router, authentication, validation, identifier prefixes (`http`, `idcodec`) | none | a check of each request in front of its use case | the account the process seeded |
| payload, signature, secret encryption (`webhook/*.go`) | none | `BuildPayload`, `Sign`, `EncryptSecret`, `DecryptSecret` | the configured key, the subscription's row |
| startup (`cmd/dummypay`, `postgres/migrate.go`, `postgres/account.go`) | `schema`, `accounts` | migrate, `SeedAccount` | other processes that start on the same database |

Components call each other directly inside one process; between processes, and
between a request and the worker, there is only the database. What is hard:

* **Claims with a lease.** `Claim` commits on its own, before the transaction
  that does the work. An owner may die, or only be slow and lose its key to a
  `Reclaim` while its transaction is open. Ownership is a wall-clock reading.
* **Work marked DONE before it is done.** The outbox claim commits before the
  rows are processed; a crash, or a failing item earlier in the batch, leaves
  rows nobody takes again.
* **Reads before writes.** A retry checks the status outside its transaction;
  a replay reads the record and the payment apart; a create request reads the
  subscription before it commits.
* **POST before record.** A delivery is sent, then counted.
* **Commits nobody learnt of**, clients that send again, clocks that disagree.
* **Startup of several processes.** Migrations run without a lock between
  processes; a process that crashed halfway, or one with another environment,
  starts over what the others left.

What makes each component correct: one payment and one answer per key (create
path); everything of a transaction or nothing (transactions); a work row in one
hand only, settled once, announced once (worker); attempts asked for and counted
(deliveries); something always left to do for what is unfinished (outbox); nobody
serves before the schema is there, for another account than its key's, or with
settings the rest cannot work with (startup); nothing is done but for a caller
with the account's credentials, and every webhook can be verified (HTTP, webhooks).

## The modules

| module | models | correspondence |
|---|---|---|
| `Domain` | rules of `internal/payment` | operators of the same names |
| `Database` | tables, clock, what statements write | a variable per table; an id is an index in commit order; `InsertPayment` is what a create transaction commits |
| `CreatePayment` | `Execute` with the idempotency store | `stage[r]` is the next statement of request r; `now[r]` the time it read; one action per statement another request can observe |
| `Worker` | `ProcessBatch` and the claimer | `wstage[w]`, the batch, the item in hand; one action per statement and one for the POST |
| `RetryDelivery`, `CreateSubscription` | the two other endpoints | load and transaction are two steps; the subscription's INSERT is one |
| `AfterCreation` | Worker, RetryDelivery and CreateSubscription together | the properties of what follows a creation, however it came about |
| `Pipeline` | AfterCreation over one database | a create request is one that owns its key: it reads the clock, then the subscription inside its transaction (`Work`), then commits |
| `DummyPay` | the create path beside workers, retries and subscriptions | CreatePayment by `INSTANCE`, beside AfterCreation: how a request comes to own its key, and loses it |
| `IdempotentCreate` | what the create path promises | abstract: a key is bound to a fingerprint, has at most one payment and one answer. `CreatePayment!Promise` is its instance under the refinement mapping |
| `WorkQueue` | what the outbox promises | abstract: work is taken once, by one worker, and never goes back. `AfterCreation!Queue` is its instance under the refinement mapping |
| `Config` | `config.Load` | a check for each kind of variable, under the code's names; `Loads`, `ConfigOf` |
| `HttpApi` | checks in front of the use cases | the status each answers; `DecodeID`, `basicAuth` |
| `Service` | the processes of `cmd/dummypay`: startup, crashes, the three endpoints, deliveries | `pstage[p]` is how far p's startup is; `config[p]`, `version[p]`, `accountID[p]` what it knows |
| `CreatePayment_proofs`, `IdempotentCreate_proofs` | theorems about CreatePayment | `Database_proofs` holds lemmas all of these share |
| `AfterCreation_proofs` | the invariants of what follows a creation and the lemma that each action keeps them | for both specifications below |
| `Pipeline_proofs`, `Posts_proofs`, `DummyPay_proofs`, `Service_proofs` | theorems about Pipeline (`Posts_proofs` has those that count or ask what is left to do), DummyPay, Service | |
| `MCCreatePayment`, `MCPipeline`, `MCDummyPay`, `MCService` | values for TLC | |

How the code's control becomes actions:

* `Claim`, `Load`, `Reclaim` run on the pool and commit at once: one action
  each, plus one for each outcome. Inside `Within`, inserts are invisible until
  the commit, so `Work` only reads the subscription and `WriteTransaction` makes
  everything visible in `Commit`. `Complete` locks the key's row until then
  (`Locked`): a `Reclaim` or `Complete` whose condition holds waits for it and
  then looks again.
* `Abort` ends a request at any statement (process crash, client gone and its
  context cancelled, failed statement); `AbortAfter` is a commit that succeeded
  and was not learnt of. `Arrive` is the first request and every repetition: a
  client told 409 or 500, or nothing, sends the same request again.
* The outbox claim locks its rows (`ClaimDue`) and commits (`ClaimCommits`) in
  two steps, so that `SKIP LOCKED` is exercised. A settlement is load, update
  (which locks the payment's row) and commit. A delivery is load, POST, record.
  `WorkerFails` and `WorkerFailsAfter` are the two faults again; both end the
  batch, as an item's error does, and the ticker goes on.
* `Service` looks at what lies around the use cases, and takes a use case as one
  step; how its statements interleave is the business of the other modules. A
  process lists the applied migrations once and then applies the rest, each in a
  transaction of its own: goose is built without a session lock, so a process
  that finds a migration applied which it meant to apply exits with an error
  (`Migrate`). `SeedAccount` is one upsert. A request that is refused changes
  nothing and is not a step. A process started with an environment that does not
  load exits before it did anything, and is not a step either.

Abstractions. Time is in microseconds, the unit of the columns; `Now` may be off
by `Skew` either way, for each reading separately, so clocks may even run
backwards. That `Execute` compares nanoseconds where the statement compares
microseconds can only make `Reclaim` refuse. SHA-256 is injective, UUIDs are
fresh. A body is its scenario token and everything else (`reference`); response
bytes are the payment, status and time they render; a payload is the status it
renders. Columns never read back are left out. `payments[i].key`,
`webhook_subscriptions[i].since` (how many payments came before), `sends` (each
POST with its reply, its work row and the time its batch read) and Pipeline's
`began`, `heard` and `made` (the true time at which a create request read the
clock, the subscriptions there were when it looked, the payment it made) are
history the properties read and no action does. An operator commented "Variant" before another is the same
operator with a plausible mistake in it; no action uses it, the mutants do.
In `Service` a secret sealed under one key does not open under another and no
two generated secrets are equal; `by`, `told`, `posts` and `retries` are history.
A variable of the environment is whether it is given, whether it parses, its size
and its value; its time unit is the millisecond.

The refinement. In `CreatePayment!Promise` a key is bound to the fingerprint of
its record, the payments made are the rows of `payments`, a key's answer is the
response of its COMPLETED record, and a request was told what its last attempt
was answered. Leases, takeovers, locks and stages have no image: a claim binds, a
commit makes, everything else is a repetition, a refusal or a stutter. In
`AfterCreation!Queue` the work asked for is the length of `outbox_work`, what waits
is the rows PENDING, and a worker has in its hand what its claim took, once that
claim is committed: due times, kinds, row locks and open claims have no image.

## Bounds

| bound | where | why it is enough |
|---|---|---|
| `MaxTime` 1 to 3 | everywhere | with `Lease` 1 and the strict comparison, a claim can be taken over at 2 and that claim's owner again with skewed clocks at 3; the processing delay is 0 or 1, in pipe_clocks 3 |
| `Skew` 0 or 1 | create_race, pipe_clocks | in create_race a lease of 1 and a clock wrong by as much; in pipe_clocks a delay of 3, so that twice the skew does not swallow it and a settlement may not come in the instant of its request |
| 3 requests, 1 key, 2 bodies | create_race | an owner, one who takes over, one who takes over from that or replays; keys do not interact (they share only the append order), and the proofs cover any number |
| 2 workers, 1 payment, 1 retry | pipe_race, pipe_calm | a settlement, two deliveries and a retried one: up to four rows, three of them due at once, claimed in one batch or several, by one worker or two |
| 1 create request | Pipeline | payments share nothing but batches; a batch already holds a settlement and deliveries |
| `BatchSize` 1 or 2 | Worker | more rows due than fit in a batch occur, in pipe_clocks as soon as there are two |
| 2 processes, `MaxCrashes` 2, 1 payment | service_start | one process stops halfway through the migrations, or ends, and comes back with another of 8 environments, 3 of which load, beside one that serves; a payment, a subscription and its deliveries are enough for a process with another encryption key to take over work |
| `FaultsUntil` | everywhere | faults stop after this time; equal to `MaxTime` it is no bound on safety. `Never` (-1) means no fault at all |

`CHECK_DEADLOCK FALSE`: time ends at `MaxTime`, every request may be answered and
no work left; a model that stops there is a service at rest.

## Runs

| run | instance | shows |
|---|---|---|
| create_race | 3 requests, 2 bodies, skew 1, faults always | `AtMostOnePayment`, `CompletedIffPayment`, `OwnersHaveOwnTokens`, `AnswersAgree`, `RecordMovesForward`, `LosesOnlyToLaterClaim`; `KeepsPromise`: the create path implements `IdempotentCreate` |
| create_live | 2 requests, fair, faults until 1 | `EveryoneAnswered`: a key whose owner died is taken over |
| pipe_race | 2 workers, 1 retry, all events, faults always | `RowInOneHand`, `SettledOnce`, `OneDeliveryPerEvent`, `PostsAreAskedFor`, `OutcomeIsOfAPost`; `HandsOutOnce`: the outbox implements `WorkQueue` |
| pipe_clocks | 1 worker, 1 retry, delay 3, skew 1, batches of one row, fair, faults until 2 | `NothingEarly`: in true time, less the skew, and POST by POST; `EventsAnnounced`: also where a subscription is committed between a request's read and its commit; `EveryRowTaken`: after errors and full batches, every row is claimed in the end |
| pipe_calm | 2 workers, 1 retry, all events, batches of two rows, fair, no worker fault | `AttemptsCounted`, `NothingStranded`, `ProcessingEnds`, `DeliveriesConclude` |
| whole_safe | 2 requests, 1 worker, a subscription, faults always | `OnePaymentOneAnswer`, `CommittedTogether`, `TerminalEventAnnounced`; `PromiseKept`: beside workers, clients still see `IdempotentCreate` |
| whole_live | 2 requests, 1 worker, 1 retry, fair, no fault | `RequestedIsSettled` |
| service_start | 2 processes, 2 crashes, good and bad environments, headers, bodies and identifiers | `SameKeySameAccount`, `ServesAMigratedSchema`, `RunsWithinAssumptions`, `SomebodyServes` (startup); `ActsForItsCaller`, `OwnersGetIn` (requests); `SubscriberCanVerify` (webhooks) |

Four runs show where the repository's words and its code part; each checks the
words and TLC finds a behaviour that breaks them.

| run | words | what happens |
|---|---|---|
| create_reread | spec-v1 4.1: of two requests racing to reclaim "one wins, the other re-reads" | the loser is told 409 without a re-read, even when the key is COMPLETED by then. Sending again gets the answer (`EveryoneAnswered`) |
| find_settlement_lost | README: `PROCESSING` "sempre termina"; pending work "sobrevive a reinicializações" | a worker dies after its claim committed: the row is DONE, the payment PROCESSING for ever |
| find_attempt_uncounted | README: `attempt_count` is the number of attempts made; spec-v1 5 counts before the POST | a worker fails after the POST: made, not counted |
| find_sent_retried | comment of `RetryDeliveryUseCase.Execute`, spec-v1 4.3: a SENT delivery is not retried | the worker records SENT between the retry's read and its transaction: SENT goes back to PENDING and is POSTed again |

`ProcessingEnds` and `AttemptsCounted` hold in pipe_calm and fail with worker
faults: the pair says that faults of the worker, and nothing else, lose work.
`EveryRowTaken` is what is left with faults: a row is claimed in the end, though
what it asked for may be lost with the batch it is in.
`EventsAnnounced` says exactly which event may be missing. A subscription whose
INSERT commits after a create request has read the active subscription, and before
that request commits, is older than the payment and gets no `payment.processing` for
it; of the settlement it is told, because the worker reads the subscription anew.
`SomebodyServes` is about behaviours without a crash: two processes that race to
migrate do not both give up. `RunsWithinAssumptions` is the link to the other
modules: a delay that is not negative and a positive lease, which they assume, is
what `config.Load` lets through.

Three more divergences concern the wording of answers, which no module has, and
are only noted here: a validation failure is answered 422 with the error code
`invalid_request`, which spec-v1 7 reserves for 400; a 500 carries the text of the
internal error; `created_at` is written with a literal `Z` without being converted
to UTC.

## Fairness

Weak fairness of `Progress(r)`: a request in a running process goes on to its
next statement. Weak fairness of `Arrive(r)`: the client's part, a client that
keeps sending until it has an answer it can use; the liveness properties are
about such clients only. Weak fairness of `Working(w)`: the ticker calls
`ProcessBatch` again whatever it returned, and inside a batch statements follow
one another. Weak fairness of time. Workers are the ticker of any process, so a
crashed one is one that starts again with an empty batch. No fairness is asked
of faults, subscriptions or retry requests. In `Service`, a process that was
started goes on with its startup; nobody has to start one, and nothing is asked
of requests and workers. In create_live faults stop early
enough for a lease taken before the last fault to run out within `MaxTime`; in
pipe_clocks they stop before time ends, and no fairness is asked of create requests:
one that stops has enqueued nothing. A claim that finds nothing due changes nothing
and is not a step, so fairness of a worker also says that its clock reaches a row's
due time in the end, off as it may be.

## Proofs

TLAPS proves, for every set of accounts, keys, bodies, requests, workers,
processes and environments, every lease, skew, delay, batch size and bound:

| theorem | of | states |
|---|---|---|
| `TypeCorrect` | `CreatePayment_proofs` | `Spec => []TypeOK` |
| `OnePaymentPerKey` | | `Spec => []AtMostOnePayment` |
| `TokensDiffer` | | `Spec => []OwnersHaveOwnTokens` |
| `LostToALaterClaim` | | `Spec => LosesOnlyToLaterClaim` |
| `RecordsMoveForward` | | `Spec => RecordMovesForward` |
| `CompletedExactly` | `IdempotentCreate_proofs` | `Spec => []CompletedIffPayment` |
| `EveryAnswerAgrees` | | `Spec => []AnswersAgree` |
| `KeepsItsPromise` | | `Spec => KeepsPromise`, the refinement |
| `TypeCorrect` | `Pipeline_proofs` | `Spec => []TypeOK` |
| `RowsHeldOnce` | | `Spec => []RowInOneHand` |
| `EventsAnnouncedOnce` | | `Spec => []OneDeliveryPerEvent` |
| `SettlesOnce` | | `Spec => SettledOnce` |
| `OutcomesAreOfPosts` | | `Spec => []OutcomeIsOfAPost` |
| `NothingHappensEarly` | | `Spec => []NothingEarly` |
| `EveryEventAnnounced` | | `Spec => []EventsAnnounced` |
| `EveryPostAskedFor` | `Posts_proofs` | `Spec => []PostsAreAskedFor` |
| `EveryPostCounted` | | without worker faults, `Spec => []AttemptsCounted` |
| `NothingIsStranded` | | without worker faults, `Spec => []NothingStranded` |
| `OutboxIsAQueue` | | `Spec => HandsOutOnce`, the refinement |
| `OnePaymentOneAnswerHolds` | `DummyPay_proofs` | `Spec => []OnePaymentOneAnswer` |
| `CommittedTogetherHolds` | | `Spec => []CommittedTogether` |
| `TerminalEventsAnnounced` | | `Spec => []TerminalEventAnnounced` |
| `PromiseStaysKept` | | `Spec => PromiseKept`, the refinement in the whole system |
| `OneAccountPerKey` | `Service_proofs` | `Spec => []SameKeySameAccount` |
| `OnlyOwnersAct` | | `Spec => []ActsForItsCaller` |
| `EveryPostVerifies` | | `Spec => []SubscriberCanVerify` |
| `SchemaIsMigrated` | | `Spec => []ServesAMigratedSchema` |
| `LoadGuardsEveryUse` | | `Spec => []RunsWithinAssumptions` |
| `OwnersAreAdmitted` | | `Spec => []OwnersGetIn` |

The assumptions are those of the modules. Scenario tokens come from the closed set,
the delay and the skew are naturals, the lease and the batch size positive (what
`config.Load` lets through, which `LoadGuardsEveryUse` states), and clients
subscribe to non-empty sets of event types. Of an environment `Service` assumes
that its texts are strings and its durations and sizes integers, of a request the
same of its headers and identifiers (`EnvAssumption`,
`RequestAssumption`); nothing is assumed to be valid.

`EveryPostCounted` and `NothingIsStranded` have the hypothesis `FaultsUntil < 0`:
no worker fails, though requests, retries and clocks do as they like. It is the
setting of pipe_calm, and needed: with faults find_attempt_uncounted and
find_settlement_lost refute the same properties.

**One payment per key.** `AtMostOnePayment` is not inductive: nothing in it keeps
two requests from passing `Complete` for one key. The invariant that is, `IInv`,
has three parts. `TokensAreCurrent`: a request that holds a token finds its key's
record claimed no earlier than the token; if it is the token's own claim the
record is still in flight; past `Complete` it is the token's own.
`OwnersHaveOwnTokens`: no two requests hold the same token of a key.
`PaymentsAreRecorded`: each payment is the one its key's COMPLETED record names. A
claim finds no record, hence no holder and no payment. A reclaim's token is newer
than the record's, by more than the lease, hence newer than every token held; and
no transaction is past `Complete`, which would have the row locked. A commit
leaves every other holder with an older token than the record's. All other steps
write neither table and make nobody a holder.

**The promise.** The answers and the refinement need more of the record: what a
request is answered is what its key's record says, a record is COMPLETED exactly
when its key has a payment, and what a holder is about to write carries the
fingerprint the key is bound to. With `IInv` this is inductive, and makes every
step of the create path a step of `IdempotentCreate` or a stutter.

**Work and settlement.** `SettledOnce` and `OneDeliveryPerEvent` rest on a chain
that `AfterCreation_proofs` has as its invariant (also called `IInv`), for Pipeline
and DummyPay alike. Tables: work and
deliveries name rows that exist, a payment has one settlement row ever, a
delivery of a terminal event has a terminal payment, a settlement is due the
delay after its payment was made, and a settled payment is dated no earlier. Worker: its registers fit its stage (`InStep`):
rows it holds are PENDING while its claim is open and DONE from then on, all due
by the time it read; a payment loaded for settling is still that payment, and
PROCESSING; an outcome about to be recorded has its POST. Between the two,
`RowInOneHand`: a claim skips rows in an open claim and rows that are DONE, so two
workers never settle one payment, and the second one's `loaded` cannot go stale.
The proof first shows that every step lets the tables only grow (`TablesGrow`,
`OutcomesKept`), then that a step leaves the other workers as they were
(`Undisturbed`), then that the one that moves keeps in step.

**Nothing early.** `NothingEarly` speaks of true time, which no row holds.
`Pipeline_proofs` has the invariant `PipelineInv`: `IInv`, `CInv` below, and of the
create requests their types, what they chose (`RequestsFit`) and what they read of
the clock (`TimesFit`). A request's reading, which is its payment's `created_at`, is
at least the true time it began at less `Skew`; the settlement's row is due the delay
after that; a worker takes it only if it is due by the time it read, which it dates
the payment with, and no date on a payment is ever later than the true time and
`Skew`. Hence the two skews in the property. A POST carries the row and the time of
its batch, and `InStep` has the rows of a batch due by that time.

**Announcements.** `EventsAnnounced` needs more facts beside `IInv` (`CInv`). A worker
chooses whom to notify (`wtarget`) one step before it commits; `TargetsFit` says
that the choice is still the right one then, for every subscription older than the
payment. It is, because an account never gets a second subscription
(`OneSubscription`, the partial unique index) and because one that came in between
is younger than the payment. A create request chooses one step before its commit too,
but there a subscription that comes in between is older than the payment: its choice
is right only among the subscriptions it found (`ChosenAsFound`), which is what
`ToHear` says. That no event is announced which the subscription
does not list is `TargetsListed` and `DeliveriesFit`. The proof follows what one
subscription was told of one payment (`Told`): a commit adds the event of its status
to it (`ToldOneMore`), everything else leaves it (`StaysTold`).

**Counting POSTs.** A row that asked for an attempt is spent once it is DONE and no
worker will POST for it any more. `PInv` says that a delivery has at least as many
spent rows as POSTs, and at least as many POSTs as attempts recorded or about to be.
A POST takes the row in its worker's hand from the rows still to be POSTed for to
the spent ones; it matters that the row has left the batch (`ItemApart`) and that
nobody else holds it (`RowInOneHand`). A fault can only spend rows without a POST
and leave POSTs unrecorded, which is why the counts are bounds with faults and
`AttemptsCounted`, an equation, is inductive beside `PInv` without.

**Nothing stranded.** Without faults a row that waits goes on waiting, PENDING or in
a hand, until what it is for is finished (`DropsNothing`), and whatever becomes
PROCESSING or PENDING gets a row in the same step (`PaymentsAwaited`,
`DeliveriesAwaited`). The property is inductive beside `IInv`.

**The outbox as a queue.** Creations and retries only append PENDING rows
(`OnlyAsks`); the commit of a claim is the moment its batch is taken, because the
rows of an open claim are still PENDING (`InStep`) and in no other open claim
(`RowInOneHand`, through `IInv`); the item a worker ends was in its hand and is not
in the rest of its batch (`ItemApart`); a claim that commits unknown to its worker
is a batch taken and lost.

**The whole system.** The invariant `DInv` of `DummyPay_proofs` is the two halves,
the create path's (`CreateInv`: its types, `IInv` and what the promise needs) and
`AfterCreation_proofs`' `IInv` and `CInv`, with what a request has chosen to notify
(`TargetsTold`). A step of one half either leaves the other's variables alone or
changes them in a way its invariant survives (`Beyond`): a settlement changes a
payment's status and time and neither its account, its key, its body nor its
creation; a create transaction only adds rows. So `PromiseKept` holds because each
step of the workers is a stutter of `IdempotentCreate`.

**Startup and requests.** `SInv` of `Service_proofs`: accounts are only appended, one
per key id; a process past its seeding has the account of its configuration, a
configuration that `Load` accepted and at least the schema it migrated to; rows
refer to rows that exist, and rows once there stay as they are; every payment,
subscription and retry was made by a header that holds what some environment
configured for its account; a stored secret opens, under the key that sealed it, to
the secret its subscriber was told. Each of these is needed because a request in
one process meets rows that another process, with another environment and perhaps
gone by now, has written. `OwnersAreAdmitted` is about `basicAuth`'s cut: the first
colon of a header is the one after the key id when the key id has none.

Each invariant was checked by TLC on a small instance before it was proved.

Only model-checked are the liveness properties, `EveryoneAnswered`,
`ProcessingEnds`, `EveryRowTaken`, `DeliveriesConclude`, `RequestedIsSettled` and
`SomebodyServes`:
liveness under fairness, and ENABLED with it, is out of the prover's reach.

## Not modelled

* The CHECK constraints of the tables: they allow the values the code writes, and no
  statement of the code violates one.
* The bytes of responses, error bodies and payloads, and the validation of
  `reference_id`, which has no values the properties tell apart. `/health`, the
  request logger and the router's own answers to unknown routes change no state.
* HMAC, AES-GCM, SHA-256 and base64 themselves: taken to do what they are for.
* The router for tests, whose handlers without a use case answer 501.
* goose beyond what `Migrate` asks of it (`Service.Migrate` is its behaviour
  without a lock); which tables a migration creates.
* The connection pool: `Within` holds one connection and every statement inside
  uses it, so no request waits for a connection while holding another.
* Receivers of webhooks beyond their status code, redirects included.

Hazards that no property covers, listed with the others in `PROJECT.json`: a key id
with a colon (config.Load lets it through and nobody can log in), the response with
a subscription's secret lost on its way (no endpoint tells it again), `created_at`
of a process whose zone is not UTC, and the nanoseconds `Execute` compares where the
statement compares microseconds.

## Plan

Done: all of the above. What could follow, in this order:

1. `HandsOutOnce` and the theorems of `Posts_proofs` for DummyPay too: they rest on
   `IInv`, `CreationAsks` and the lemmas about workers and retries, none of which
   is about how a payment comes to be.
2. `AtMostOnePayment` from `KeepsPromise`: `IdempotentCreate` promises it already.
3. Faults of requests only in whole_live; two accounts in a Pipeline run.
