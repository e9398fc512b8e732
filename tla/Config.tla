-------------------------------- MODULE Config --------------------------------
(***************************************************************************)
(* Package config: from environment variables to a validated Config, which *)
(* a process reads once when it starts.  Nothing here has state.           *)
(*                                                                         *)
(* A variable is a record: whether it is given and not empty, whether it   *)
(* parses as what it must be, its size (characters of the secret, bytes of *)
(* the decoded key, milliseconds of a duration) and its value.             *)
(***************************************************************************)
EXTENDS Integers, Sequences

Unset == [given |-> FALSE, wellFormed |-> FALSE, size |-> 0, value |-> <<>>]

Malformed == [Unset EXCEPT !.given = TRUE]

Given(size, value) ==
  [given |-> TRUE, wellFormed |-> TRUE, size |-> size, value |-> value]

defaultProcessingDelay == 3000
defaultIdempotencyLease == 30000
defaultWorkerPollInterval == 250
defaultWebhookTimeout == 5000

requiredNonEmpty(v) == v.given

requiredMinLength(v, min) == requiredNonEmpty(v) /\ v.size >= min

requiredPostgresDSN(v) == requiredNonEmpty(v) /\ v.wellFormed

requiredBase64Bytes(v, length) ==
  requiredNonEmpty(v) /\ v.wellFormed /\ v.size = length

optionalListenAddr(v) == v.given => v.wellFormed

(* Variant: zero is let through for every duration. *)
optionalDurationZero(v, allowZero) == v.given => v.wellFormed /\ v.size >= 0

optionalDuration(v, allowZero) ==
  v.given => v.wellFormed /\ (v.size > 0 \/ (v.size = 0 /\ allowZero))

(* Load succeeds: every variable passes its check.  The first one that     *)
(* does not is only named in the message the process exits with.           *)
Loads(env) ==
  /\ optionalListenAddr(env.HTTP_ADDR)
  /\ requiredPostgresDSN(env.DATABASE_URL)
  /\ requiredNonEmpty(env.ACCOUNT_KEY_ID)
  /\ requiredMinLength(env.ACCOUNT_KEY_SECRET, 16)
  /\ requiredBase64Bytes(env.WEBHOOK_SECRET_ENC_KEY, 32)
  /\ optionalDuration(env.PROCESSING_DELAY, TRUE)
  /\ optionalDuration(env.IDEMPOTENCY_LEASE, FALSE)
  /\ optionalDuration(env.WORKER_POLL_INTERVAL, FALSE)
  /\ optionalDuration(env.WEBHOOK_TIMEOUT, FALSE)

OrDefault(v, default) == IF v.given THEN v.size ELSE default

(* What Load returns. *)
ConfigOf(env) ==
  [AccountKeyID        |-> env.ACCOUNT_KEY_ID.value,
   AccountKeySecret    |-> env.ACCOUNT_KEY_SECRET.value,
   WebhookSecretEncKey |-> [bytes |-> env.WEBHOOK_SECRET_ENC_KEY.value,
                            length |-> env.WEBHOOK_SECRET_ENC_KEY.size],
   ProcessingDelay     |-> OrDefault(env.PROCESSING_DELAY, defaultProcessingDelay),
   IdempotencyLease    |-> OrDefault(env.IDEMPOTENCY_LEASE, defaultIdempotencyLease),
   WorkerPollInterval  |-> OrDefault(env.WORKER_POLL_INTERVAL, defaultWorkerPollInterval),
   WebhookTimeout      |-> OrDefault(env.WEBHOOK_TIMEOUT, defaultWebhookTimeout)]
=============================================================================
