---------------------------- MODULE Service_proofs ----------------------------
(***************************************************************************)
(* Theorems about Service: what the processes promise their callers, for   *)
(* every set of processes, environments and requests.                      *)
(***************************************************************************)
EXTENDS Service, TLAPS, SequenceTheorems, WellFoundedInduction

(* What a header says: words and colons. *)
Word == STRING \cup {":"}

LEMMA MinExists ==
  ASSUME NEW I, I \subseteq Nat, I # {}
  PROVE  Min(I) \in I /\ \A i \in I : Min(I) =< i
<1>1. PICK m \in I : \A i \in I : ~ (<<i, m>> \in OpToRel(<, Nat))
  BY NatLessThanWellFounded, WFMin, Zenon
<1>2. \A i \in I : ~ (i < m)
  BY <1>1 DEF OpToRel
<1>3. \A i \in I : m =< i
  BY <1>2
<1>4. \E x \in I : \A y \in I : x =< y
  BY <1>3
<1> QED  BY <1>4 DEF Min

LEMMA Single ==
  ASSUME NEW S, NEW x \in S
  PROVE  <<x>> \in Seq(S) /\ Len(<<x>>) = 1 /\ <<x>>[1] = x
  OBVIOUS

LEMMA FirstColon ==
  ASSUME NEW text \in Seq(Word), NEW c, c = SelectInSeq(text, IsColon)
  PROVE  /\ c = 0 => \A n \in DOMAIN text : text[n] # ":"
         /\ c # 0 => /\ c \in DOMAIN text
                     /\ text[c] = ":"
                     /\ \A n \in DOMAIN text : n < c => text[n] # ":"
<1> DEFINE I == {n \in 1..Len(text) : text[n] = ":"}
<1>1. DOMAIN text = 1..Len(text) /\ Len(text) \in Nat
  BY LenProperties
<1>2. I \subseteq Nat
  OBVIOUS
<1>3. c = IF I # {} THEN Min(I) ELSE 0
  BY DEF SelectInSeq, IsColon
<1>4. I # {} => Min(I) \in I /\ \A i \in I : Min(I) =< i
  BY <1>2, MinExists
<1>5. \A n : n \in I <=> n \in DOMAIN text /\ text[n] = ":"
  BY <1>1
<1> HIDE DEF I
<1>6. CASE I = {}
  BY <1>2, <1>3, <1>5, <1>6
<1>7. CASE I # {}
  <2>1. c \in I /\ \A i \in I : c =< i
    BY <1>3, <1>4, <1>7
  <2>2. c \in DOMAIN text /\ text[c] = ":" /\ c # 0
    BY <1>1, <1>5, <2>1
  <2>3. ASSUME NEW n \in DOMAIN text, n < c PROVE text[n] # ":"
    BY <1>1, <1>5, <2>1, <2>2, <2>3
  <2> QED  BY <2>2, <2>3
<1> QED  BY <1>6, <1>7

LEMMA CutsOut ==
  ASSUME NEW text \in Seq(Word), NEW cut \in CutAtColon(text)
  PROVE  text = cut[1] \o <<":">> \o cut[2]
<1> DEFINE c == SelectInSeq(text, IsColon)
<1>1. /\ c \in DOMAIN text /\ text[c] = ":"
      /\ cut = <<SubSeq(text, 1, c - 1), SubSeq(text, c + 1, Len(text))>>
  BY FirstColon DEF CutAtColon
<1> HIDE DEF c
<1>2. c \in 1..Len(text) /\ Len(text) \in Nat
  BY <1>1, LenProperties
<1>3. SubSeq(text, c, c) = <<":">>
  <2>1. \A i \in c..c : text[i] \in Word
    BY <1>1, <1>2
  <2> PICK a : a = SubSeq(text, c, c)
    OBVIOUS
  <2> PICK b : b = <<":">>
    OBVIOUS
  <2>2. c - c + 1 = 1 /\ c + 1 - 1 = c /\ c \in Int /\ c =< c
    BY <1>2
  <2>3. /\ a \in Seq(Word)
        /\ Len(a) = IF c <= c THEN c - c + 1 ELSE 0
        /\ \A i \in 1..(c - c + 1) : a[i] = text[c + i - 1]
    BY <2>1, <2>2, SubSeqProperties
  <2>4. Len(a) = 1 /\ a[1] = ":"
    <3>1. 1 \in 1..(c - c + 1)
      BY <2>2
    <3>2. a[1] = text[c + 1 - 1]
      BY <2>3, <3>1
    <3> QED  BY <1>1, <2>2, <2>3, <3>2
  <2>5. b \in Seq(Word) /\ Len(b) = 1 /\ b[1] = ":"
    BY Single DEF Word
  <2>6. \A i \in 1..Len(a) : a[i] = b[i]
    <3>1. a[1] = b[1]
      BY <2>4, <2>5, Zenon
    <3>2. Len(a) = 1
      BY <2>4
    <3> HIDE <2>4
    <3>3. \A i \in 1..Len(a) : i = 1
      BY <3>2
    <3> QED  BY <3>1, <3>3
  <2>7. a = b
    BY <2>3, <2>4, <2>5, <2>6, SeqEqual
  <2> QED  BY <2>7
<1>4. SubSeq(text, 1, c - 1) \o SubSeq(text, c, c) = SubSeq(text, 1, c)
  <2>1. c - 1 + 1 = c
    BY <1>2
  <2> QED  BY <1>2, <2>1, ConcatAdjacentSubSeq
<1>5. SubSeq(text, 1, c) \o SubSeq(text, c + 1, Len(text)) = text
  <2>1. SubSeq(text, 1, c) \o SubSeq(text, c + 1, Len(text)) = SubSeq(text, 1, Len(text))
    BY <1>2, ConcatAdjacentSubSeq
  <2> QED  BY <2>1, SubSeqFull
<1>6. cut[1] = SubSeq(text, 1, c - 1) /\ cut[2] = SubSeq(text, c + 1, Len(text))
  BY <1>1
<1> QED  BY <1>3, <1>4, <1>5, <1>6

LEMMA CutWhole ==
  ASSUME NEW key \in Seq(Word), NEW secret \in Seq(Word),
         \A n \in DOMAIN key : key[n] # ":"
  PROVE  <<key, secret>> \in CutAtColon(key \o <<":">> \o secret)
<1> DEFINE head == key \o <<":">>
           text == head \o secret
           c == SelectInSeq(text, IsColon)
<1>1. Len(key) \in Nat /\ DOMAIN key = 1..Len(key) /\ Len(secret) \in Nat
  BY LenProperties
<1>2. /\ <<":">> \in Seq(Word) /\ Len(<<":">>) = 1 /\ <<":">>[1] = ":"
  BY Single DEF Word
<1>3. /\ head \in Seq(Word) /\ Len(head) = Len(key) + 1
      /\ \A i \in 1..Len(key) : head[i] = key[i]
      /\ head[Len(key) + 1] = ":"
  <2>1. /\ head \in Seq(Word) /\ Len(head) = Len(key) + 1
        /\ \A i \in 1..(Len(key) + 1) :
             head[i] = IF i <= Len(key) THEN key[i] ELSE <<":">>[i - Len(key)]
    BY <1>2, ConcatProperties
  <2>2. Len(key) + 1 - Len(key) = 1 /\ Len(key) + 1 \in 1..(Len(key) + 1)
    BY <1>1
  <2> QED  BY <1>1, <1>2, <2>1, <2>2
<1>4. /\ text \in Seq(Word) /\ Len(text) = Len(key) + 1 + Len(secret)
      /\ \A i \in 1..Len(text) :
           text[i] = IF i <= Len(key) + 1 THEN head[i] ELSE secret[i - Len(head)]
  BY <1>3, ConcatProperties
<1> HIDE DEF head
<1> HIDE DEF text
<1>5. text[Len(key) + 1] = ":" /\ \A i \in 1..Len(key) : text[i] # ":"
  BY <1>1, <1>3, <1>4
<1>6. DOMAIN text = 1..Len(text)
  BY <1>4, LenProperties
<1>7. /\ c = 0 => \A n \in DOMAIN text : text[n] # ":"
      /\ c # 0 => /\ c \in DOMAIN text
                  /\ text[c] = ":"
                  /\ \A n \in DOMAIN text : n < c => text[n] # ":"
  BY <1>4, FirstColon
<1> HIDE DEF c
<1>8. c = Len(key) + 1
  BY <1>1, <1>4, <1>5, <1>6, <1>7
<1>9. SubSeq(text, 1, c - 1) = key
  <2>1. \A i \in 1..(c - 1) : text[i] = key[i] /\ text[i] \in Word
    BY <1>1, <1>3, <1>4, <1>8, ElementOfSeq
  <2>2. /\ SubSeq(text, 1, c - 1) \in Seq(Word)
        /\ Len(SubSeq(text, 1, c - 1)) = Len(key)
        /\ \A i \in 1..Len(key) : SubSeq(text, 1, c - 1)[i] = key[i]
    BY <1>1, <1>8, <2>1, SubSeqProperties
  <2> QED  BY <2>2, SeqEqual
<1>10. SubSeq(text, c + 1, Len(text)) = secret
  <2>1. \A i \in (c + 1)..Len(text) : text[i] \in Word
    BY <1>1, <1>4, <1>8, ElementOfSeq
  <2>2. \A i \in 1..Len(secret) : text[c + 1 + i - 1] = secret[i]
    BY <1>1, <1>3, <1>4, <1>8
  <2>3. /\ SubSeq(text, c + 1, Len(text)) \in Seq(Word)
        /\ Len(SubSeq(text, c + 1, Len(text))) = Len(secret)
        /\ \A i \in 1..Len(secret) :
             SubSeq(text, c + 1, Len(text))[i] = text[c + 1 + i - 1]
    BY <1>1, <1>4, <1>8, <2>1, SubSeqProperties
  <2> QED  BY <2>2, <2>3, SeqEqual
<1>11. <<key, secret>> \in CutAtColon(text)
  BY <1>1, <1>8, <1>9, <1>10 DEF CutAtColon, c
<1> QED  BY <1>11 DEF text, head

-----------------------------------------------------------------------------
(* The inductive invariant. *)

LoadedConfig == {ConfigOf(env) : env \in {e \in Env : Loads(e)}}

PaymentRow ==
  [account : Nat, token : PaymentToken, by : Seq(STRING)]

SubscriptionRow ==
  [account : Nat, events : SUBSET EventType,
   secret : [key : {env.WEBHOOK_SECRET_ENC_KEY.value : env \in Env},
             plain : {"whsec_"} \X Nat],
   by : Seq(STRING)]

DeliveryRow ==
  [subscription_id : Nat, payload : [payment_id : Nat, status : {"PROCESSING"}],
   status : DeliveryStatus]

TablesOK ==
  /\ accounts \in Seq(Seq(STRING))
  /\ payments \in Seq(PaymentRow)
  /\ webhook_subscriptions \in Seq(SubscriptionRow)
  /\ webhook_deliveries \in Seq(DeliveryRow)
  /\ due \subseteq DOMAIN webhook_deliveries

(* A process that is past config.Load has a Config that Load returned; it  *)
(* knows no migration to be applied that is not.                           *)
ProcessesOK ==
  /\ schema \in 0..Migrations
  /\ pstage \in [Process -> {"off", "list", "migrate", "serving"}]
  /\ config \in [Process -> LoadedConfig \cup {NoConfig}]
  /\ version \in [Process -> Nat]
  /\ accountID \in [Process -> Nat]
  /\ \A p \in Process : pstage[p] # "off" => config[p] \in LoadedConfig
  /\ \A p \in Process : version[p] =< schema
  /\ \A p \in Process : pstage[p] = "serving" => version[p] = Migrations

(* key_id is unique, and a process serves the account of its key. *)
Seeded ==
  /\ \A i, j \in DOMAIN accounts : accounts[i] = accounts[j] => i = j
  /\ \A p \in Process : pstage[p] = "serving" =>
       /\ accountID[p] \in DOMAIN accounts
       /\ accounts[accountID[p]] = config[p].AccountKeyID

(* Key id and secret, as one environment configures them. *)
PresentedFor(text, key) ==
  \E env \in Env :
    /\ env.ACCOUNT_KEY_ID.value = key
    /\ text = env.ACCOUNT_KEY_ID.value \o <<":">> \o env.ACCOUNT_KEY_SECRET.value

LEMMA PresentedIsFor ==
  ASSUME NEW text, NEW a
  PROVE  Presented(text, a) <=> PresentedFor(text, accounts[a])
  BY DEF Presented, PresentedFor

(* Every row belongs to one that exists, and to the account whose          *)
(* credentials the caller presented.                                       *)
PaymentsOwned ==
  \A i \in DOMAIN payments :
    /\ payments[i].account \in DOMAIN accounts
    /\ PresentedFor(payments[i].by, accounts[payments[i].account])

SubscriptionsOwned ==
  \A j \in DOMAIN webhook_subscriptions :
    /\ webhook_subscriptions[j].account \in DOMAIN accounts
    /\ PresentedFor(webhook_subscriptions[j].by, accounts[webhook_subscriptions[j].account])
    /\ webhook_subscriptions[j].secret.plain = <<"whsec_", j>>

DeliveriesOwned ==
  \A d \in DOMAIN webhook_deliveries :
    webhook_deliveries[d].subscription_id \in DOMAIN webhook_subscriptions

AccountOf(d) == webhook_subscriptions[webhook_deliveries[d].subscription_id].account

RetriesOwned ==
  \A r \in retries :
    /\ r.delivery \in DOMAIN webhook_deliveries
    /\ r.id = [prefix |-> "dlv_", uuid |-> r.delivery]
    /\ PresentedFor(r.by, accounts[AccountOf(r.delivery)])

(* What was told, and what was sent, is of the secret of the subscription. *)
Signed ==
  /\ \A t \in told : t.secret = <<"whsec_", t.subscription_id>>
  /\ \A post \in posts :
       /\ post.delivery \in DOMAIN webhook_deliveries
       /\ post.body = webhook_deliveries[post.delivery].payload
       /\ post.signature =
            Sign(<<"whsec_", webhook_deliveries[post.delivery].subscription_id>>, post.body)

SInv ==
  /\ TablesOK /\ ProcessesOK /\ Seeded
  /\ PaymentsOwned /\ SubscriptionsOwned /\ DeliveriesOwned /\ RetriesOwned
  /\ Signed

LEMMA SInvInit == Init => SInv
<1> SUFFICES ASSUME Init PROVE SInv
  OBVIOUS
<1>1. /\ accounts = <<>> /\ payments = <<>> /\ webhook_subscriptions = <<>>
      /\ webhook_deliveries = <<>> /\ due = {} /\ told = {} /\ posts = {} /\ retries = {}
      /\ \A p \in Process : pstage[p] = "off"
  BY DEF Init
<1>2. DOMAIN accounts = {} /\ DOMAIN payments = {} /\ DOMAIN webhook_subscriptions = {}
      /\ DOMAIN webhook_deliveries = {}
  BY <1>1
<1>3. TablesOK
  BY <1>1, EmptySeq DEF TablesOK
<1>4. ProcessesOK
  BY DEF Init, ProcessesOK, Migrations
<1>5. Seeded
  BY <1>1, <1>2 DEF Seeded
<1>6. /\ PaymentsOwned /\ SubscriptionsOwned /\ DeliveriesOwned /\ RetriesOwned
  BY <1>1, <1>2 DEF PaymentsOwned, SubscriptionsOwned, DeliveriesOwned, RetriesOwned
<1>7. Signed
  BY <1>1 DEF Signed
<1> QED  BY <1>3, <1>4, <1>5, <1>6, <1>7 DEF SInv

-----------------------------------------------------------------------------
(* Rows are never removed; of a delivery, only the status changes. *)

AccountsStay ==
  \A i \in DOMAIN accounts : i \in DOMAIN accounts' /\ accounts'[i] = accounts[i]

SubscriptionsStay ==
  \A j \in DOMAIN webhook_subscriptions :
    /\ j \in DOMAIN webhook_subscriptions'
    /\ webhook_subscriptions'[j] = webhook_subscriptions[j]

DeliveriesStay ==
  \A d \in DOMAIN webhook_deliveries :
    /\ d \in DOMAIN webhook_deliveries'
    /\ webhook_deliveries'[d].subscription_id = webhook_deliveries[d].subscription_id
    /\ webhook_deliveries'[d].payload = webhook_deliveries[d].payload

RowsStay == AccountsStay /\ SubscriptionsStay /\ DeliveriesStay

(* What holds of the rows that were there goes on to hold of them. *)
LEMMA OldRowsOwned ==
  ASSUME SInv, RowsStay
  PROVE  /\ \A i \in DOMAIN payments :
              /\ payments[i].account \in DOMAIN accounts'
              /\ PresentedFor(payments[i].by, accounts'[payments[i].account])
         /\ \A j \in DOMAIN webhook_subscriptions :
              /\ webhook_subscriptions'[j].account \in DOMAIN accounts'
              /\ PresentedFor(webhook_subscriptions'[j].by,
                              accounts'[webhook_subscriptions'[j].account])
              /\ webhook_subscriptions'[j].secret.plain = <<"whsec_", j>>
         /\ \A d \in DOMAIN webhook_deliveries :
              webhook_deliveries'[d].subscription_id \in DOMAIN webhook_subscriptions'
         /\ \A r \in retries :
              /\ r.delivery \in DOMAIN webhook_deliveries'
              /\ r.id = [prefix |-> "dlv_", uuid |-> r.delivery]
              /\ PresentedFor(r.by, accounts'[AccountOf(r.delivery)'])
         /\ \A post \in posts :
              /\ post.delivery \in DOMAIN webhook_deliveries'
              /\ post.body = webhook_deliveries'[post.delivery].payload
              /\ post.signature =
                   Sign(<<"whsec_", webhook_deliveries'[post.delivery].subscription_id>>,
                        post.body)
<1>1. ASSUME NEW i \in DOMAIN payments
      PROVE  /\ payments[i].account \in DOMAIN accounts'
             /\ PresentedFor(payments[i].by, accounts'[payments[i].account])
  BY <1>1 DEF SInv, PaymentsOwned, RowsStay, AccountsStay
<1>2. ASSUME NEW j \in DOMAIN webhook_subscriptions
      PROVE  /\ webhook_subscriptions'[j].account \in DOMAIN accounts'
             /\ PresentedFor(webhook_subscriptions'[j].by,
                             accounts'[webhook_subscriptions'[j].account])
             /\ webhook_subscriptions'[j].secret.plain = <<"whsec_", j>>
  BY <1>2 DEF SInv, SubscriptionsOwned, RowsStay, AccountsStay, SubscriptionsStay
<1>3. ASSUME NEW d \in DOMAIN webhook_deliveries
      PROVE  webhook_deliveries'[d].subscription_id \in DOMAIN webhook_subscriptions'
  BY <1>3 DEF SInv, DeliveriesOwned, RowsStay, SubscriptionsStay, DeliveriesStay
<1>4. ASSUME NEW d \in DOMAIN webhook_deliveries
      PROVE  AccountOf(d)' = AccountOf(d) /\ AccountOf(d) \in DOMAIN accounts
             /\ accounts'[AccountOf(d)] = accounts[AccountOf(d)]
  <2>1. webhook_deliveries[d].subscription_id \in DOMAIN webhook_subscriptions
    BY <1>4 DEF SInv, DeliveriesOwned
  <2> QED
    BY <1>4, <2>1 DEF SInv, SubscriptionsOwned, RowsStay, AccountsStay, SubscriptionsStay,
      DeliveriesStay, AccountOf
<1>5. ASSUME NEW r \in retries
      PROVE  /\ r.delivery \in DOMAIN webhook_deliveries'
             /\ r.id = [prefix |-> "dlv_", uuid |-> r.delivery]
             /\ PresentedFor(r.by, accounts'[AccountOf(r.delivery)'])
  <2>1. /\ r.delivery \in DOMAIN webhook_deliveries
        /\ r.id = [prefix |-> "dlv_", uuid |-> r.delivery]
        /\ PresentedFor(r.by, accounts[AccountOf(r.delivery)])
    BY <1>5 DEF SInv, RetriesOwned
  <2>2. AccountOf(r.delivery)' = AccountOf(r.delivery)
        /\ accounts'[AccountOf(r.delivery)] = accounts[AccountOf(r.delivery)]
    BY <1>4, <2>1
  <2>3. r.delivery \in DOMAIN webhook_deliveries'
    BY <2>1 DEF RowsStay, DeliveriesStay
  <2> QED  BY <2>1, <2>2, <2>3
<1>6. ASSUME NEW post \in posts
      PROVE  /\ post.delivery \in DOMAIN webhook_deliveries'
             /\ post.body = webhook_deliveries'[post.delivery].payload
             /\ post.signature =
                  Sign(<<"whsec_", webhook_deliveries'[post.delivery].subscription_id>>,
                       post.body)
  BY <1>6 DEF SInv, Signed, RowsStay, DeliveriesStay
<1> QED  BY <1>1, <1>2, <1>3, <1>5, <1>6

LEMMA Appended ==
  ASSUME NEW S, NEW s \in Seq(S), NEW x \in S
  PROVE  /\ Append(s, x) \in Seq(S)
         /\ \A i \in DOMAIN s : i \in DOMAIN Append(s, x) /\ Append(s, x)[i] = s[i]
         /\ DOMAIN Append(s, x) = DOMAIN s \cup {Len(s) + 1}
         /\ Len(s) + 1 \notin DOMAIN s /\ Len(s) + 1 \in Nat
         /\ Append(s, x)[Len(s) + 1] = x
  BY AppendProperties, LenProperties

-----------------------------------------------------------------------------
(* The invariant says what the properties do. *)

LEMMA ConfigLoaded ==
  ASSUME SInv, NEW p \in Process, pstage[p] = "serving"
  PROVE  \E env \in Env : Loads(env) /\ config[p] = ConfigOf(env)
<1>1. config[p] \in LoadedConfig
  BY DEF SInv, ProcessesOK
<1> QED  BY <1>1 DEF LoadedConfig

LEMMA SameAccountFollows == SInv => SameKeySameAccount
  BY DEF SInv, Seeded, SameKeySameAccount

LEMMA CallersFollow == SInv => ActsForItsCaller
<1> SUFFICES ASSUME SInv PROVE ActsForItsCaller
  OBVIOUS
<1>1. \A i \in DOMAIN payments : Presented(payments[i].by, payments[i].account)
  BY PresentedIsFor DEF SInv, PaymentsOwned
<1>2. \A j \in DOMAIN webhook_subscriptions :
        Presented(webhook_subscriptions[j].by, webhook_subscriptions[j].account)
  BY PresentedIsFor DEF SInv, SubscriptionsOwned
<1>3. \A r \in retries :
        /\ r.id = [prefix |-> "dlv_", uuid |-> r.delivery]
        /\ Presented(r.by, AccountOf(r.delivery))
  BY PresentedIsFor DEF SInv, RetriesOwned
<1> QED  BY <1>1, <1>2, <1>3 DEF ActsForItsCaller, AccountOf

LEMMA VerifiesFollows == SInv => SubscriberCanVerify
  BY DEF SInv, Signed, SubscriberCanVerify

LEMMA MigratedFollows == SInv => ServesAMigratedSchema
  BY DEF SInv, ProcessesOK, ServesAMigratedSchema, Migrations

LEMMA WithinFollows == SInv => RunsWithinAssumptions
<1> SUFFICES ASSUME SInv, NEW p \in Process, pstage[p] = "serving"
             PROVE  /\ config[p].ProcessingDelay >= 0
                    /\ config[p].IdempotencyLease > 0
                    /\ config[p].WorkerPollInterval > 0
                    /\ config[p].WebhookTimeout > 0
                    /\ EncryptSecret(config[p].WebhookSecretEncKey, <<"whsec_", 0>>) # {}
  BY DEF RunsWithinAssumptions
<1>1. PICK env \in Env : Loads(env) /\ config[p] = ConfigOf(env)
  BY ConfigLoaded
<1>2. config[p].ProcessingDelay >= 0
  BY <1>1, EnvAssumption
    DEF Loads, ConfigOf, optionalDuration, OrDefault, defaultProcessingDelay
<1>3. config[p].IdempotencyLease > 0
  BY <1>1, EnvAssumption
    DEF Loads, ConfigOf, optionalDuration, OrDefault, defaultIdempotencyLease
<1>4. config[p].WorkerPollInterval > 0
  BY <1>1, EnvAssumption
    DEF Loads, ConfigOf, optionalDuration, OrDefault, defaultWorkerPollInterval
<1>5. config[p].WebhookTimeout > 0
  BY <1>1, EnvAssumption
    DEF Loads, ConfigOf, optionalDuration, OrDefault, defaultWebhookTimeout
<1>6. config[p].WebhookSecretEncKey.length = 32
  BY <1>1 DEF Loads, ConfigOf, requiredBase64Bytes
<1> QED  BY <1>2, <1>3, <1>4, <1>5, <1>6 DEF EncryptSecret

LEMMA TextsAreWords == Seq(STRING) \subseteq Seq(Word)
  BY SeqMonotonic DEF Word

LEMMA OwnersFollow == SInv => OwnersGetIn
<1> SUFFICES
      ASSUME SInv, NEW p \in Process, pstage[p] = "serving",
             \A n \in DOMAIN config[p].AccountKeyID : ~IsColon(config[p].AccountKeyID[n])
      PROVE  Admitted(p, [scheme |-> "Basic", decodes |-> TRUE,
                          text |-> config[p].AccountKeyID \o <<":">>
                                     \o config[p].AccountKeySecret])
  BY DEF OwnersGetIn
<1>1. PICK env \in Env : Loads(env) /\ config[p] = ConfigOf(env)
  BY ConfigLoaded
<1>2. config[p].AccountKeyID \in Seq(Word) /\ config[p].AccountKeySecret \in Seq(Word)
  BY <1>1, EnvAssumption, TextsAreWords DEF ConfigOf
<1>3. <<config[p].AccountKeyID, config[p].AccountKeySecret>>
        \in CutAtColon(config[p].AccountKeyID \o <<":">> \o config[p].AccountKeySecret)
  BY <1>2, CutWhole DEF IsColon
<1> QED  BY <1>3 DEF Admitted, basicAuth

-----------------------------------------------------------------------------
(* The steps of a process. *)

LEMMA StartKeeps ==
  ASSUME SInv, NEW p \in Process, Start(p)
  PROVE  SInv'
<1>1. PICK env \in Env : Loads(env) /\ config' = [config EXCEPT ![p] = ConfigOf(env)]
  BY DEF Start
<1>2. ConfigOf(env) \in LoadedConfig
  BY <1>1 DEF LoadedConfig
<1>3. /\ pstage' = [pstage EXCEPT ![p] = "list"]
      /\ UNCHANGED <<database, version, accountID, history>>
  BY DEF Start, PGoTo
<1>4. ProcessesOK'
  BY <1>1, <1>2, <1>3 DEF SInv, ProcessesOK, database
<1>5. Seeded'
  BY <1>1, <1>3 DEF SInv, Seeded, ProcessesOK, database
<1> QED
  BY <1>3, <1>4, <1>5 DEF SInv, TablesOK, PaymentsOwned, SubscriptionsOwned,
    DeliveriesOwned, RetriesOwned, AccountOf, Signed, database, history

LEMMA ListMigrationsKeeps ==
  ASSUME SInv, NEW p \in Process, ListMigrations(p)
  PROVE  SInv'
<1>1. /\ pstage[p] = "list"
      /\ pstage' = [pstage EXCEPT ![p] = "migrate"]
      /\ version' = [version EXCEPT ![p] = schema]
      /\ UNCHANGED <<database, config, accountID, history>>
  BY DEF ListMigrations, PGoTo
<1>2. ProcessesOK'
  BY <1>1 DEF SInv, ProcessesOK, database, Migrations
<1>3. Seeded'
  BY <1>1 DEF SInv, Seeded, ProcessesOK, database
<1> QED
  BY <1>1, <1>2, <1>3 DEF SInv, TablesOK, PaymentsOwned, SubscriptionsOwned,
    DeliveriesOwned, RetriesOwned, AccountOf, Signed, database, history

LEMMA ExitKeeps ==
  ASSUME SInv, NEW p \in Process, Exit(p), UNCHANGED <<database, history>>
  PROVE  SInv'
<1>1. /\ pstage' = [pstage EXCEPT ![p] = "off"]
      /\ config' = [config EXCEPT ![p] = NoConfig]
      /\ version' = [version EXCEPT ![p] = 0]
      /\ accountID' = [accountID EXCEPT ![p] = 0]
  BY DEF Exit, PGoTo
<1>2. ProcessesOK'
  BY <1>1 DEF SInv, ProcessesOK, database, Migrations
<1>3. Seeded'
  BY <1>1 DEF SInv, Seeded, ProcessesOK, database
<1> QED
  BY <1>2, <1>3 DEF SInv, TablesOK, PaymentsOwned, SubscriptionsOwned,
    DeliveriesOwned, RetriesOwned, AccountOf, Signed, database, history

LEMMA MigrateKeeps ==
  ASSUME SInv, NEW p \in Process, Migrate(p)
  PROVE  SInv'
<1>1. CASE schema # version[p] /\ Exit(p) /\ UNCHANGED schema
  BY <1>1, ExitKeeps DEF Migrate, database
<1>2. CASE /\ schema = version[p]
           /\ schema' = schema + 1
           /\ version' = [version EXCEPT ![p] = schema + 1]
           /\ UNCHANGED <<pstage, config, accountID>>
  <2>1. /\ pstage[p] = "migrate" /\ version[p] < Migrations
        /\ UNCHANGED <<accounts, payments, webhook_subscriptions, webhook_deliveries, due,
                       history>>
    BY DEF Migrate
  <2>2. ProcessesOK'
    BY <1>2, <2>1 DEF SInv, ProcessesOK, Migrations
  <2>3. Seeded'
    BY <1>2, <2>1 DEF SInv, Seeded
  <2> QED
    BY <1>2, <2>1, <2>2, <2>3 DEF SInv, TablesOK, PaymentsOwned, SubscriptionsOwned,
      DeliveriesOwned, RetriesOwned, AccountOf, Signed, history
<1> QED  BY <1>1, <1>2 DEF Migrate

LEMMA KeyIsText ==
  ASSUME SInv, NEW p \in Process, pstage[p] # "off"
  PROVE  config[p].AccountKeyID \in Seq(STRING)
<1>1. config[p] \in LoadedConfig
  BY DEF SInv, ProcessesOK
<1>2. PICK env \in Env : config[p] = ConfigOf(env)
  BY <1>1 DEF LoadedConfig
<1> QED  BY <1>2, EnvAssumption DEF ConfigOf

LEMMA SeedAccountKeeps ==
  ASSUME SInv, NEW p \in Process, SeedAccount(p)
  PROVE  SInv'
<1>1. /\ pstage[p] = "migrate" /\ version[p] = Migrations
      /\ pstage' = [pstage EXCEPT ![p] = "serving"]
      /\ UNCHANGED <<schema, payments, webhook_subscriptions, webhook_deliveries, due,
                     config, version, history>>
  BY DEF SeedAccount, PGoTo
<1>2. PICK a \in Nat :
        /\ accountID' = [accountID EXCEPT ![p] = a]
        /\ a \in DOMAIN accounts'
        /\ accounts'[a] = config[p].AccountKeyID
        /\ accounts' \in Seq(Seq(STRING))
        /\ AccountsStay
        /\ \A i, j \in DOMAIN accounts' : accounts'[i] = accounts'[j] => i = j
  <2>1. accounts \in Seq(Seq(STRING)) /\ \A i, j \in DOMAIN accounts :
                                           accounts[i] = accounts[j] => i = j
    BY DEF SInv, TablesOK, Seeded
  <2>2. DOMAIN accounts = 1..Len(accounts) /\ Len(accounts) \in Nat
    BY <2>1, LenProperties
  <2>3. CASE \E i \in DOMAIN accounts :
               /\ accounts[i] = config[p].AccountKeyID
               /\ accountID' = [accountID EXCEPT ![p] = i]
               /\ UNCHANGED accounts
    <3>1. PICK i \in DOMAIN accounts :
            /\ accounts[i] = config[p].AccountKeyID
            /\ accountID' = [accountID EXCEPT ![p] = i]
            /\ UNCHANGED accounts
      BY <2>3
    <3>2. i \in Nat
      BY <2>2
    <3> QED  BY <2>1, <3>1, <3>2 DEF AccountsStay
  <2>4. CASE /\ \A i \in DOMAIN accounts : accounts[i] # config[p].AccountKeyID
             /\ accounts' = Append(accounts, config[p].AccountKeyID)
             /\ accountID' = [accountID EXCEPT ![p] = Len(accounts) + 1]
    <3>1. PICK key : key = config[p].AccountKeyID
      OBVIOUS
    <3>2. key \in Seq(STRING)
      BY <1>1, <3>1, KeyIsText
    <3>3. /\ accounts' \in Seq(Seq(STRING))
          /\ \A i \in DOMAIN accounts : i \in DOMAIN accounts' /\ accounts'[i] = accounts[i]
          /\ DOMAIN accounts' = DOMAIN accounts \cup {Len(accounts) + 1}
          /\ Len(accounts) + 1 \in Nat
          /\ accounts'[Len(accounts) + 1] = key
      BY <2>1, <2>4, <3>1, <3>2, Appended
    <3>4. \A i, j \in DOMAIN accounts' : accounts'[i] = accounts'[j] => i = j
      BY <2>1, <2>4, <3>1, <3>3
    <3> QED  BY <2>4, <3>1, <3>3, <3>4 DEF AccountsStay
  <2> QED  BY <2>3, <2>4 DEF SeedAccount
<1>3. TablesOK'
  BY <1>1, <1>2 DEF SInv, TablesOK
<1>4. ProcessesOK'
  BY <1>1, <1>2 DEF SInv, ProcessesOK
<1>5. Seeded'
  <2> SUFFICES ASSUME NEW q \in Process, pstage'[q] = "serving"
               PROVE  /\ accountID'[q] \in DOMAIN accounts'
                      /\ accounts'[accountID'[q]] = config'[q].AccountKeyID
    BY <1>2 DEF Seeded
  <2>1. CASE q = p
    BY <1>1, <1>2, <2>1 DEF SInv, ProcessesOK
  <2>2. CASE q # p
    <3>1. pstage[q] = "serving" /\ accountID'[q] = accountID[q]
      BY <1>1, <1>2, <2>2 DEF SInv, ProcessesOK
    <3>2. accountID[q] \in DOMAIN accounts /\ accounts[accountID[q]] = config[q].AccountKeyID
      BY <3>1 DEF SInv, Seeded
    <3> QED  BY <1>1, <1>2, <3>1, <3>2 DEF AccountsStay
  <2> QED  BY <2>1, <2>2
<1>6. RowsStay
  BY <1>1, <1>2 DEF RowsStay, SubscriptionsStay, DeliveriesStay
<1>7. PaymentsOwned' /\ SubscriptionsOwned' /\ DeliveriesOwned' /\ RetriesOwned'
  BY <1>1, <1>6, OldRowsOwned
    DEF PaymentsOwned, SubscriptionsOwned, DeliveriesOwned, RetriesOwned, history
<1>8. Signed'
  BY <1>1 DEF SInv, Signed, history
<1> QED  BY <1>3, <1>4, <1>5, <1>7, <1>8 DEF SInv

-----------------------------------------------------------------------------
(* The steps of a request. *)

LEMMA AdmittedPresents ==
  ASSUME SInv, NEW p \in Process, NEW h \in Header, Admitted(p, h)
  PROVE  /\ pstage[p] = "serving"
         /\ h.text \in Seq(STRING)
         /\ accountID[p] \in DOMAIN accounts /\ accountID[p] \in Nat
         /\ PresentedFor(h.text, accounts[accountID[p]])
<1>1. pstage[p] = "serving" /\ h.text \in Seq(STRING)
  BY RequestAssumption DEF Admitted
<1>2. accountID[p] \in DOMAIN accounts /\ accounts[accountID[p]] = config[p].AccountKeyID
  BY <1>1 DEF SInv, Seeded
<1>3. <<config[p].AccountKeyID, config[p].AccountKeySecret>> \in CutAtColon(h.text)
  BY DEF Admitted, basicAuth, Passed
<1>4. h.text = config[p].AccountKeyID \o <<":">> \o config[p].AccountKeySecret
  <2>1. h.text \in Seq(Word)
    BY <1>1, TextsAreWords
  <2>2. PICK cut : cut = <<config[p].AccountKeyID, config[p].AccountKeySecret>>
    OBVIOUS
  <2>3. h.text = cut[1] \o <<":">> \o cut[2]
    BY <1>3, <2>1, <2>2, CutsOut
  <2> QED  BY <2>2, <2>3
<1>5. PICK env \in Env : config[p] = ConfigOf(env)
  BY <1>1, ConfigLoaded
<1>6. config[p].AccountKeyID = env.ACCOUNT_KEY_ID.value
      /\ config[p].AccountKeySecret = env.ACCOUNT_KEY_SECRET.value
  BY <1>5 DEF ConfigOf
<1>7. PresentedFor(h.text, accounts[accountID[p]])
  BY <1>2, <1>4, <1>6 DEF PresentedFor
<1>8. accountID[p] \in Nat
  BY DEF SInv, ProcessesOK
<1> QED  BY <1>1, <1>2, <1>7, <1>8

LEMMA PostPaymentKeeps ==
  ASSUME SInv, NEW p \in Process, PostPayment(p)
  PROVE  SInv'
<1>1. PICK h \in Header, q \in PaymentPost :
        /\ Admitted(p, h)
        /\ CheckPayment(q) = Passed
        /\ payments' = Append(payments,
             [account |-> accountID[p], token |-> q.token, by |-> h.text])
  BY DEF PostPayment
<1>2. UNCHANGED <<schema, accounts, webhook_subscriptions, process, history>>
  BY DEF PostPayment
<1>3. /\ h.text \in Seq(STRING)
      /\ accountID[p] \in DOMAIN accounts /\ accountID[p] \in Nat
      /\ PresentedFor(h.text, accounts[accountID[p]])
  BY <1>1, AdmittedPresents
<1>4. PICK row : row = [account |-> accountID[p], token |-> q.token, by |-> h.text]
  OBVIOUS
<1>5. row \in PaymentRow
  <2>1. CheckPayment(q) = Passed /\ 400 # Passed /\ 422 # Passed
    BY <1>1 DEF Passed
  <2>2. q.token \in PaymentToken
    BY <2>1, Zenon DEF CheckPayment
  <2> QED  BY <1>3, <1>4, <2>2 DEF PaymentRow
<1>6. payments \in Seq(PaymentRow) /\ webhook_deliveries \in Seq(DeliveryRow)
      /\ due \subseteq DOMAIN webhook_deliveries
  BY DEF SInv, TablesOK
<1>7. /\ payments' \in Seq(PaymentRow)
      /\ \A i \in DOMAIN payments : i \in DOMAIN payments' /\ payments'[i] = payments[i]
      /\ DOMAIN payments' = DOMAIN payments \cup {Len(payments) + 1}
      /\ Len(payments) + 1 \in Nat
      /\ payments'[Len(payments) + 1] = row
  BY <1>1, <1>4, <1>5, <1>6, Appended
<1>8. PaymentsOwned'
  <2> SUFFICES ASSUME NEW i \in DOMAIN payments'
               PROVE  /\ payments'[i].account \in DOMAIN accounts'
                      /\ PresentedFor(payments'[i].by, accounts'[payments'[i].account])
    BY DEF PaymentsOwned
  <2>1. CASE i \in DOMAIN payments
    BY <1>2, <1>7, <2>1 DEF SInv, PaymentsOwned
  <2>2. CASE i = Len(payments) + 1
    BY <1>2, <1>3, <1>4, <1>7, <2>2
  <2> QED  BY <1>7, <2>1, <2>2
<1>9. /\ webhook_deliveries' \in Seq(DeliveryRow)
      /\ due' \subseteq DOMAIN webhook_deliveries'
      /\ DeliveriesStay
      /\ \A d \in DOMAIN webhook_deliveries' :
           d \notin DOMAIN webhook_deliveries =>
             webhook_deliveries'[d].subscription_id \in DOMAIN webhook_subscriptions
  <2>1. CASE UNCHANGED <<webhook_deliveries, due>>
    BY <1>6, <2>1 DEF DeliveriesStay
  <2>2. CASE ~ UNCHANGED <<webhook_deliveries, due>>
    <3>1. PICK j \in DOMAIN webhook_subscriptions :
            /\ webhook_deliveries' = Append(webhook_deliveries,
                 [subscription_id |-> j,
                  payload |-> BuildPayload(Len(payments) + 1,
                                CreationStatus(payments'[Len(payments) + 1].token)),
                  status |-> "PENDING"])
            /\ due' = due \cup {Len(webhook_deliveries) + 1}
      BY <2>2 DEF PostPayment, ActiveSubscription
    <3>2. PICK delivery : delivery = [subscription_id |-> j,
                  payload |-> BuildPayload(Len(payments) + 1,
                                CreationStatus(payments'[Len(payments) + 1].token)),
                  status |-> "PENDING"]
      OBVIOUS
    <3>3. j \in Nat
      BY LenProperties DEF SInv, TablesOK
    <3>4. delivery \in DeliveryRow
      BY <1>7, <3>2, <3>3 DEF DeliveryRow, BuildPayload, CreationStatus, DeliveryStatus
    <3>5. /\ webhook_deliveries' \in Seq(DeliveryRow)
          /\ \A d \in DOMAIN webhook_deliveries :
               d \in DOMAIN webhook_deliveries' /\ webhook_deliveries'[d] = webhook_deliveries[d]
          /\ DOMAIN webhook_deliveries' =
               DOMAIN webhook_deliveries \cup {Len(webhook_deliveries) + 1}
          /\ webhook_deliveries'[Len(webhook_deliveries) + 1] = delivery
      BY <1>6, <3>1, <3>2, <3>4, Appended
    <3>6. delivery.subscription_id = j
      BY <3>2
    <3> QED  BY <1>6, <3>1, <3>5, <3>6 DEF DeliveriesStay
  <2> QED  BY <2>1, <2>2
<1>10. RowsStay
  BY <1>2, <1>9 DEF RowsStay, AccountsStay, SubscriptionsStay
<1>11. TablesOK'
  BY <1>2, <1>7, <1>9 DEF SInv, TablesOK
<1>12. ProcessesOK' /\ Seeded'
  BY <1>2 DEF SInv, ProcessesOK, Seeded, process
<1>13. SubscriptionsOwned' /\ RetriesOwned'
  BY <1>2, <1>10, OldRowsOwned DEF SubscriptionsOwned, RetriesOwned, history
<1>14. DeliveriesOwned'
  BY <1>2, <1>9, <1>10, OldRowsOwned DEF DeliveriesOwned
<1>15. Signed'
  <2>1. \A post \in posts :
          /\ post.delivery \in DOMAIN webhook_deliveries'
          /\ post.body = webhook_deliveries'[post.delivery].payload
          /\ post.signature =
               Sign(<<"whsec_", webhook_deliveries'[post.delivery].subscription_id>>, post.body)
    BY <1>10, OldRowsOwned
  <2> QED  BY <1>2, <2>1 DEF SInv, Signed, history
<1> QED  BY <1>8, <1>11, <1>12, <1>13, <1>14, <1>15 DEF SInv

LEMMA PostSubscriptionKeeps ==
  ASSUME SInv, NEW p \in Process, PostSubscription(p)
  PROVE  SInv'
<1> PICK j : j = Len(webhook_subscriptions) + 1
  OBVIOUS
<1> PICK secret : secret = <<"whsec_", j>>
  OBVIOUS
<1>1. PICK h \in Header, q \in SubscriptionPost :
        /\ Admitted(p, h)
        /\ CheckSubscription(q) = Passed
        /\ \E sealed \in EncryptSecret(config[p].WebhookSecretEncKey, secret) :
             webhook_subscriptions' = Append(webhook_subscriptions,
               [account |-> accountID[p], events |-> q.events,
                secret |-> sealed, by |-> h.text])
        /\ \/ told' = told \cup {[subscription_id |-> j, secret |-> secret]}
           \/ UNCHANGED told
  BY DEF PostSubscription
<1>2. PICK sealed \in EncryptSecret(config[p].WebhookSecretEncKey, secret) :
        webhook_subscriptions' = Append(webhook_subscriptions,
          [account |-> accountID[p], events |-> q.events,
           secret |-> sealed, by |-> h.text])
  BY <1>1
<1>3. UNCHANGED <<schema, accounts, payments, webhook_deliveries, due, process, posts, retries>>
  BY DEF PostSubscription
<1>4. /\ pstage[p] = "serving" /\ h.text \in Seq(STRING)
      /\ accountID[p] \in DOMAIN accounts /\ accountID[p] \in Nat
      /\ PresentedFor(h.text, accounts[accountID[p]])
  BY <1>1, AdmittedPresents
<1>5. j \in Nat /\ webhook_subscriptions \in Seq(SubscriptionRow)
  BY LenProperties DEF SInv, TablesOK
<1>6. sealed.plain = secret /\ sealed \in [key : {env.WEBHOOK_SECRET_ENC_KEY.value : env \in Env},
                                           plain : {"whsec_"} \X Nat]
  <2>1. PICK env \in Env : config[p] = ConfigOf(env)
    BY <1>4, ConfigLoaded
  <2>2. sealed = [key |-> config[p].WebhookSecretEncKey.bytes, plain |-> secret]
    BY <1>2 DEF EncryptSecret
  <2>3. config[p].WebhookSecretEncKey.bytes = env.WEBHOOK_SECRET_ENC_KEY.value
    BY <2>1 DEF ConfigOf
  <2>4. secret \in {"whsec_"} \X Nat
    BY <1>5
  <2> QED  BY <2>2, <2>3, <2>4
<1> PICK row : row = [account |-> accountID[p], events |-> q.events,
                      secret |-> sealed, by |-> h.text]
  OBVIOUS
<1>7. row \in SubscriptionRow
  <2>1. q.events \in SUBSET EventType
    BY <1>1 DEF CheckSubscription, Passed
  <2> QED  BY <1>4, <1>6, <2>1 DEF SubscriptionRow
<1>8. /\ webhook_subscriptions' \in Seq(SubscriptionRow)
      /\ SubscriptionsStay
      /\ DOMAIN webhook_subscriptions' = DOMAIN webhook_subscriptions \cup {j}
      /\ webhook_subscriptions'[j] = row
  BY <1>2, <1>5, <1>7, Appended DEF SubscriptionsStay
<1>9. RowsStay
  BY <1>3, <1>8 DEF RowsStay, AccountsStay, DeliveriesStay
<1>10. SubscriptionsOwned'
  <2> SUFFICES ASSUME NEW i \in DOMAIN webhook_subscriptions'
               PROVE  /\ webhook_subscriptions'[i].account \in DOMAIN accounts'
                      /\ PresentedFor(webhook_subscriptions'[i].by,
                                      accounts'[webhook_subscriptions'[i].account])
                      /\ webhook_subscriptions'[i].secret.plain = <<"whsec_", i>>
    BY DEF SubscriptionsOwned
  <2>1. CASE i \in DOMAIN webhook_subscriptions
    BY <1>9, <2>1, OldRowsOwned
  <2>2. CASE i = j
    BY <1>3, <1>4, <1>6, <1>8, <2>2
  <2> QED  BY <1>8, <2>1, <2>2
<1>11. TablesOK'
  BY <1>3, <1>8 DEF SInv, TablesOK
<1>12. ProcessesOK' /\ Seeded'
  BY <1>3 DEF SInv, ProcessesOK, Seeded, process
<1>13. PaymentsOwned' /\ DeliveriesOwned' /\ RetriesOwned'
  BY <1>3, <1>9, OldRowsOwned DEF PaymentsOwned, DeliveriesOwned, RetriesOwned
<1>14. Signed'
  <2>1. \A t \in told' : t.secret = <<"whsec_", t.subscription_id>>
    BY <1>1 DEF SInv, Signed
  <2>2. \A post \in posts' :
          /\ post.delivery \in DOMAIN webhook_deliveries'
          /\ post.body = webhook_deliveries'[post.delivery].payload
          /\ post.signature =
               Sign(<<"whsec_", webhook_deliveries'[post.delivery].subscription_id>>, post.body)
    BY <1>3, <1>9, OldRowsOwned
  <2> QED  BY <2>1, <2>2 DEF Signed
<1> QED  BY <1>10, <1>11, <1>12, <1>13, <1>14 DEF SInv

(* A delivery whose status changes keeps what it is about. *)
LEMMA StatusSet ==
  ASSUME SInv, NEW d \in DOMAIN webhook_deliveries, NEW status \in DeliveryStatus,
         webhook_deliveries' = [webhook_deliveries EXCEPT ![d].status = status]
  PROVE  /\ webhook_deliveries' \in Seq(DeliveryRow)
         /\ DOMAIN webhook_deliveries' = DOMAIN webhook_deliveries
         /\ DeliveriesStay
<1> PICK row : row = [webhook_deliveries[d] EXCEPT !.status = status]
  OBVIOUS
<1>1. webhook_deliveries \in Seq(DeliveryRow)
  BY DEF SInv, TablesOK
<1>2. DOMAIN webhook_deliveries = 1..Len(webhook_deliveries)
      /\ webhook_deliveries[d] \in DeliveryRow
  BY <1>1, LenProperties, ElementOfSeq
<1>3. row \in DeliveryRow /\ row.subscription_id = webhook_deliveries[d].subscription_id
      /\ row.payload = webhook_deliveries[d].payload
  BY <1>2 DEF DeliveryRow
<1>4. webhook_deliveries' = [webhook_deliveries EXCEPT ![d] = row]
  OBVIOUS
<1>5. /\ webhook_deliveries' \in Seq(DeliveryRow)
      /\ Len(webhook_deliveries') = Len(webhook_deliveries)
      /\ \A i \in 1..Len(webhook_deliveries) :
           webhook_deliveries'[i] = IF i = d THEN row ELSE webhook_deliveries[i]
  BY <1>1, <1>2, <1>3, <1>4, ExceptSeq
<1>6. DOMAIN webhook_deliveries' = DOMAIN webhook_deliveries
  BY <1>2, <1>5, LenProperties
<1> QED  BY <1>2, <1>3, <1>5, <1>6 DEF DeliveriesStay

LEMMA PostRetryKeeps ==
  ASSUME SInv, NEW p \in Process, PostRetry(p)
  PROVE  SInv'
<1>1. PICK h \in Header, id \in DeliveryID :
        /\ Admitted(p, h)
        /\ \E d \in DecodeID("dlv_", id) \cap DOMAIN webhook_deliveries :
             /\ webhook_subscriptions[webhook_deliveries[d].subscription_id].account
                  = accountID[p]
             /\ webhook_deliveries[d].status # "SENT"
             /\ webhook_deliveries' = [webhook_deliveries EXCEPT ![d].status = "PENDING"]
             /\ due' = due \cup {d}
             /\ retries' = retries \cup {[delivery |-> d, id |-> id, by |-> h.text]}
  BY DEF PostRetry
<1>2. PICK d \in DecodeID("dlv_", id) \cap DOMAIN webhook_deliveries :
        /\ webhook_subscriptions[webhook_deliveries[d].subscription_id].account = accountID[p]
        /\ webhook_deliveries' = [webhook_deliveries EXCEPT ![d].status = "PENDING"]
        /\ due' = due \cup {d}
        /\ retries' = retries \cup {[delivery |-> d, id |-> id, by |-> h.text]}
  BY <1>1
<1>3. UNCHANGED <<schema, accounts, payments, webhook_subscriptions, process, told, posts>>
  BY DEF PostRetry
<1>4. PresentedFor(h.text, accounts[accountID[p]])
  BY <1>1, AdmittedPresents
<1>5. id = [prefix |-> "dlv_", uuid |-> d]
  <2>1. id \in [prefix : STRING, uuid : Nat]
    BY RequestAssumption
  <2>2. id.prefix = "dlv_" /\ id.uuid = d
    BY DEF DecodeID
  <2> QED  BY <2>1, <2>2
<1>6. /\ webhook_deliveries' \in Seq(DeliveryRow)
      /\ DOMAIN webhook_deliveries' = DOMAIN webhook_deliveries
      /\ DeliveriesStay
  BY <1>2, StatusSet DEF DeliveryStatus
<1>7. RowsStay
  BY <1>3, <1>6 DEF RowsStay, AccountsStay, SubscriptionsStay
<1>8. RetriesOwned'
  <2> SUFFICES ASSUME NEW r \in retries'
               PROVE  /\ r.delivery \in DOMAIN webhook_deliveries'
                      /\ r.id = [prefix |-> "dlv_", uuid |-> r.delivery]
                      /\ PresentedFor(r.by, accounts'[AccountOf(r.delivery)'])
    BY DEF RetriesOwned
  <2>1. CASE r \in retries
    BY <1>7, <2>1, OldRowsOwned
  <2>2. CASE r = [delivery |-> d, id |-> id, by |-> h.text]
    <3>1. AccountOf(d)' = accountID[p]
      BY <1>2, <1>3, <1>6 DEF AccountOf, DeliveriesStay
    <3> QED  BY <1>3, <1>4, <1>5, <1>6, <2>2, <3>1
  <2> QED  BY <1>2, <2>1, <2>2
<1>9. TablesOK'
  BY <1>2, <1>3, <1>6 DEF SInv, TablesOK
<1>10. ProcessesOK' /\ Seeded'
  BY <1>3 DEF SInv, ProcessesOK, Seeded, process
<1>11. PaymentsOwned' /\ SubscriptionsOwned' /\ DeliveriesOwned'
  BY <1>3, <1>6, <1>7, OldRowsOwned DEF PaymentsOwned, SubscriptionsOwned, DeliveriesOwned
<1>12. Signed'
  <2>1. \A post \in posts' :
          /\ post.delivery \in DOMAIN webhook_deliveries'
          /\ post.body = webhook_deliveries'[post.delivery].payload
          /\ post.signature =
               Sign(<<"whsec_", webhook_deliveries'[post.delivery].subscription_id>>, post.body)
    BY <1>3, <1>7, OldRowsOwned
  <2> QED  BY <1>3, <2>1 DEF SInv, Signed
<1> QED  BY <1>8, <1>9, <1>10, <1>11, <1>12 DEF SInv

(* A POST is signed with the secret its subscription was created with: it  *)
(* opens under the key it was sealed with or not at all.                   *)
LEMMA DeliverKeeps ==
  ASSUME SInv, NEW p \in Process, Deliver(p)
  PROVE  SInv'
<1>1. PICK d \in due :
        LET row == webhook_deliveries[d]
            secrets == DecryptSecret(config[p].WebhookSecretEncKey,
                                     webhook_subscriptions[row.subscription_id].secret)
        IN  /\ due' \subseteq due
            /\ \/ UNCHANGED <<webhook_deliveries, posts>>
               \/ \E secret \in secrets, status \in {"SENT", "FAILED"} :
                    /\ webhook_deliveries' = [webhook_deliveries EXCEPT ![d].status = status]
                    /\ posts' = posts \cup {[delivery |-> d, body |-> row.payload,
                                             signature |-> Sign(secret, row.payload)]}
  BY DEF Deliver
<1> PICK row : row = webhook_deliveries[d]
  OBVIOUS
<1>2. UNCHANGED <<schema, accounts, payments, webhook_subscriptions, process, told, retries>>
  BY DEF Deliver
<1>3. d \in DOMAIN webhook_deliveries /\ due' \subseteq due
      /\ webhook_deliveries \in Seq(DeliveryRow) /\ due \subseteq DOMAIN webhook_deliveries
  BY <1>1 DEF SInv, TablesOK
<1>4. /\ webhook_deliveries' \in Seq(DeliveryRow)
      /\ DOMAIN webhook_deliveries' = DOMAIN webhook_deliveries
      /\ DeliveriesStay
      /\ \A post \in posts' \ posts :
           /\ post.delivery = d
           /\ post.body = row.payload
           /\ post.signature = Sign(<<"whsec_", row.subscription_id>>, row.payload)
  <2>1. CASE UNCHANGED <<webhook_deliveries, posts>>
    BY <1>3, <2>1 DEF DeliveriesStay
  <2>2. CASE ~ UNCHANGED <<webhook_deliveries, posts>>
    <3>1. PICK secret, status :
            /\ secret \in DecryptSecret(config[p].WebhookSecretEncKey,
                                        webhook_subscriptions[row.subscription_id].secret)
            /\ status \in {"SENT", "FAILED"}
            /\ webhook_deliveries' = [webhook_deliveries EXCEPT ![d].status = status]
            /\ posts' = posts \cup {[delivery |-> d, body |-> row.payload,
                                     signature |-> Sign(secret, row.payload)]}
      BY <1>1, <2>2
    <3>2. secret = webhook_subscriptions[row.subscription_id].secret.plain
      BY <3>1 DEF DecryptSecret
    <3>3. secret = <<"whsec_", row.subscription_id>>
      BY <1>3, <3>2 DEF SInv, DeliveriesOwned, SubscriptionsOwned
    <3>4. /\ webhook_deliveries' \in Seq(DeliveryRow)
          /\ DOMAIN webhook_deliveries' = DOMAIN webhook_deliveries
          /\ DeliveriesStay
      BY <1>3, <3>1, StatusSet DEF DeliveryStatus
    <3> QED  BY <3>1, <3>3, <3>4
  <2> QED  BY <2>1, <2>2
<1>5. RowsStay
  BY <1>2, <1>4 DEF RowsStay, AccountsStay, SubscriptionsStay
<1>6. TablesOK'
  BY <1>2, <1>3, <1>4 DEF SInv, TablesOK
<1>7. ProcessesOK' /\ Seeded'
  BY <1>2 DEF SInv, ProcessesOK, Seeded, process
<1>8. PaymentsOwned' /\ SubscriptionsOwned' /\ DeliveriesOwned' /\ RetriesOwned'
  BY <1>2, <1>4, <1>5, OldRowsOwned
    DEF PaymentsOwned, SubscriptionsOwned, DeliveriesOwned, RetriesOwned
<1>9. Signed'
  <2> SUFFICES
        ASSUME NEW post \in posts'
        PROVE  /\ post.delivery \in DOMAIN webhook_deliveries'
               /\ post.body = webhook_deliveries'[post.delivery].payload
               /\ post.signature =
                    Sign(<<"whsec_", webhook_deliveries'[post.delivery].subscription_id>>,
                         post.body)
    BY <1>2 DEF SInv, Signed
  <2>1. CASE post \in posts
    BY <1>5, <2>1, OldRowsOwned
  <2>2. CASE post \notin posts
    <3>1. webhook_deliveries'[d].payload = row.payload
          /\ webhook_deliveries'[d].subscription_id = row.subscription_id
      BY <1>3, <1>4 DEF DeliveriesStay
    <3> QED  BY <1>3, <1>4, <2>2, <3>1
  <2> QED  BY <2>1, <2>2
<1> QED  BY <1>6, <1>7, <1>8, <1>9 DEF SInv

LEMMA SInvStep == SInv /\ [Next]_vars => SInv'
<1> SUFFICES ASSUME SInv, [Next]_vars PROVE SInv'
  OBVIOUS
<1>1. CASE UNCHANGED vars
  BY <1>1 DEF vars, database, process, history, SInv, TablesOK, ProcessesOK, Seeded,
    PaymentsOwned, SubscriptionsOwned, DeliveriesOwned, RetriesOwned, AccountOf, Signed
<1>2. ASSUME NEW p \in Process, Start(p) \/ Starting(p) \/ Crash(p) \/ Serving(p)
      PROVE  SInv'
  <2>1. CASE Start(p)
    BY <2>1, StartKeeps
  <2>2. CASE ListMigrations(p)
    BY <2>2, ListMigrationsKeeps
  <2>3. CASE Migrate(p)
    BY <2>3, MigrateKeeps
  <2>4. CASE SeedAccount(p)
    BY <2>4, SeedAccountKeeps
  <2>5. CASE Crash(p)
    BY <2>5, ExitKeeps DEF Crash
  <2>6. CASE PostPayment(p)
    BY <2>6, PostPaymentKeeps
  <2>7. CASE PostSubscription(p)
    BY <2>7, PostSubscriptionKeeps
  <2>8. CASE PostRetry(p)
    BY <2>8, PostRetryKeeps
  <2>9. CASE Deliver(p)
    BY <2>9, DeliverKeeps
  <2> QED
    BY <1>2, <2>1, <2>2, <2>3, <2>4, <2>5, <2>6, <2>7, <2>8, <2>9 DEF Starting, Serving
<1> QED  BY <1>1, <1>2 DEF Next

LEMMA Invariance == Spec => []SInv
  BY SInvInit, SInvStep, PTL DEF Spec

-----------------------------------------------------------------------------
(* The theorems. *)

(* Processes serve one account exactly when one key is configured for      *)
(* them: the upsert of seed.go, however startups and crashes interleave.   *)
THEOREM OneAccountPerKey == Spec => []SameKeySameAccount
  BY Invariance, SameAccountFollows, PTL

(* Every payment, subscription and retry was asked for with the key id and *)
(* the secret of the account it belongs to: basicAuthMiddleware, decodeID  *)
(* and the account filter of every statement together.                     *)
THEOREM OnlyOwnersAct == Spec => []ActsForItsCaller
  BY Invariance, CallersFollow, PTL

(* Whoever sends a webhook, under whatever encryption key, it carries the  *)
(* bytes rendered once and the signature of the subscriber's own secret.   *)
THEOREM EveryPostVerifies == Spec => []SubscriberCanVerify
  BY Invariance, VerifiesFollows, PTL

(* goose runs without a lock: whoever gets past it found every migration   *)
(* applied all the same.                                                   *)
THEOREM SchemaIsMigrated == Spec => []ServesAMigratedSchema
  BY Invariance, MigratedFollows, PTL

(* What config.Load lets through is what NewTicker, http.Client, the       *)
(* idempotency store and the cipher take for granted.                      *)
THEOREM LoadGuardsEveryUse == Spec => []RunsWithinAssumptions
  BY Invariance, WithinFollows, PTL

(* Whoever configured a key id without a colon can present it, whatever    *)
(* the secret holds.                                                       *)
THEOREM OwnersAreAdmitted == Spec => []OwnersGetIn
  BY Invariance, OwnersFollow, PTL
=============================================================================
