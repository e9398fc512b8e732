----------------------------- MODULE Posts_proofs -----------------------------
(***************************************************************************)
(* The theorems about Pipeline that count: POSTs against the work rows     *)
(* that ask for them and against the attempts that are recorded, and what  *)
(* is unfinished against the work that waits for it; and the one about the *)
(* outbox as a queue, which hands out each of these rows once.             *)
(*                                                                         *)
(* A POST spends the row in its worker's hand.  The rows of a delivery     *)
(* that no worker can POST for any more are at least as many as its POSTs; *)
(* its POSTs are at least as many as its recorded attempts and those about *)
(* to be recorded, and exactly as many while no worker fails.              *)
(***************************************************************************)
EXTENDS Pipeline_proofs, FiniteSetTheorems

(* The row in a worker's hand has left its batch. *)
ItemApart == \A w \in Worker : item[w] \notin batch[w]

(* The rows worker w may still POST for. *)
ToPost(w) == batch[w] \cup (IF wstage[w] = "record" THEN {} ELSE {item[w]})

(* The rows of delivery d that ask for nothing any more. *)
Spent(d) ==
  {i \in DeliverRows(d) : outbox_work[i].state = "DONE" /\ \A w \in Worker : i \notin ToPost(w)}

(* Every POST spent a row; every attempt, recorded or about to be, is a    *)
(* POST.                                                                   *)
Accounted(d) ==
  /\ Posts(d) =< Cardinality(Spent(d))
  /\ IsFiniteSet(Recording(d))
  /\ webhook_deliveries[d].attempt_count + Cardinality(Recording(d)) =< Posts(d)

PInv == ItemApart /\ \A d \in DOMAIN webhook_deliveries : Accounted(d)

(* The commit of a create request inserts; all else they do writes nothing. *)
Inserts ==
  /\ \E s \in Scope, b \in Body, t \in Nat, sub \in Nat : InsertPayment(s, b, t, sub)
  /\ UNCHANGED <<clock, webhook_subscriptions, workerVars, retryVars>>
  /\ idempotency_keys' \in [Scope -> IdempotencyRow]

Untouched == UNCHANGED <<clock, tables, workerVars, retryVars>>

LEMMA StepIs ==
  ASSUME PipelineInv, [Next]_vars
  PROVE  \/ Inserts \/ Retrying \/ Subscription \/ Passing \/ Untouched \/ Faults
         \/ \E w \in Worker : Working(w)
<1>1. ASSUME NEW r \in CreateRequest, Creating(r)
      PROVE  Inserts \/ Untouched
  <2>1. CASE Arrive(r) \/ Work(r)
    BY <1>1, <2>1, ReadingWritesNothing DEF Untouched
  <2>2. CASE Commit(r)
    BY <1>1, <2>2, CommitInserts DEF Inserts, PipelineInv
  <2> QED  BY <1>1, <2>1, <2>2 DEF Creating
<1>2. CASE UNCHANGED vars
  BY <1>2 DEF vars, Untouched
<1> QED  BY <1>1, <1>2 DEF Next

LEMMA FiniteRows ==
  ASSUME TInv, NEW d
  PROVE  IsFiniteSet(DeliverRows(d)) /\ IsFiniteSet(Spent(d))
<1>1. DOMAIN outbox_work = 1..Len(outbox_work) /\ Len(outbox_work) \in Nat
  BY LenProperties DEF TInv, TablesTypeOK
<1>2. IsFiniteSet(DOMAIN outbox_work)
  BY <1>1, FS_Interval
<1>3. DeliverRows(d) \subseteq DOMAIN outbox_work /\ Spent(d) \subseteq DOMAIN outbox_work
  BY DEF DeliverRows, Spent
<1> QED  BY <1>2, <1>3, FS_Subset

PostsOf(d) == {n \in DOMAIN sends : sends[n].delivery = d}

LEMMA FinitePosts ==
  ASSUME WorkerTypeOK, NEW d
  PROVE  IsFiniteSet(PostsOf(d)) /\ Posts(d) = Cardinality(PostsOf(d)) /\ Posts(d) \in Nat
<1>1. DOMAIN sends = 1..Len(sends) /\ Len(sends) \in Nat
  BY LenProperties DEF WorkerTypeOK
<1>2. IsFiniteSet(DOMAIN sends)
  BY <1>1, FS_Interval
<1>3. PostsOf(d) \subseteq DOMAIN sends
  BY DEF PostsOf
<1>4. IsFiniteSet(PostsOf(d))
  BY <1>2, <1>3, FS_Subset
<1>5. Posts(d) = Cardinality(PostsOf(d))
  BY DEF Posts, PostsOf
<1> QED  BY <1>4, <1>5, FS_CardinalityType

LEMMA CountTyped ==
  ASSUME TInv, NEW d \in DOMAIN webhook_deliveries
  PROVE  webhook_deliveries[d].attempt_count \in Nat
<1>1. webhook_deliveries[d] \in DeliveryRow
  BY ElementOfSeq, LenProperties DEF TInv, TablesTypeOK
<1> QED  BY <1>1 DEF DeliveryRow

(* The invariant says what PostsAreAskedFor does. *)
LEMMA PInvIsEnough ==
  ASSUME IInv, PInv
  PROVE  PostsAreAskedFor
<1> SUFFICES ASSUME NEW d \in DOMAIN webhook_deliveries
             PROVE  /\ Posts(d) =< Cardinality({i \in DeliverRows(d) :
                                                  outbox_work[i].state = "DONE"})
                    /\ webhook_deliveries[d].attempt_count =< Posts(d)
  BY DEF PostsAreAskedFor
<1> DEFINE done == {i \in DeliverRows(d) : outbox_work[i].state = "DONE"}
<1>1. IsFiniteSet(done)
  <2>1. done \subseteq DeliverRows(d)
    OBVIOUS
  <2> QED  BY <2>1, FiniteRows, FS_Subset DEF IInv
<1>2. Spent(d) \subseteq done
  BY DEF Spent
<1>3. Posts(d) \in Nat
  BY FinitePosts DEF IInv
<1>4. webhook_deliveries[d].attempt_count \in Nat
  BY CountTyped DEF IInv
<1>5. Accounted(d)
  BY DEF PInv
<1> HIDE DEF done
<1>6. /\ Cardinality(Spent(d)) =< Cardinality(done)
      /\ Cardinality(Spent(d)) \in Nat /\ Cardinality(done) \in Nat
  BY <1>1, <1>2, FS_Subset, FS_CardinalityType
<1>7. Cardinality(Recording(d)) \in Nat
  BY <1>5, FS_CardinalityType DEF Accounted
<1>8. /\ Posts(d) =< Cardinality(done)
      /\ webhook_deliveries[d].attempt_count =< Posts(d)
  BY <1>3, <1>4, <1>5, <1>6, <1>7 DEF Accounted
<1> QED  BY <1>8 DEF done

-----------------------------------------------------------------------------
(* Steps that neither POST nor record. *)

(* Rows go on being deliveries' and done; none a POST was made for is      *)
(* taken up again.                                                         *)
KeepsSpent ==
  /\ RowsGrow
  /\ \A w \in Worker : \A i \in ToPost(w)' \cap DOMAIN outbox_work :
       i \in ToPost(w) \/ outbox_work[i].state # "DONE"

CountsKept ==
  /\ \A d \in DOMAIN webhook_deliveries :
       webhook_deliveries'[d].attempt_count = webhook_deliveries[d].attempt_count
  /\ \A d \in DOMAIN webhook_deliveries' \ DOMAIN webhook_deliveries :
       webhook_deliveries'[d].attempt_count = 0

(* Who is about to record was before. *)
NobodyNewRecords ==
  \A w \in Worker : wstage'[w] = "record" => wstage[w] = "record" /\ item'[w] = item[w]

(* Who was about to record still is. *)
NobodyForgets ==
  \A w \in Worker : wstage[w] = "record" => wstage'[w] = "record" /\ item'[w] = item[w]

Quiet ==
  /\ KeepsSpent /\ CountsKept /\ NobodyNewRecords
  /\ UNCHANGED sends
  /\ \A w \in Worker : item'[w] \notin batch'[w]

LEMMA FiniteRowsAfter ==
  ASSUME TInv', NEW d
  PROVE  IsFiniteSet(Spent(d)')
<1> DEFINE S == Spent(d)'
<1>1. DOMAIN outbox_work' = 1..Len(outbox_work') /\ Len(outbox_work') \in Nat
  BY LenProperties DEF TInv, TablesTypeOK
<1>2. IsFiniteSet(DOMAIN outbox_work')
  BY <1>1, FS_Interval
<1>3. S \subseteq DOMAIN outbox_work'
  BY DEF Spent, DeliverRows
<1> HIDE DEF S
<1>4. IsFiniteSet(S)
  BY <1>2, <1>3, FS_Subset
<1> QED  BY <1>4 DEF S

LEMMA SpentGrows ==
  ASSUME TInv, TInv', KeepsSpent, NEW d
  PROVE  /\ Spent(d) \subseteq Spent(d)'
         /\ Cardinality(Spent(d)) =< Cardinality(Spent(d)')
         /\ Cardinality(Spent(d)) \in Nat /\ Cardinality(Spent(d)') \in Nat
<1>1. Spent(d) \subseteq Spent(d)'
  BY DEF KeepsSpent, RowsGrow, Spent, DeliverRows
<1>2. IsFiniteSet(Spent(d)) /\ IsFiniteSet(Spent(d)')
  BY FiniteRows, FiniteRowsAfter
<1> HIDE DEF Spent
<1> QED  BY <1>1, <1>2, FS_Subset, FS_CardinalityType

(* A delivery that is not there yet was not POSTed. *)
LEMMA NoPostsYet ==
  ASSUME WorkerTypeOK, NEW d, d \notin DOMAIN webhook_deliveries
  PROVE  PostsOf(d) = {} /\ Posts(d) = 0
<1>1. ASSUME NEW n \in DOMAIN sends
      PROVE  sends[n].delivery \in DOMAIN webhook_deliveries
  <2>1. sends \in Seq(PostRecord)
    BY DEF WorkerTypeOK
  <2>2. sends[n] \in PostRecord
    BY <2>1, ElementOfSeq, LenProperties
  <2> QED  BY <2>2 DEF PostRecord
<1>2. PostsOf(d) = {}
  BY <1>1 DEF PostsOf
<1> QED  BY <1>2, FinitePosts, FS_EmptySet

(* Those about to record name rows that stay. *)
LEMMA RecordingOnlyShrinks ==
  ASSUME IInv, RowsGrow, NobodyNewRecords, NEW d
  PROVE  /\ Recording(d)' \subseteq Recording(d)
         /\ d \notin DOMAIN webhook_deliveries => Recording(d) = {}
<1>1. ASSUME NEW w \in Recording(d)'
      PROVE  w \in Recording(d)
  <2>1. w \in Worker /\ wstage[w] = "record" /\ item'[w] = item[w]
        /\ outbox_work'[item[w]].subject_id = d
    BY DEF Recording, NobodyNewRecords
  <2>2. item[w] \in DOMAIN outbox_work
    BY <2>1, InHandRefers DEF Delivering
  <2> QED  BY <2>1, <2>2 DEF Recording, RowsGrow
<1>2. \A w \in Recording(d) : d \in DOMAIN webhook_deliveries
  BY InHandRefers DEF Recording, Delivering, Subject
<1> QED  BY <1>1, <1>2

LEMMA QuietKeepsPInv ==
  ASSUME IInv, IInv', PInv, Quiet
  PROVE  PInv'
<1>1. TInv /\ TInv' /\ WorkerTypeOK /\ WorkerTypeOK'
  BY DEF IInv
<1>2. ASSUME NEW d \in DOMAIN webhook_deliveries'
      PROVE  Accounted(d)'
  <2>1. Posts(d)' = Posts(d) /\ Posts(d) \in Nat
    BY <1>1, FinitePosts DEF Quiet, Posts
  <2>2. /\ Cardinality(Spent(d)) =< Cardinality(Spent(d)')
        /\ Cardinality(Spent(d)) \in Nat /\ Cardinality(Spent(d)') \in Nat
    BY <1>1, SpentGrows DEF Quiet
  <2>3. /\ Recording(d)' \subseteq Recording(d)
        /\ d \notin DOMAIN webhook_deliveries => Recording(d) = {}
    BY RecordingOnlyShrinks DEF Quiet, KeepsSpent
  <2>4. CASE d \in DOMAIN webhook_deliveries
    <3>1. /\ Posts(d) =< Cardinality(Spent(d)) /\ IsFiniteSet(Recording(d))
          /\ webhook_deliveries[d].attempt_count + Cardinality(Recording(d)) =< Posts(d)
      BY <2>4 DEF PInv, Accounted
    <3> DEFINE R == Recording(d)
               Q == Recording(d)'
    <3>2. Q \subseteq R /\ IsFiniteSet(R)
      BY <2>3, <3>1
    <3> HIDE DEF R, Q
    <3>3. /\ IsFiniteSet(Q) /\ Cardinality(Q) =< Cardinality(R)
          /\ Cardinality(Q) \in Nat /\ Cardinality(R) \in Nat
      BY <3>2, FS_Subset, FS_CardinalityType
    <3>4. webhook_deliveries[d].attempt_count \in Nat
          /\ webhook_deliveries'[d].attempt_count = webhook_deliveries[d].attempt_count
      BY <1>1, <2>4, CountTyped DEF Quiet, CountsKept
    <3>5. webhook_deliveries'[d].attempt_count + Cardinality(Q) =< Posts(d)
      BY <2>1, <3>1, <3>3, <3>4 DEF R
    <3> QED  BY <2>1, <2>2, <3>1, <3>3, <3>5 DEF Accounted, Q
  <2>5. CASE d \notin DOMAIN webhook_deliveries
    <3>1. Recording(d)' = {} /\ Posts(d) = 0
      BY <1>1, <2>3, <2>5, NoPostsYet
    <3>2. webhook_deliveries'[d].attempt_count = 0
      BY <2>5 DEF Quiet, CountsKept
    <3>3. IsFiniteSet({}) /\ Cardinality({}) = 0
      BY FS_EmptySet
    <3> QED  BY <2>1, <2>2, <3>1, <3>2, <3>3 DEF Accounted
  <2> QED  BY <2>4, <2>5
<1> QED  BY <1>2 DEF PInv, ItemApart, Quiet

(* When nobody forgets either, an exact account stays exact. *)
LEMMA QuietKeepsCount ==
  ASSUME IInv, IInv', AttemptsCounted, Quiet, NobodyForgets
  PROVE  AttemptsCounted'
<1> SUFFICES ASSUME NEW d \in DOMAIN webhook_deliveries'
             PROVE  webhook_deliveries'[d].attempt_count + Cardinality(Recording(d)')
                      = Posts(d)'
  BY DEF AttemptsCounted
<1>1. Posts(d)' = Posts(d)
  BY DEF Quiet, Posts
<1>2. /\ Recording(d)' \subseteq Recording(d)
      /\ d \notin DOMAIN webhook_deliveries => Recording(d) = {}
  BY RecordingOnlyShrinks DEF Quiet, KeepsSpent
<1>3. CASE d \in DOMAIN webhook_deliveries
  <2>1. ASSUME NEW w \in Recording(d)
        PROVE  w \in Recording(d)'
    <3>1. w \in Worker /\ wstage'[w] = "record" /\ item'[w] = item[w]
          /\ wstage[w] = "record" /\ outbox_work[item[w]].subject_id = d
      BY DEF Recording, NobodyForgets
    <3>2. item[w] \in DOMAIN outbox_work
      BY <3>1, InHandRefers DEF Delivering
    <3> QED  BY <3>1, <3>2 DEF Recording, Quiet, KeepsSpent, RowsGrow
  <2>2. Recording(d)' = Recording(d)
    BY <1>2, <2>1
  <2> QED  BY <1>1, <1>3, <2>2 DEF AttemptsCounted, Quiet, CountsKept
<1>4. CASE d \notin DOMAIN webhook_deliveries
  <2>1. Recording(d)' = {} /\ Posts(d) = 0
    BY <1>2, <1>4, NoPostsYet DEF IInv
  <2>2. webhook_deliveries'[d].attempt_count = 0
    BY <1>4 DEF Quiet, CountsKept
  <2> QED  BY <1>1, <2>1, <2>2, FS_EmptySet
<1> QED  BY <1>3, <1>4

-----------------------------------------------------------------------------
(* The two steps that count. *)

(* A POST spends the row in hand, is one more for its delivery, and its    *)
(* worker is one more about to record it.                                  *)
LEMMA SendWrites ==
  ASSUME IInv, ItemApart, NEW w \in Worker, Send(w), NEW s, s = Subject(w)
  PROVE  /\ s \in DOMAIN webhook_deliveries
         /\ UNCHANGED <<webhook_deliveries, item, batch>>
         /\ \A d : PostsOf(d)' = PostsOf(d) \cup (IF d = s THEN {Len(sends) + 1} ELSE {})
         /\ \A d : Recording(d)' = Recording(d) \cup (IF d = s THEN {w} ELSE {})
         /\ \A d : Spent(d) \cup (IF d = s THEN {item[w]} ELSE {}) \subseteq Spent(d)'
         /\ Len(sends) + 1 \notin DOMAIN sends
         /\ w \notin Recording(s) /\ item[w] \notin Spent(s)
<1>1. PICK h \in HttpReply :
        sends' = Append(sends, Post(w, h))
  BY DEF Send
<1>2. /\ wstage[w] = "send" /\ wstage' = [wstage EXCEPT ![w] = "record"]
      /\ UNCHANGED <<webhook_deliveries, outbox_work, item, batch>>
      /\ WorkerTypeOK
  BY DEF Send, WGoTo, tables, IInv
<1>3. /\ s \in DOMAIN webhook_deliveries /\ item[w] \in DOMAIN outbox_work
      /\ item[w] \in InHand(w) /\ outbox_work[item[w]].subject_id = s
      /\ outbox_work[item[w]].kind = "DELIVER_WEBHOOK"
      /\ outbox_work[item[w]].state = "DONE"
  BY <1>2, InHandRefers, InHandRows DEF Delivering, IInv, InStep, Subject
<1> DEFINE post == Post(w, h)
           S == PostRecord
<1>4. post \in S /\ post.delivery = s /\ sends \in Seq(S) /\ sends' = Append(sends, post)
  BY <1>1, <1>2, <1>3 DEF WorkerTypeOK, Post, PostRecord
<1> HIDE DEF post, S
<1>5. /\ \A n \in DOMAIN sends : n \in DOMAIN sends' /\ sends'[n] = sends[n]
      /\ DOMAIN sends' \ DOMAIN sends = {Len(sends) + 1}
      /\ sends'[Len(sends) + 1] = post
  BY <1>4, Appended
<1>6. \A d : PostsOf(d)' = PostsOf(d) \cup (IF d = s THEN {Len(sends) + 1} ELSE {})
  BY <1>4, <1>5 DEF PostsOf
<1>7. /\ \A v \in Worker : wstage'[v] = IF v = w THEN "record" ELSE wstage[v]
      /\ \A v \in Worker : ToPost(v)' = IF v = w THEN batch[w] ELSE ToPost(v)
  <2>1. \A v \in Worker : wstage'[v] = IF v = w THEN "record" ELSE wstage[v]
    BY <1>2 DEF WorkerTypeOK
  <2> QED  BY <1>2, <2>1 DEF ToPost
<1>8. \A d : Recording(d)' = Recording(d) \cup (IF d = s THEN {w} ELSE {})
  BY <1>2, <1>3, <1>7 DEF Recording
<1>9. ToPost(w) = batch[w] \cup {item[w]}
  BY <1>2 DEF ToPost
<1>10. \A v \in Worker : item[w] \notin ToPost(v)'
  <2> SUFFICES ASSUME NEW v \in Worker
               PROVE  item[w] \notin ToPost(v)'
    OBVIOUS
  <2>1. CASE v = w
    BY <1>7, <2>1 DEF ItemApart
  <2>2. CASE v # w
    <3>1. item[w] \notin InHand(v)
      BY <1>3, <2>2 DEF IInv, RowInOneHand
    <3>2. item[w] # NoRow
      BY <1>2 DEF IInv, InStep, Delivering
    <3> QED  BY <1>7, <2>2, <3>1, <3>2 DEF ToPost, InHand
  <2> QED  BY <2>1, <2>2
<1>11. \A d : Spent(d) \cup (IF d = s THEN {item[w]} ELSE {}) \subseteq Spent(d)'
  <2>1. \A d : Spent(d) \subseteq Spent(d)'
    BY <1>2, <1>7, <1>9 DEF Spent, DeliverRows
  <2>2. item[w] \in Spent(s)'
    BY <1>2, <1>3, <1>10 DEF Spent, DeliverRows
  <2> QED  BY <2>1, <2>2
<1>12. w \notin Recording(s) /\ item[w] \notin Spent(s)
  BY <1>2, <1>9 DEF Recording, Spent
<1> QED  BY <1>2, <1>3, <1>5, <1>6, <1>8, <1>11, <1>12

LEMMA OneMore ==
  ASSUME NEW S, NEW x, IsFiniteSet(S), x \notin S
  PROVE  /\ IsFiniteSet(S \cup {x}) /\ Cardinality(S \cup {x}) = Cardinality(S) + 1
         /\ Cardinality(S) \in Nat
  BY FS_AddElement, FS_CardinalityType

LEMMA SendKeepsPInv ==
  ASSUME IInv, IInv', PInv, NEW w \in Worker, Send(w)
  PROVE  PInv' /\ (AttemptsCounted => AttemptsCounted')
<1>1. PICK s : s = Subject(w)
  OBVIOUS
<1>2. /\ s \in DOMAIN webhook_deliveries
      /\ UNCHANGED <<webhook_deliveries, item, batch>>
      /\ \A d : PostsOf(d)' = PostsOf(d) \cup (IF d = s THEN {Len(sends) + 1} ELSE {})
      /\ \A d : Recording(d)' = Recording(d) \cup (IF d = s THEN {w} ELSE {})
      /\ \A d : Spent(d) \cup (IF d = s THEN {item[w]} ELSE {}) \subseteq Spent(d)'
      /\ Len(sends) + 1 \notin DOMAIN sends
      /\ w \notin Recording(s) /\ item[w] \notin Spent(s)
  BY <1>1, SendWrites DEF PInv
<1>3. ASSUME NEW d \in DOMAIN webhook_deliveries
      PROVE  /\ Accounted(d)'
             /\ webhook_deliveries[d].attempt_count + Cardinality(Recording(d)) = Posts(d) =>
                  webhook_deliveries'[d].attempt_count + Cardinality(Recording(d)')
                    = Posts(d)'
  <2> DEFINE P == PostsOf(d)   Q == PostsOf(d)'
             R == Recording(d) U == Recording(d)'
             S == Spent(d)     T == Spent(d)'
             c == webhook_deliveries[d].attempt_count
             x == Len(sends) + 1
             k == item[w]
  <2>1. /\ IsFiniteSet(P) /\ Posts(d) = Cardinality(P)
        /\ IsFiniteSet(S) /\ IsFiniteSet(R) /\ c \in Nat
        /\ Cardinality(P) =< Cardinality(S) /\ c + Cardinality(R) =< Cardinality(P)
    <3>1. IsFiniteSet(P) /\ Posts(d) = Cardinality(P)
      BY FinitePosts DEF IInv
    <3>2. IsFiniteSet(S)
      BY FiniteRows DEF IInv
    <3>3. c \in Nat
      BY CountTyped DEF IInv
    <3> QED  BY <3>1, <3>2, <3>3 DEF PInv, Accounted
  <2>2. IsFiniteSet(Q) /\ Posts(d)' = Cardinality(Q) /\ IsFiniteSet(T)
    <3>1. WorkerTypeOK' /\ TInv'
      BY DEF IInv
    <3>2. IsFiniteSet(PostsOf(d)') /\ Posts(d)' = Cardinality(PostsOf(d)')
      <4>1. PostsOf(d)' \subseteq DOMAIN sends'
        BY DEF PostsOf
      <4>2. DOMAIN sends' = 1..Len(sends') /\ Len(sends') \in Nat
        BY <3>1, LenProperties DEF WorkerTypeOK
      <4>3. IsFiniteSet(DOMAIN sends')
        BY <4>2, FS_Interval
      <4>4. Posts(d)' = Cardinality(PostsOf(d)')
        BY DEF Posts, PostsOf
      <4> HIDE DEF PostsOf
      <4>5. IsFiniteSet(Q)
        BY <4>1, <4>3, FS_Subset
      <4> QED  BY <4>4, <4>5
    <3>3. IsFiniteSet(T)
      BY <3>1, FiniteRowsAfter
    <3> QED  BY <3>2, <3>3
  <2>3. /\ Q = P \cup (IF d = s THEN {x} ELSE {})
        /\ U = R \cup (IF d = s THEN {w} ELSE {})
        /\ S \cup (IF d = s THEN {k} ELSE {}) \subseteq T
        /\ x \notin P
        /\ d = s => w \notin R /\ k \notin S
        /\ webhook_deliveries'[d].attempt_count = c
    BY <1>2 DEF PostsOf
  <2> HIDE DEF P, Q, R, U, S, T, c, x, k
  <2>4. /\ IsFiniteSet(U) /\ Cardinality(Q) =< Cardinality(T)
        /\ c + Cardinality(U) =< Cardinality(Q)
        /\ c + Cardinality(R) = Cardinality(P) => c + Cardinality(U) = Cardinality(Q)
    <3>1. CASE d = s
      <4>1. /\ Cardinality(Q) = Cardinality(P) + 1 /\ Cardinality(P) \in Nat
            /\ IsFiniteSet(U)
            /\ Cardinality(U) = Cardinality(R) + 1 /\ Cardinality(R) \in Nat
            /\ Cardinality(S \cup {k}) = Cardinality(S) + 1 /\ Cardinality(S) \in Nat
        BY <2>1, <2>3, <3>1, OneMore
      <4>2. Cardinality(S \cup {k}) =< Cardinality(T) /\ Cardinality(T) \in Nat
        BY <2>2, <2>3, <3>1, FS_Subset, FS_CardinalityType
      <4> QED  BY <2>1, <4>1, <4>2
    <3>2. CASE d # s
      <4>1. Q = P /\ U = R /\ S \subseteq T
        BY <2>3, <3>2
      <4>2. /\ Cardinality(S) =< Cardinality(T) /\ Cardinality(T) \in Nat
            /\ Cardinality(S) \in Nat /\ Cardinality(P) \in Nat
        BY <2>1, <2>2, <4>1, FS_Subset, FS_CardinalityType
      <4> QED  BY <2>1, <4>1, <4>2
    <3> QED  BY <3>1, <3>2
  <2> QED  BY <2>1, <2>2, <2>3, <2>4 DEF Accounted, P, Q, R, U, S, T, c
<1>4. ItemApart'
  BY <1>2 DEF PInv, ItemApart
<1> QED  BY <1>2, <1>3, <1>4 DEF PInv, AttemptsCounted

(* No row has number NoRow. *)
LEMMA NoRowIsNone ==
  ASSUME TInv
  PROVE  NoRow \notin DOMAIN outbox_work
  BY LenProperties DEF TInv, TablesTypeOK, NoRow

(* A worker that ends its item or its batch takes no row up. *)
LEMMA EndingKeepsSpent ==
  ASSUME IInv, ItemApart, NEW w \in Worker, TablesGrow,
         ItemDone(w) \/ EndBatch(w), UNCHANGED sends
  PROVE  /\ KeepsSpent /\ NobodyNewRecords /\ ItemApart'
         /\ \A v \in Worker \ {w} : wstage'[v] = wstage[v] /\ item'[v] = item[v]
         /\ wstage'[w] # "record"
<1>1. /\ \A v \in Worker \ {w} :
           wstage'[v] = wstage[v] /\ item'[v] = item[v] /\ batch'[v] = batch[v]
      /\ wstage'[w] # "record" /\ item'[w] = NoRow /\ batch'[w] \subseteq batch[w]
  BY DEF IInv, WorkerTypeOK, ItemDone, EndBatch, ClearItem, WGoTo
<1>2. \A v \in Worker : \A i \in ToPost(v)' \cap DOMAIN outbox_work : i \in ToPost(v)
  BY <1>1, NoRowIsNone DEF ToPost, IInv
<1>3. KeepsSpent
  BY <1>2 DEF KeepsSpent, TablesGrow
<1>4. ItemApart'
  <2>1. NoRow \notin batch[w]
    BY NoRowIsNone DEF IInv, WorkerTypeOK
  <2> QED  BY <1>1, <2>1 DEF ItemApart
<1> QED  BY <1>1, <1>3, <1>4 DEF NobodyNewRecords

LEMMA OneLess ==
  ASSUME NEW S, NEW x, IsFiniteSet(S), x \in S
  PROVE  /\ IsFiniteSet(S \ {x}) /\ Cardinality(S \ {x}) = Cardinality(S) - 1
         /\ Cardinality(S) \in Nat
  BY FS_RemoveElement, FS_CardinalityType

(* An attempt that is recorded is counted, and its worker is no longer     *)
(* about to record it.                                                     *)
LEMMA RecordKeepsPInv ==
  ASSUME IInv, IInv', PInv, NEW w \in Worker, RecordAttempt(w), UNCHANGED clock
  PROVE  PInv' /\ (AttemptsCounted => AttemptsCounted')
<1>1. PICK s : s = Subject(w)
  OBVIOUS
<1>2. /\ wstage[w] = "record" /\ ItemDone(w) /\ UNCHANGED <<outbox_work, sends>>
      /\ w \in Recording(s)
  BY <1>1 DEF RecordAttempt, Recording, Subject
<1>3. /\ TablesGrow
      /\ DOMAIN webhook_deliveries' = DOMAIN webhook_deliveries
      /\ \A e \in DOMAIN webhook_deliveries :
           e # s => webhook_deliveries'[e] = webhook_deliveries[e]
      /\ webhook_deliveries'[s].attempt_count = webhook_deliveries[s].attempt_count + 1
  BY <1>1, RecordAttemptGrows
<1>4. /\ KeepsSpent /\ ItemApart'
      /\ \A v \in Worker \ {w} : wstage'[v] = wstage[v] /\ item'[v] = item[v]
      /\ wstage'[w] # "record"
  BY <1>2, <1>3, EndingKeepsSpent DEF PInv
<1>5. \A d : Recording(d)' = Recording(d) \ (IF d = s THEN {w} ELSE {})
  BY <1>1, <1>2, <1>4 DEF Recording, Subject
<1>6. ASSUME NEW d \in DOMAIN webhook_deliveries
      PROVE  /\ Accounted(d)'
             /\ webhook_deliveries[d].attempt_count + Cardinality(Recording(d)) = Posts(d) =>
                  webhook_deliveries'[d].attempt_count + Cardinality(Recording(d)')
                    = Posts(d)'
  <2> DEFINE R == Recording(d) U == Recording(d)'
             c == webhook_deliveries[d].attempt_count
             b == webhook_deliveries'[d].attempt_count
  <2>1. Posts(d)' = Posts(d) /\ Posts(d) \in Nat
    BY <1>2, FinitePosts DEF Posts, IInv
  <2>2. /\ Cardinality(Spent(d)) =< Cardinality(Spent(d)')
        /\ Cardinality(Spent(d)) \in Nat /\ Cardinality(Spent(d)') \in Nat
    BY <1>4, SpentGrows DEF IInv
  <2>3. /\ IsFiniteSet(R) /\ c \in Nat /\ Posts(d) =< Cardinality(Spent(d))
        /\ c + Cardinality(R) =< Posts(d)
    BY CountTyped DEF IInv, PInv, Accounted
  <2>4. /\ U = R \ (IF d = s THEN {w} ELSE {})
        /\ d = s => w \in R /\ b = c + 1
        /\ d # s => b = c
    BY <1>2, <1>3, <1>5
  <2> HIDE DEF R, U, c, b
  <2>5. IsFiniteSet(U) /\ b + Cardinality(U) = c + Cardinality(R)
    <3>1. CASE d = s
      BY <2>3, <2>4, <3>1, OneLess
    <3>2. CASE d # s
      <4>1. U = R /\ b = c
        BY <2>4, <3>2
      <4> QED  BY <2>3, <4>1
    <3> QED  BY <3>1, <3>2
  <2>6. Posts(d)' =< Cardinality(Spent(d)')
    BY <2>1, <2>2, <2>3
  <2> QED  BY <2>1, <2>3, <2>5, <2>6 DEF Accounted, R, U, c, b
<1> QED  BY <1>3, <1>4, <1>6 DEF PInv, AttemptsCounted

-----------------------------------------------------------------------------
(* Every other step is quiet. *)

(* Deliveries that are added have no attempts. *)
LEMMA AddedUncounted ==
  ASSUME TInv, NEW sub \in Nat, NEW id \in Nat, NEW st \in Status, NEW t \in Nat,
         webhook_deliveries' = DeliveriesWith(sub, id, st, t)
  PROVE  CountsKept
<1>1. NewDelivery(sub, id, st, t).attempt_count = 0
  BY DEF NewDelivery
<1> QED  BY <1>1, DeliveriesWithRows DEF CountsKept

(* When no worker moves. *)
LEMMA RestingIsQuiet ==
  ASSUME ItemApart, RowsGrow, CountsKept, UNCHANGED workerVars
  PROVE  Quiet /\ NobodyForgets
  BY DEF ItemApart, workerVars, Quiet, KeepsSpent, ToPost, NobodyNewRecords, NobodyForgets

LEMMA CreateIsQuiet ==
  ASSUME IInv, ItemApart, Inserts
  PROVE  Quiet /\ NobodyForgets
<1>1. PICK s \in Scope, b \in Body, t \in Nat, sub \in Nat : InsertPayment(s, b, t, sub)
  BY DEF Inserts
<1>2. /\ UNCHANGED <<clock, webhook_subscriptions, workerVars, retryVars>>
      /\ idempotency_keys' \in [Scope -> IdempotencyRow]
  BY DEF Inserts
<1>3. PICK id : id = Len(payments) + 1
  OBVIOUS
<1>4. /\ id \in Nat /\ TablesGrow /\ "PROCESSING" \in Status
      /\ webhook_deliveries' = DeliveriesWith(sub, id, "PROCESSING", t)
  BY <1>1, <1>2, <1>3, CreationWrites DEF Status
<1>5. CountsKept
  BY <1>4, AddedUncounted DEF IInv
<1> QED  BY <1>2, <1>4, <1>5, RestingIsQuiet DEF TablesGrow

LEMMA RetryingIsQuiet ==
  ASSUME IInv, ItemApart, Retrying
  PROVE  Quiet /\ NobodyForgets
<1>1. PICK c \in RetryRequest : RetryLoad(c) \/ RetryCommit(c) \/ RetryFails(c)
  BY DEF Retrying, RetryNext
<1>2. UNCHANGED clock /\ UNCHANGED workerVars
  BY DEF Retrying
<1>3. CASE UNCHANGED tables
  <2>1. RowsGrow /\ CountsKept
    BY <1>3 DEF tables, RowsGrow, CountsKept
  <2> QED  BY <1>2, <2>1, RestingIsQuiet
<1>4. CASE rstage[c] = "enqueue" /\ WriteRetry(c)
  <2>1. RowsGrow
    BY <1>2, <1>4, WriteRetryGrows DEF TablesGrow
  <2>2. CountsKept
    <3>1. /\ DOMAIN webhook_deliveries' = DOMAIN webhook_deliveries
          /\ \A d \in DOMAIN webhook_deliveries :
               webhook_deliveries'[d] =
                 IF d = rdelivery[c] THEN [webhook_deliveries[d] EXCEPT !.status = "PENDING"]
                                     ELSE webhook_deliveries[d]
      BY <1>4 DEF WriteRetry
    <3>2. \A d \in DOMAIN webhook_deliveries : webhook_deliveries[d] \in DeliveryRow
      BY ElementOfSeq, LenProperties DEF IInv, TInv, TablesTypeOK
    <3> QED  BY <3>1, <3>2 DEF CountsKept, DeliveryRow
  <2> QED  BY <1>2, <2>1, <2>2, RestingIsQuiet
<1> QED  BY <1>1, <1>3, <1>4 DEF RetryLoad, RetryCommit, RetryFails

LEMMA ElsewhereIsQuiet ==
  ASSUME ItemApart, Subscription \/ Passing \/ Untouched
  PROVE  Quiet /\ NobodyForgets
<1>1. UNCHANGED <<webhook_deliveries, outbox_work>> /\ UNCHANGED workerVars
  BY DEF Subscription, SubscriptionNext, Subscribe, Passing, Untouched, tables
<1>2. RowsGrow /\ CountsKept
  BY <1>1 DEF RowsGrow, CountsKept
<1> QED  BY <1>1, <1>2, RestingIsQuiet

LEMMA SettlementUncounted ==
  ASSUME IInv, NEW w \in Worker, Settles(w)
  PROVE  TablesGrow /\ CountsKept
<1>1. /\ Subject(w) \in Nat /\ Settled(w).status \in Status
      /\ wnow[w] \in Nat /\ wtarget[w] \in Nat /\ TablesGrow
      /\ webhook_deliveries' =
           DeliveriesWith(wtarget[w], Subject(w), Settled(w).status, wnow[w])
  BY SettlementWrites
<1> QED  BY <1>1, AddedUncounted DEF IInv

(* A worker that ends its item without recording, or its batch.            *)
LEMMA EndingIsQuiet ==
  ASSUME IInv, ItemApart, NEW w \in Worker, TablesGrow, CountsKept,
         ItemDone(w) \/ EndBatch(w), UNCHANGED sends
  PROVE  Quiet /\ (wstage[w] # "record" => NobodyForgets)
<1>1. /\ KeepsSpent /\ NobodyNewRecords /\ ItemApart'
      /\ \A v \in Worker \ {w} : wstage'[v] = wstage[v] /\ item'[v] = item[v]
  BY EndingKeepsSpent
<1> QED  BY <1>1 DEF Quiet, NobodyForgets, ItemApart

(* A worker that goes on to another stage, with the rows it had or with    *)
(* new ones that are not done.                                             *)
LEMMA MovingIsQuiet ==
  ASSUME ItemApart, NEW w \in Worker, RowsGrow, UNCHANGED <<webhook_deliveries, sends>>,
         \A v \in Worker \ {w} :
           wstage'[v] = wstage[v] /\ item'[v] = item[v] /\ batch'[v] = batch[v],
         wstage[w] # "record", wstage'[w] # "record", item'[w] \notin batch'[w],
         \A i \in (batch'[w] \cup {item'[w]}) \cap DOMAIN outbox_work :
           i \in batch[w] \cup {item[w]} \/ outbox_work[i].state # "DONE"
  PROVE  Quiet /\ NobodyForgets
<1>1. KeepsSpent
  BY DEF KeepsSpent, ToPost
<1>2. CountsKept /\ NobodyNewRecords /\ NobodyForgets
  BY DEF CountsKept, NobodyNewRecords, NobodyForgets
<1> QED  BY <1>1, <1>2 DEF Quiet, ItemApart

LEMMA WorkIsQuiet ==
  ASSUME IInv, ItemApart, NEW w \in Worker, WorkerStep(w), UNCHANGED clock,
         ~Send(w), ~RecordAttempt(w)
  PROVE  Quiet /\ NobodyForgets
<1>1. WorkerTypeOK /\ InStep(w) /\ TInv /\ NoRow \notin DOMAIN outbox_work
  BY NoRowIsNone DEF IInv
<1>2. /\ UNCHANGED outbox_work => RowsGrow
      /\ UNCHANGED tables => TablesGrow /\ CountsKept
  <2>1. UNCHANGED outbox_work => RowsGrow
    BY DEF RowsGrow
  <2>2. UNCHANGED tables => TablesGrow /\ CountsKept
    BY TablesUntouched DEF CountsKept, tables
  <2> QED  BY <2>1, <2>2
<1>3. CASE ClaimDue(w)
  <2>1. PICK S \in SUBSET {i \in DOMAIN outbox_work : outbox_work[i].state = "PENDING"} :
          batch' = [batch EXCEPT ![w] = S]
    BY <1>3 DEF ClaimDue, Batches, Claimable
  <2>2. /\ wstage[w] = "idle" /\ wstage' = [wstage EXCEPT ![w] = "claiming"]
        /\ UNCHANGED <<webhook_deliveries, outbox_work, sends, item>>
    BY <1>3 DEF ClaimDue, WGoTo, tables
  <2>3. item[w] = NoRow
    BY <1>1, <2>2 DEF InStep
  <2>4. /\ \A v \in Worker \ {w} : wstage'[v] = wstage[v] /\ batch'[v] = batch[v]
        /\ batch'[w] = S /\ wstage'[w] = "claiming" /\ item'[w] = NoRow
    BY <1>1, <2>1, <2>2, <2>3 DEF WorkerTypeOK
  <2>5. \A i \in (S \cup {NoRow}) \cap DOMAIN outbox_work : outbox_work[i].state # "DONE"
    BY <1>1
  <2>6. NoRow \notin S
    BY <1>1
  <2> QED  BY <1>2, <2>2, <2>4, <2>5, <2>6, MovingIsQuiet
<1>4. CASE ClaimCommits(w)
  <2>1. /\ wstage[w] = "claiming" /\ wstage' = [wstage EXCEPT ![w] = "next"]
        /\ UNCHANGED <<webhook_deliveries, sends, item, batch>>
        /\ MarkDone(batch[w])
        /\ UNCHANGED <<idempotency_keys, payments, webhook_subscriptions>>
    BY <1>4 DEF ClaimCommits, WGoTo, workerRegisters
  <2>2. RowsGrow
    BY <1>1, <2>1, MarkDoneGrows DEF TablesGrow
  <2>3. /\ \A v \in Worker \ {w} : wstage'[v] = wstage[v]
        /\ wstage'[w] = "next"
    BY <1>1, <2>1 DEF WorkerTypeOK
  <2> QED  BY <2>1, <2>2, <2>3, MovingIsQuiet DEF ItemApart
<1>5. CASE NextItem(w)
  <2>1. PICK i \in batch[w] :
          /\ item' = [item EXCEPT ![w] = i]
          /\ batch' = [batch EXCEPT ![w] = batch[w] \ {i}]
          /\ \E st \in {"settle", "deliver"} : wstage' = [wstage EXCEPT ![w] = st]
    BY <1>5 DEF NextItem, WGoTo
  <2>2. wstage[w] = "next" /\ UNCHANGED <<webhook_deliveries, outbox_work, sends>>
    BY <1>5 DEF NextItem, tables
  <2>3. /\ \A v \in Worker \ {w} :
             wstage'[v] = wstage[v] /\ item'[v] = item[v] /\ batch'[v] = batch[v]
        /\ item'[w] = i /\ batch'[w] = batch[w] \ {i} /\ wstage'[w] # "record"
    BY <1>1, <2>1 DEF WorkerTypeOK
  <2> QED  BY <1>2, <2>2, <2>3, MovingIsQuiet
<1>6. CASE /\ ItemDone(w) \/ EndBatch(w) 
           /\ wstage[w] # "record" /\ UNCHANGED tables /\ UNCHANGED sends
  BY <1>2, <1>6, EndingIsQuiet
<1>7. CASE SettleCommit(w)
  <2>1. Settles(w) /\ wstage[w] = "commit" /\ ItemDone(w) /\ UNCHANGED sends
    BY <1>7, EndOfWorkRests DEF SettleCommit, Settles
  <2> QED  BY <2>1, SettlementUncounted, EndingIsQuiet
<1>8. ASSUME NEW st \in {"update", "commit", "send"}, wstage' = [wstage EXCEPT ![w] = st],
             wstage[w] # "record", UNCHANGED tables, UNCHANGED <<item, batch, sends>>
      PROVE  Quiet /\ NobodyForgets
  <2>1. /\ \A v \in Worker \ {w} : wstage'[v] = wstage[v]
        /\ wstage'[w] # "record"
    BY <1>1, <1>8 DEF WorkerTypeOK
  <2> QED  BY <1>2, <1>8, <2>1, MovingIsQuiet DEF tables, ItemApart
<1>9. CASE SettleLoad(w) \/ BatchDone(w)
  BY <1>6, <1>8, <1>9 DEF SettleLoad, BatchDone, WGoTo
<1>10. CASE SettleUpdate(w) \/ DeliverLoad(w)
  BY <1>8, <1>10 DEF SettleUpdate, DeliverLoad, WGoTo, workerRegisters
<1> QED  BY <1>3, <1>4, <1>5, <1>7, <1>9, <1>10 DEF WorkerStep

LEMMA FaultsAreQuiet ==
  ASSUME IInv, ItemApart, Faults
  PROVE  Quiet
<1>1. PICK w \in Worker : WorkerFails(w) \/ WorkerFailsAfter(w)
  BY DEF Faults
<1>2. EndBatch(w) /\ UNCHANGED <<clock, sends>>
  BY <1>1 DEF Faults, WorkerFails, WorkerFailsAfter
<1>3. TablesGrow /\ CountsKept
  <2>1. CASE UNCHANGED tables
    BY <1>2, <2>1, TablesUntouched DEF CountsKept, tables
  <2>2. CASE /\ MarkDone(batch[w])
             /\ UNCHANGED <<idempotency_keys, payments, webhook_subscriptions,
                            webhook_deliveries>>
    BY <1>2, <2>2, MarkDoneGrows DEF CountsKept, IInv
  <2>3. CASE wstage[w] = "commit" /\ WriteSettlement(w)
    <3>1. Settles(w)
      BY <1>2, <2>3, EndOfWorkRests DEF Settles
    <3> QED  BY <3>1, SettlementUncounted
  <2> QED  BY <1>1, <2>1, <2>2, <2>3 DEF WorkerFails, WorkerFailsAfter
<1> QED  BY <1>2, <1>3, EndingIsQuiet

-----------------------------------------------------------------------------

LEMMA StepKeepsPInv ==
  ASSUME PipelineInv, PipelineInv', PInv, [Next]_vars
  PROVE  PInv'
<1>0. IInv /\ IInv'
  BY DEF PipelineInv
<1>1. CASE Quiet
  BY <1>0, <1>1, QuietKeepsPInv
<1>2. CASE Faults
  BY <1>0, <1>1, <1>2, FaultsAreQuiet DEF PInv
<1>3. ASSUME NEW w \in Worker, Working(w)
      PROVE  PInv'
  <2>1. WorkerStep(w) /\ UNCHANGED clock
    BY <1>3 DEF Working
  <2> QED  BY <1>0, <1>1, <2>1, WorkIsQuiet, SendKeepsPInv, RecordKeepsPInv DEF PInv
<1>4. CASE Inserts \/ Retrying \/ Subscription \/ Passing \/ Untouched
  BY <1>0, <1>1, <1>4, CreateIsQuiet, RetryingIsQuiet, ElsewhereIsQuiet DEF PInv
<1> QED  BY <1>2, <1>3, <1>4, StepIs

LEMMA InitPInv ==
  ASSUME Init
  PROVE  PInv /\ AttemptsCounted /\ NothingStranded
<1>1. DOMAIN webhook_deliveries = {} /\ DOMAIN payments = {}
  BY DEF Init, TablesInit
<1>2. IInv
  BY InitIInv DEF Init
<1>3. ItemApart
  BY DEF Init, WorkerInit, ItemApart
<1> QED  BY <1>1, <1>3 DEF PInv, AttemptsCounted, NothingStranded

(* Whatever crashes, nobody is called without being asked for, and no      *)
(* attempt is recorded that was not made.                                  *)
THEOREM EveryPostAskedFor == Spec => []PostsAreAskedFor
<1>1. Init => PInv
  BY InitPInv
<1>2. PipelineInv /\ PipelineInv' /\ PInv /\ [Next]_vars => PInv'
  BY StepKeepsPInv
<1>3. PipelineInv /\ PInv => PostsAreAskedFor
  BY PInvIsEnough DEF PipelineInv
<1> QED  BY <1>1, <1>2, <1>3, Invariance, PTL DEF Spec

-----------------------------------------------------------------------------
(* What holds while no worker fails: FaultsUntil is before the first       *)
(* moment of the clock.                                                    *)

LEMMA NoFaults ==
  ASSUME IInv, FaultsUntil < 0
  PROVE  ~Faults
<1>1. clock \in Nat /\ FaultsUntil \in Int
  BY WorkerFaultsAssumption DEF IInv, TInv, TablesTypeOK
<1>2. ~(clock =< FaultsUntil)
  BY <1>1
<1> QED  BY <1>2 DEF Faults, WorkerFails, WorkerFailsAfter

LEMMA StepKeepsCount ==
  ASSUME PipelineInv, PipelineInv', PInv, AttemptsCounted, [Next]_vars, FaultsUntil < 0
  PROVE  AttemptsCounted'
<1>0. IInv /\ IInv'
  BY DEF PipelineInv
<1>1. CASE Quiet /\ NobodyForgets
  BY <1>0, <1>1, QuietKeepsCount
<1>2. ASSUME NEW w \in Worker, Working(w)
      PROVE  AttemptsCounted'
  <2>1. WorkerStep(w) /\ UNCHANGED clock
    BY <1>2 DEF Working
  <2> QED  BY <1>0, <1>1, <2>1, WorkIsQuiet, SendKeepsPInv, RecordKeepsPInv DEF PInv
<1>3. CASE Inserts \/ Retrying \/ Subscription \/ Passing \/ Untouched
  BY <1>0, <1>1, <1>3, CreateIsQuiet, RetryingIsQuiet, ElsewhereIsQuiet DEF PInv
<1> QED  BY <1>0, <1>2, <1>3, NoFaults, StepIs

(* While no worker fails, attempt_count is the number of POSTs but for     *)
(* those about to be recorded, whatever retries and however many workers   *)
(* at the same delivery.                                                   *)
THEOREM EveryPostCounted ==
  ASSUME FaultsUntil < 0
  PROVE  Spec => []AttemptsCounted
<1>1. Init => PInv /\ AttemptsCounted
  BY InitPInv
<1>2. PipelineInv /\ PipelineInv' /\ PInv /\ [Next]_vars => PInv'
  BY StepKeepsPInv
<1>3. PipelineInv /\ PipelineInv' /\ PInv /\ AttemptsCounted /\ [Next]_vars => AttemptsCounted'
  BY StepKeepsCount
<1> QED  BY <1>1, <1>2, <1>3, Invariance, PTL DEF Spec

-----------------------------------------------------------------------------
(* That nothing is stranded. *)

(* Row i is still to be done: by whoever claims it or by who has it.       *)
Waiting(i) == outbox_work[i].state = "PENDING" \/ \E w \in Worker : i \in InHand(w)

(* What row i is for is finished. *)
Served(i) ==
  IF outbox_work[i].kind = "SETTLE_PAYMENT"
  THEN payments[outbox_work[i].subject_id].status # "PROCESSING"
  ELSE webhook_deliveries[outbox_work[i].subject_id].status # "PENDING"

(* A step that drops no row before it is served and leaves nothing         *)
(* unfinished for which no row waits.                                      *)
DropsNothing == \A i \in DOMAIN outbox_work : Waiting(i) => Waiting(i)' \/ Served(i)'

PaymentsAwaited ==
  \A i \in DOMAIN payments' :
    payments'[i].status = "PROCESSING" =>
      \/ i \in DOMAIN payments /\ payments[i].status = "PROCESSING"
      \/ Awaited("SETTLE_PAYMENT", i)'

DeliveriesAwaited ==
  \A d \in DOMAIN webhook_deliveries' :
    webhook_deliveries'[d].status = "PENDING" =>
      \/ d \in DOMAIN webhook_deliveries /\ webhook_deliveries[d].status = "PENDING"
      \/ Awaited("DELIVER_WEBHOOK", d)'

StrandsNothing == RowsGrow /\ DropsNothing /\ PaymentsAwaited /\ DeliveriesAwaited

LEMMA AwaitedIs ==
  \A kind, subject :
    Awaited(kind, subject) <=>
      \E i \in DOMAIN outbox_work :
        /\ outbox_work[i].kind = kind /\ outbox_work[i].subject_id = subject
        /\ Waiting(i)
  BY DEF Awaited, Waiting

LEMMA NothingGetsStranded ==
  ASSUME NothingStranded, StrandsNothing
  PROVE  NothingStranded'
<1>1. ASSUME NEW i \in DOMAIN payments', payments'[i].status = "PROCESSING"
      PROVE  Awaited("SETTLE_PAYMENT", i)'
  <2>1. CASE i \in DOMAIN payments /\ payments[i].status = "PROCESSING"
    <3>1. PICK n \in DOMAIN outbox_work :
            /\ outbox_work[n].kind = "SETTLE_PAYMENT" /\ outbox_work[n].subject_id = i
            /\ Waiting(n)
      BY <2>1, AwaitedIs DEF NothingStranded
    <3>2. /\ n \in DOMAIN outbox_work' /\ outbox_work'[n].kind = "SETTLE_PAYMENT"
          /\ outbox_work'[n].subject_id = i
      BY <3>1 DEF StrandsNothing, RowsGrow
    <3>3. Waiting(n)'
      BY <1>1, <3>1, <3>2 DEF StrandsNothing, DropsNothing, Served
    <3> QED  BY <3>2, <3>3 DEF Awaited, Waiting
  <2> QED  BY <1>1, <2>1 DEF StrandsNothing, PaymentsAwaited
<1>2. ASSUME NEW d \in DOMAIN webhook_deliveries', webhook_deliveries'[d].status = "PENDING"
      PROVE  Awaited("DELIVER_WEBHOOK", d)'
  <2>1. CASE d \in DOMAIN webhook_deliveries /\ webhook_deliveries[d].status = "PENDING"
    <3>1. PICK n \in DOMAIN outbox_work :
            /\ outbox_work[n].kind = "DELIVER_WEBHOOK" /\ outbox_work[n].subject_id = d
            /\ Waiting(n)
      BY <2>1, AwaitedIs DEF NothingStranded
    <3>2. /\ n \in DOMAIN outbox_work' /\ outbox_work'[n].kind = "DELIVER_WEBHOOK"
          /\ outbox_work'[n].subject_id = d
      BY <3>1 DEF StrandsNothing, RowsGrow
    <3>3. Waiting(n)'
      BY <1>2, <3>1, <3>2 DEF StrandsNothing, DropsNothing, Served
    <3> QED  BY <3>2, <3>3 DEF Awaited, Waiting
  <2> QED  BY <1>2, <2>1 DEF StrandsNothing, DeliveriesAwaited
<1> QED  BY <1>1, <1>2 DEF NothingStranded

(* What is appended to the outbox starts PENDING. *)
StartsPending ==
  \A i \in DOMAIN outbox_work' \ DOMAIN outbox_work : outbox_work'[i].state = "PENDING"

(* Rows stay as they are, new ones are PENDING.                            *)
OnlyAsks ==
  /\ outbox_work' \in Seq(OutboxRow)
  /\ \A i \in DOMAIN outbox_work : i \in DOMAIN outbox_work' /\ outbox_work'[i] = outbox_work[i]
  /\ StartsPending

LEMMA WorkStartsPending ==
  ASSUME TInv, NEW id \in Nat, NEW sub \in Nat, NEW t \in Nat
  PROVE  /\ SettleWork(id, t) \in Seq(OutboxRow)
         /\ \A k \in DOMAIN SettleWork(id, t) : SettleWork(id, t)[k].state = "PENDING"
         /\ DeliverWork(sub, t) \in Seq(OutboxRow)
         /\ \A k \in DOMAIN DeliverWork(sub, t) : DeliverWork(sub, t)[k].state = "PENDING"
<1>1. NewWork("SETTLE_PAYMENT", id, t + ProcessingDelay) \in OutboxRow
  BY DelayAssumption DEF NewWork, OutboxRow, OutboxKind
<1>2. DeliverWork(sub, t) \in Seq(OutboxRow)
  BY DeliverWorkRows
<1> QED  BY <1>1, <1>2 DEF SettleWork, DeliverWork, NewWork

(* A delivery comes with the row that asks for its attempt. *)
LEMMA DeliveryAsksForWork ==
  ASSUME TInv, NEW rows \in Seq(OutboxRow), NEW sub \in Nat, NEW id \in Nat,
         NEW st \in Status, NEW t \in Nat,
         webhook_deliveries' = DeliveriesWith(sub, id, st, t),
         outbox_work' = rows \o DeliverWork(sub, t)
  PROVE  DeliveriesAwaited
<1> SUFFICES ASSUME NEW d \in DOMAIN webhook_deliveries' \ DOMAIN webhook_deliveries
             PROVE  Awaited("DELIVER_WEBHOOK", d)'
  BY DeliveriesWithRows DEF DeliveriesAwaited
<1> DEFINE row == NewWork("DELIVER_WEBHOOK", Len(webhook_deliveries) + 1, t)
           n == Len(rows) + 1
<1>1. d = Len(webhook_deliveries) + 1 /\ sub # NoSubscription
  BY DeliveriesWithRows DEF DeliveriesWith
<1>2. row \in OutboxRow
  <2>1. Len(webhook_deliveries) + 1 \in Nat
    BY DEF TInv, TablesTypeOK
  <2> QED  BY <2>1 DEF NewWork, OutboxRow, OutboxKind
<1>3. outbox_work' = rows \o <<row>>
  BY <1>1 DEF DeliverWork
<1>4. /\ row.kind = "DELIVER_WEBHOOK" /\ row.subject_id = d /\ row.state = "PENDING"
  BY <1>1 DEF NewWork
<1> HIDE DEF row
<1>5. n \in DOMAIN outbox_work' /\ outbox_work'[n] = row
  BY <1>2, <1>3, ConcatProperties, LenProperties
<1> QED  BY <1>4, <1>5 DEF Awaited

LEMMA PendingConcatenated ==
  ASSUME NEW s \in Seq(OutboxRow), NEW t \in Seq(OutboxRow),
         \A k \in DOMAIN t : t[k].state = "PENDING"
  PROVE  /\ s \o t \in Seq(OutboxRow)
         /\ \A i \in DOMAIN s : i \in DOMAIN (s \o t) /\ (s \o t)[i] = s[i]
         /\ \A i \in DOMAIN (s \o t) \ DOMAIN s : (s \o t)[i].state = "PENDING"
<1>1. ASSUME NEW i \in DOMAIN (s \o t) \ DOMAIN s
      PROVE  (s \o t)[i].state = "PENDING"
  <2>1. PICK k : k = i - Len(s)
    OBVIOUS
  <2>2. k \in DOMAIN t /\ (s \o t)[i] = t[k]
    BY <2>1, Concatenated
  <2> QED  BY <2>2
<1> QED  BY <1>1, Concatenated

(* What a creation asks for: the settlement, and the attempt at its event. *)
LEMMA CreationAsks ==
  ASSUME IInv, NEW s \in Scope, NEW b \in Body, NEW t \in Nat, NEW sub \in Nat,
         InsertPayment(s, b, t, sub)
  PROVE  /\ OnlyAsks
         /\ \E rows \in Seq(OutboxRow) :
              /\ \A i \in DOMAIN outbox_work : i \in DOMAIN rows /\ rows[i] = outbox_work[i]
              /\ outbox_work' = rows \o DeliverWork(sub, t)
<1>0. PICK id : id = Len(payments) + 1
  OBVIOUS
<1>1. id \in Nat
  BY <1>0, LenProperties DEF IInv, TInv, TablesTypeOK
<1>2. outbox_work' = (outbox_work \o SettleWork(id, t)) \o DeliverWork(sub, t)
  BY <1>0 DEF InsertPayment
<1> DEFINE first == SettleWork(id, t)
           last == DeliverWork(sub, t)
           rows == outbox_work \o first
<1>3. /\ outbox_work \in Seq(OutboxRow)
      /\ first \in Seq(OutboxRow) /\ \A k \in DOMAIN first : first[k].state = "PENDING"
      /\ last \in Seq(OutboxRow) /\ \A k \in DOMAIN last : last[k].state = "PENDING"
  BY <1>1, WorkStartsPending DEF IInv, TInv, TablesTypeOK
<1> HIDE DEF first, last
<1>4. /\ rows \in Seq(OutboxRow)
      /\ \A i \in DOMAIN outbox_work : i \in DOMAIN rows /\ rows[i] = outbox_work[i]
      /\ \A i \in DOMAIN rows \ DOMAIN outbox_work : rows[i].state = "PENDING"
  BY <1>3, PendingConcatenated
<1>5. outbox_work' = rows \o last
  BY <1>2 DEF first, last
<1> HIDE DEF rows
<1>6. /\ outbox_work' \in Seq(OutboxRow)
      /\ \A i \in DOMAIN rows : i \in DOMAIN outbox_work' /\ outbox_work'[i] = rows[i]
      /\ \A i \in DOMAIN outbox_work' \ DOMAIN rows : outbox_work'[i].state = "PENDING"
  BY <1>3, <1>4, <1>5, PendingConcatenated
<1>7. OnlyAsks
  BY <1>4, <1>6 DEF OnlyAsks, StartsPending
<1> QED  BY <1>4, <1>5, <1>7 DEF last

LEMMA CreateStrandsNothing ==
  ASSUME IInv, Inserts
  PROVE  StrandsNothing
<1>1. PICK s \in Scope, b \in Body, t \in Nat, sub \in Nat : InsertPayment(s, b, t, sub)
  BY DEF Inserts
<1>2. /\ UNCHANGED <<clock, webhook_subscriptions, workerVars, retryVars>>
      /\ idempotency_keys' \in [Scope -> IdempotencyRow]
      /\ TInv /\ "PROCESSING" \in Status
  BY DEF Inserts, IInv, Status
<1>3. PICK id : id = Len(payments) + 1
  OBVIOUS
<1>4. /\ id \in Nat /\ id \notin DOMAIN payments
      /\ DOMAIN payments' = DOMAIN payments \cup {id}
      /\ \A i \in DOMAIN payments : payments'[i] = payments[i]
      /\ webhook_deliveries' = DeliveriesWith(sub, id, "PROCESSING", t) /\ TablesGrow
  BY <1>1, <1>2, <1>3, CreationWrites
<1>5. PICK rows \in Seq(OutboxRow) :
        /\ \A i \in DOMAIN outbox_work : i \in DOMAIN rows /\ rows[i] = outbox_work[i]
        /\ outbox_work' = rows \o DeliverWork(sub, t)
  BY <1>1, CreationAsks
<1>6. /\ StartsPending
       /\ \A i \in DOMAIN outbox_work : outbox_work'[i] = outbox_work[i]
  BY <1>1, CreationAsks DEF OnlyAsks
<1>7. DropsNothing
  BY <1>2, <1>6 DEF DropsNothing, Waiting, InHand, workerVars
<1>8. PaymentsAwaited
  <2>1. PICK n \in DOMAIN outbox_work' :
          outbox_work'[n].kind = "SETTLE_PAYMENT" /\ outbox_work'[n].subject_id = id
    <3>1. \A i \in DOMAIN payments' \ DOMAIN payments :
            \E n \in DOMAIN outbox_work' :
              outbox_work'[n].kind = "SETTLE_PAYMENT" /\ outbox_work'[n].subject_id = i
      BY <1>4 DEF TablesGrow, PaymentsGrow, HasSettlementRow
    <3> QED  BY <1>4, <3>1
  <2>2. n \notin DOMAIN outbox_work
    BY <1>2, <1>4, <1>6, <2>1 DEF TInv, RowsRefer
  <2>3. outbox_work'[n].state = "PENDING"
    BY <1>6, <2>1, <2>2 DEF StartsPending
  <2>4. Awaited("SETTLE_PAYMENT", id)'
    <3>1. \E i \in DOMAIN outbox_work' :
            /\ outbox_work'[i].kind = "SETTLE_PAYMENT" /\ outbox_work'[i].subject_id = id
            /\ outbox_work'[i].state = "PENDING" \/ \E w \in Worker : i \in InHand(w)'
      BY <2>1, <2>3
    <3> QED  BY <3>1 DEF Awaited
  <2> QED  BY <1>4, <2>4 DEF PaymentsAwaited
<1>9. DeliveriesAwaited
  BY <1>2, <1>4, <1>5, DeliveryAsksForWork
<1> QED  BY <1>4, <1>7, <1>8, <1>9 DEF StrandsNothing, TablesGrow

(* What is no longer in worker w's hand is served. *)
LEMMA DropsOnlyServed ==
  ASSUME NEW w \in Worker,
         \A i \in DOMAIN outbox_work : outbox_work'[i].state = outbox_work[i].state,
         \A v \in Worker \ {w} : InHand(v)' = InHand(v),
         \A i \in InHand(w) : i \in InHand(w)' \/ Served(i)'
  PROVE  DropsNothing
  BY DEF DropsNothing, Waiting

LEMMA OthersKeepTheirs ==
  ASSUME NEW w \in Worker, OnlyMoves(w)
  PROVE  \A v \in Worker \ {w} : InHand(v)' = InHand(v)
  BY DEF OnlyMoves, Rests, InHand

LEMMA SettlementStrandsNothing ==
  ASSUME IInv, NEW w \in Worker, SettleCommit(w), UNCHANGED clock
  PROVE  StrandsNothing
<1>1. Settles(w) /\ ItemDone(w) /\ UNCHANGED sends /\ TInv
  BY EndOfWorkRests DEF SettleCommit, Settles, IInv
<1>2. PICK s : s = Subject(w)
  OBVIOUS
<1>3. /\ s \in DOMAIN payments /\ s \in Nat
      /\ Settled(w).status # "PROCESSING" /\ Settled(w).status \in Status
      /\ wnow[w] \in Nat /\ wtarget[w] \in Nat
      /\ DOMAIN payments' = DOMAIN payments /\ payments'[s] = Settled(w)
      /\ \A i \in DOMAIN payments : i # s => payments'[i] = payments[i]
      /\ webhook_deliveries' = DeliveriesWith(wtarget[w], s, Settled(w).status, wnow[w])
      /\ TablesGrow
  BY <1>1, <1>2, SettlementWrites
<1>4. \A i \in DOMAIN outbox_work : outbox_work'[i] = outbox_work[i]
  BY <1>1, WriteSettlementGrows DEF Settles
<1>5. OnlyMoves(w) /\ InHand(w)' = batch[w]
  BY <1>1, <1>3, ItemDoneMoves
<1>6. /\ item[w] \in DOMAIN outbox_work /\ outbox_work[item[w]].kind = "SETTLE_PAYMENT"
      /\ outbox_work[item[w]].subject_id = s
  BY <1>1, <1>2, InHandRefers DEF Settles, Settling, Subject, IInv, InStep
<1>7. \A i \in InHand(w) : i \in InHand(w)' \/ Served(i)'
  <2>1. outbox_work'[item[w]] = outbox_work[item[w]] /\ payments'[s].status # "PROCESSING"
    BY <1>3, <1>4, <1>6
  <2>2. \A i : i = item[w] => Served(i)'
    BY <1>6, <2>1 DEF Served
  <2> QED  BY <1>5, <2>2 DEF InHand
<1>8. DropsNothing
  BY <1>4, <1>5, <1>7, OthersKeepTheirs, DropsOnlyServed
<1>9. PaymentsAwaited
  BY <1>3 DEF PaymentsAwaited
<1>10. DeliveriesAwaited
  <2>1. outbox_work \in Seq(OutboxRow) /\ outbox_work' = outbox_work \o DeliverWork(wtarget[w], wnow[w])
    BY <1>1 DEF Settles, WriteSettlement, TInv, TablesTypeOK
  <2> QED  BY <1>1, <1>3, <2>1, DeliveryAsksForWork
<1> QED  BY <1>3, <1>8, <1>9, <1>10 DEF StrandsNothing, TablesGrow

LEMMA RecordStrandsNothing ==
  ASSUME IInv, NEW w \in Worker, RecordAttempt(w), UNCHANGED clock
  PROVE  StrandsNothing
<1>1. /\ wstage[w] = "record" /\ ItemDone(w) /\ UNCHANGED <<payments, outbox_work, sends>>
  BY DEF RecordAttempt
<1>2. PICK s : s = Subject(w)
  OBVIOUS
<1>3. /\ TablesGrow /\ DOMAIN webhook_deliveries' = DOMAIN webhook_deliveries
      /\ \A e \in DOMAIN webhook_deliveries :
           e # s => webhook_deliveries'[e] = webhook_deliveries[e]
      /\ webhook_deliveries'[s].status = OutcomeOf(reply[w])
  BY <1>2, RecordAttemptGrows
<1>4. OnlyMoves(w) /\ InHand(w)' = batch[w]
  BY <1>1, <1>3, ItemDoneMoves
<1>5. /\ outbox_work[item[w]].kind = "DELIVER_WEBHOOK" /\ outbox_work[item[w]].subject_id = s
      /\ webhook_deliveries'[s].status # "PENDING"
  BY <1>1, <1>2, <1>3 DEF Delivering, Subject, IInv, InStep, OutcomeOf
<1>6. \A i \in InHand(w) : i \in InHand(w)' \/ Served(i)'
  BY <1>1, <1>4, <1>5 DEF InHand, Served
<1>7. DropsNothing
  BY <1>1, <1>4, <1>6, OthersKeepTheirs, DropsOnlyServed
<1>8. PaymentsAwaited /\ DeliveriesAwaited
  BY <1>1, <1>3, <1>5 DEF PaymentsAwaited, DeliveriesAwaited
<1> QED  BY <1>3, <1>7, <1>8 DEF StrandsNothing, TablesGrow

(* A step that writes no table. *)
LEMMA MovingStrandsNothing ==
  ASSUME NEW w \in Worker, UNCHANGED <<payments, webhook_deliveries, outbox_work>>,
         \A v \in Worker \ {w} : item'[v] = item[v] /\ batch'[v] = batch[v],
         \A i \in InHand(w) : i \in InHand(w)' \/ Served(i)
  PROVE  StrandsNothing
<1>1. \A v \in Worker \ {w} : InHand(v)' = InHand(v)
  BY DEF InHand
<1>2. \A i : Served(i)' <=> Served(i)
  BY DEF Served
<1>3. DropsNothing
  BY <1>1, <1>2, DropsOnlyServed
<1> QED  BY <1>3 DEF StrandsNothing, RowsGrow, PaymentsAwaited, DeliveriesAwaited

LEMMA WorkStrandsNothing ==
  ASSUME IInv, NEW w \in Worker, WorkerStep(w), UNCHANGED clock
  PROVE  StrandsNothing
<1>1. WorkerTypeOK /\ InStep(w) /\ TInv
  BY DEF IInv
<1>2. CASE ClaimDue(w)
  <2>1. /\ UNCHANGED <<payments, webhook_deliveries, outbox_work, item>>
        /\ \A v \in Worker \ {w} : batch'[v] = batch[v]
        /\ wstage[w] = "idle"
    BY <1>1, <1>2 DEF ClaimDue, tables, WorkerTypeOK
  <2>2. InHand(w) = {}
    BY <1>1, <2>1 DEF InStep, InHand
  <2> QED  BY <2>1, <2>2, MovingStrandsNothing
<1>3. CASE ClaimCommits(w)
  <2>1. /\ UNCHANGED <<clock, idempotency_keys, payments, webhook_subscriptions,
                       webhook_deliveries, item, batch>>
        /\ MarkDone(batch[w])
    BY <1>3 DEF ClaimCommits, workerRegisters
  <2>2. RowsGrow
    BY <1>1, <2>1, MarkDoneGrows DEF TablesGrow
  <2>3. \A i \in DOMAIN outbox_work :
          outbox_work'[i].state = IF i \in batch[w] THEN "DONE" ELSE outbox_work[i].state
    BY <1>1, <2>1, MarkDoneRows
  <2>4. DropsNothing
    BY <2>1, <2>3 DEF DropsNothing, Waiting, InHand
  <2> QED
    BY <2>1, <2>2, <2>4 DEF StrandsNothing, PaymentsAwaited, DeliveriesAwaited
<1>4. CASE NextItem(w)
  <2>1. PICK i \in batch[w] :
          /\ item' = [item EXCEPT ![w] = i]
          /\ batch' = [batch EXCEPT ![w] = batch[w] \ {i}]
    BY <1>4 DEF NextItem
  <2>2. /\ UNCHANGED <<payments, webhook_deliveries, outbox_work>>
        /\ \A v \in Worker \ {w} : item'[v] = item[v] /\ batch'[v] = batch[v]
        /\ item'[w] = i /\ batch'[w] = batch[w] \ {i} /\ wstage[w] = "next"
    BY <1>1, <1>4, <2>1 DEF NextItem, tables, WorkerTypeOK
  <2>3. i # NoRow /\ item[w] = NoRow
    BY <1>1, <2>2, NoRowIsNone DEF InStep, WorkerTypeOK
  <2>4. \A k \in InHand(w) : k \in InHand(w)'
    BY <2>2, <2>3 DEF InHand
  <2> QED  BY <2>2, <2>4, MovingStrandsNothing
<1>5. CASE BatchDone(w)
  <2>1. /\ UNCHANGED <<payments, webhook_deliveries, outbox_work>>
        /\ \A v \in Worker \ {w} : item'[v] = item[v] /\ batch'[v] = batch[v]
        /\ wstage[w] = "next" /\ batch[w] = {}
    BY <1>1, <1>5 DEF BatchDone, EndBatch, ClearItem, tables, WorkerTypeOK
  <2>2. InHand(w) = {}
    BY <1>1, <2>1 DEF InStep, InHand
  <2> QED  BY <2>1, <2>2, MovingStrandsNothing
<1>6. CASE SettleLoad(w) /\ ItemDone(w)
  <2>1. /\ UNCHANGED <<payments, webhook_deliveries, outbox_work>>
        /\ \A v \in Worker \ {w} : item'[v] = item[v] /\ batch'[v] = batch[v]
        /\ batch'[w] = batch[w] /\ wstage[w] = "settle"
    BY <1>1, <1>6 DEF SettleLoad, ItemDone, ClearItem, tables, WorkerTypeOK
  <2>2. payments[Subject(w)].status # "PROCESSING"
    <3>1. CASE payments[Subject(w)].status = "PROCESSING"
      <4>1. wstage' = [wstage EXCEPT ![w] = "update"] /\ wstage' = [wstage EXCEPT ![w] = "next"]
        BY <1>6, <3>1 DEF SettleLoad, ItemDone, WGoTo
      <4> QED  BY <1>1, <4>1 DEF WorkerTypeOK
    <3> QED  BY <3>1
  <2>3. Served(item[w])
    BY <1>1, <2>1, <2>2 DEF Served, Subject, InStep, Settling
  <2>4. \A i \in InHand(w) : i \in InHand(w)' \/ Served(i)
    BY <2>1, <2>3 DEF InHand
  <2> QED  BY <2>1, <2>4, MovingStrandsNothing
<1>7. CASE UNCHANGED <<payments, webhook_deliveries, outbox_work, item, batch>>
  <2>1. \A i \in InHand(w) : i \in InHand(w)'
    BY <1>7 DEF InHand
  <2> QED  BY <1>7, <2>1, MovingStrandsNothing
<1>8. CASE SettleLoad(w)
  BY <1>6, <1>7, <1>8 DEF SettleLoad, tables
<1>9. CASE SettleUpdate(w) \/ DeliverLoad(w) \/ Send(w)
  BY <1>7, <1>9 DEF SettleUpdate, DeliverLoad, Send, tables, workerRegisters
<1> QED
  BY <1>2, <1>3, <1>4, <1>5, <1>8, <1>9, SettlementStrandsNothing, RecordStrandsNothing
  DEF WorkerStep

(* A retry sets a delivery back to PENDING and asks for its attempt. *)
LEMMA RetryingStrandsNothing ==
  ASSUME IInv, Retrying
  PROVE  StrandsNothing
<1>1. PICK c \in RetryRequest : RetryLoad(c) \/ RetryCommit(c) \/ RetryFails(c)
  BY DEF Retrying, RetryNext
<1>2. UNCHANGED clock /\ UNCHANGED workerVars
  BY DEF Retrying
<1>3. CASE UNCHANGED tables
  <2>1. DropsNothing /\ RowsGrow
    BY <1>2, <1>3 DEF DropsNothing, Waiting, InHand, workerVars, tables, RowsGrow
  <2> QED
    BY <1>3, <2>1 DEF StrandsNothing, PaymentsAwaited, DeliveriesAwaited, tables
<1>4. CASE rstage[c] = "enqueue" /\ WriteRetry(c)
  <2>1. /\ RowsGrow /\ payments' = payments
        /\ \A i \in DOMAIN outbox_work : outbox_work'[i] = outbox_work[i]
    BY <1>2, <1>4, WriteRetryGrows DEF TablesGrow
  <2>2. DropsNothing
    BY <1>2, <2>1 DEF DropsNothing, Waiting, InHand, workerVars
  <2>0. PICK d : d = rdelivery[c]
    OBVIOUS
  <2>3. PICK t \in Now :
          outbox_work' = Append(outbox_work, NewWork("DELIVER_WEBHOOK", d, t))
    BY <1>4, <2>0 DEF WriteRetry
  <2> DEFINE row == NewWork("DELIVER_WEBHOOK", d, t)
             n == Len(outbox_work) + 1
  <2>4. /\ row \in OutboxRow /\ row.kind = "DELIVER_WEBHOOK" /\ row.subject_id = d
        /\ row.state = "PENDING" /\ outbox_work \in Seq(OutboxRow)
    <3>1. d \in DOMAIN webhook_deliveries
      BY <1>4, <2>0 DEF IInv, RetriesRefer
    <3>2. d \in Nat /\ t \in Nat /\ outbox_work \in Seq(OutboxRow)
      BY <3>1, LenProperties, NowIsNat DEF IInv, TInv, TablesTypeOK
    <3> QED  BY <3>2 DEF NewWork, OutboxRow, OutboxKind
  <2> HIDE DEF row
  <2>5. n \in DOMAIN outbox_work' /\ outbox_work'[n] = row
    <3>1. outbox_work' = Append(outbox_work, row)
      BY <2>3 DEF row
    <3> QED  BY <2>4, <3>1, Appended
  <2>6. Awaited("DELIVER_WEBHOOK", d)'
    <3>1. \E i \in DOMAIN outbox_work' :
            /\ outbox_work'[i].kind = "DELIVER_WEBHOOK" /\ outbox_work'[i].subject_id = d
            /\ outbox_work'[i].state = "PENDING" \/ \E w \in Worker : i \in InHand(w)'
      BY <2>4, <2>5
    <3> QED  BY <3>1 DEF Awaited
  <2>7. /\ DOMAIN webhook_deliveries' = DOMAIN webhook_deliveries
        /\ \A e \in DOMAIN webhook_deliveries :
             e # d => webhook_deliveries'[e] = webhook_deliveries[e]
    BY <1>4, <2>0 DEF WriteRetry
  <2>8. PaymentsAwaited /\ DeliveriesAwaited
    BY <2>1, <2>6, <2>7 DEF PaymentsAwaited, DeliveriesAwaited
  <2> QED  BY <2>1, <2>2, <2>8 DEF StrandsNothing
<1> QED  BY <1>1, <1>3, <1>4 DEF RetryLoad, RetryCommit, RetryFails

LEMMA ElsewhereStrandsNothing ==
  ASSUME Subscription \/ Passing \/ Untouched
  PROVE  StrandsNothing
<1>1. /\ UNCHANGED <<payments, webhook_deliveries, outbox_work>> /\ UNCHANGED workerVars
  BY DEF Subscription, SubscriptionNext, Subscribe, Passing, Untouched, tables
<1>2. DropsNothing /\ RowsGrow
  BY <1>1 DEF DropsNothing, Waiting, InHand, workerVars, RowsGrow
<1> QED  BY <1>1, <1>2 DEF StrandsNothing, PaymentsAwaited, DeliveriesAwaited

LEMMA StepStrandsNothing ==
  ASSUME PipelineInv, [Next]_vars, FaultsUntil < 0
  PROVE  StrandsNothing
<1>0. IInv
  BY DEF PipelineInv
<1>1. ASSUME NEW w \in Worker, Working(w)
      PROVE  StrandsNothing
  BY <1>0, <1>1, WorkStrandsNothing DEF Working
<1> QED
  BY <1>0, <1>1, CreateStrandsNothing, RetryingStrandsNothing, ElsewhereStrandsNothing,
     NoFaults, StepIs

(* While no worker fails, what is not finished has work waiting for it: a  *)
(* row that is claimed and marked DONE before it is done is in the hand of *)
(* the worker that will do it.                                             *)
THEOREM NothingIsStranded ==
  ASSUME FaultsUntil < 0
  PROVE  Spec => []NothingStranded
<1>1. Init => NothingStranded
  BY InitPInv
<1>2. PipelineInv /\ NothingStranded /\ [Next]_vars => NothingStranded'
  BY StepStrandsNothing, NothingGetsStranded DEF PipelineInv
<1> QED  BY <1>1, <1>2, Invariance, PTL DEF Spec

-----------------------------------------------------------------------------
(* The outbox is a queue that hands each row out once.                     *)

LEMMA AskedFor ==
  ASSUME TInv, OnlyAsks
  PROVE  Queue!MayAsk
<1>1. PICK n : n = Len(outbox_work)
  OBVIOUS
<1>2. PICK m : m = Len(outbox_work')
  OBVIOUS
<1>3. n \in Nat /\ m \in Nat /\ DOMAIN outbox_work = 1..n /\ DOMAIN outbox_work' = 1..m
  BY <1>1, <1>2, LenProperties DEF TInv, TablesTypeOK, OnlyAsks
<1>4. m >= n
  <2>1. n \in 1..n => n \in 1..m
    BY <1>3 DEF OnlyAsks
  <2> QED  BY <1>3, <2>1
<1>5. (1..m) \ (1..n) = (n + 1)..m
  BY <1>3, <1>4
<1>6. Unclaimed' = Unclaimed \cup ((1..m) \ (1..n))
  BY <1>3 DEF OnlyAsks, StartsPending, Unclaimed
<1> QED  BY <1>1, <1>2, <1>3, <1>4, <1>5, <1>6 DEF Queue!MayAsk

LEMMA NothingAsked ==
  ASSUME TInv, UNCHANGED outbox_work
  PROVE  OnlyAsks /\ UNCHANGED Unclaimed /\ UNCHANGED Len(outbox_work)
  BY DEF OnlyAsks, StartsPending, Unclaimed, TInv, TablesTypeOK

LEMMA HandsRest ==
  ASSUME UNCHANGED <<item, batch>>,
         \A v \in Worker : wstage'[v] = "claiming" <=> wstage[v] = "claiming"
  PROVE  UNCHANGED Hands
  BY DEF Hands, InHand

LEMMA OneHandMoves ==
  ASSUME NEW w \in Worker, OnlyMoves(w)
  PROVE  Hands' = [Hands EXCEPT ![w] = Hands'[w]]
  BY DEF OnlyMoves, Rests, Hands, InHand

LEMMA ItemFinished ==
  ASSUME IInv, ItemApart, NEW w \in Worker, Settling(w) \/ Delivering(w),
         ItemDone(w), UNCHANGED sends, TablesGrow, OnlyAsks
  PROVE  Queue!Finish(w)
<1>1. /\ OnlyMoves(w) /\ wstage'[w] = "next" /\ InHand(w)' = batch[w]
  BY ItemDoneMoves
<1>2. Hands'[w] = batch[w] /\ Hands[w] = batch[w] \cup {item[w]}
  BY <1>1 DEF Hands, InHand, Settling, Delivering, IInv, InStep
<1>3. item[w] \in Hands[w] /\ Hands'[w] = Hands[w] \ {item[w]}
  BY <1>2 DEF ItemApart
<1>4. Hands' = [Hands EXCEPT ![w] = Hands[w] \ {item[w]}]
  BY <1>1, <1>3, OneHandMoves
<1>5. Queue!MayAsk
  BY AskedFor DEF IInv
<1> QED  BY <1>3, <1>4, <1>5 DEF Queue!Finish

LEMMA BatchLost ==
  ASSUME IInv, NEW w \in Worker, EndBatch(w), UNCHANGED sends, TablesGrow, OnlyAsks
  PROVE  Queue!Die(w)
<1>1. OnlyMoves(w)
  BY EndBatchMoves
<1>2. Hands'[w] = {}
  BY DEF EndBatch, ClearItem, WGoTo, Hands, InHand, IInv, WorkerTypeOK
<1>3. Hands' = [Hands EXCEPT ![w] = {}]
  BY <1>1, <1>2, OneHandMoves
<1>4. Queue!MayAsk
  BY AskedFor DEF IInv
<1> QED  BY <1>3, <1>4 DEF Queue!Die

(* The rows of a claim wait until it commits. *)
LEMMA ClaimTakes ==
  ASSUME IInv, NEW w \in Worker, wstage[w] = "claiming", MarkDone(batch[w])
  PROVE  /\ batch[w] \in SUBSET Unclaimed
         /\ Unclaimed' = Unclaimed \ batch[w]
         /\ UNCHANGED Len(outbox_work)
         /\ Hands[w] = {}
<1>1. TInv /\ InStep(w) /\ batch[w] \subseteq DOMAIN outbox_work
  BY DEF IInv, WorkerTypeOK
<1>2. /\ outbox_work' \in Seq(OutboxRow) /\ outbox_work \in Seq(OutboxRow)
      /\ DOMAIN outbox_work' = DOMAIN outbox_work
      /\ \A i \in DOMAIN outbox_work :
           outbox_work'[i].state = IF i \in batch[w] THEN "DONE" ELSE outbox_work[i].state
  BY <1>1, MarkDoneRows DEF TInv, TablesTypeOK
<1>3. batch[w] \in SUBSET Unclaimed
  BY <1>1 DEF InStep, Unclaimed
<1>4. Unclaimed' = Unclaimed \ batch[w]
  BY <1>2 DEF Unclaimed
<1>5. Len(outbox_work') = Len(outbox_work)
  BY <1>2, LenProperties
<1>6. Hands[w] = {}
  BY DEF Hands
<1> QED  BY <1>3, <1>4, <1>5, <1>6

LEMMA SettlementAsks ==
  ASSUME IInv, NEW w \in Worker, wstage[w] = "commit", WriteSettlement(w)
  PROVE  OnlyAsks
<1>1. /\ outbox_work \in Seq(OutboxRow) /\ wtarget[w] \in Nat /\ wnow[w] \in Nat /\ TInv
      /\ 0 \in Nat
  BY DEF IInv, TInv, TablesTypeOK, WorkerTypeOK
<1>2. outbox_work' = outbox_work \o DeliverWork(wtarget[w], wnow[w])
  BY DEF WriteSettlement
<1>3. /\ DeliverWork(wtarget[w], wnow[w]) \in Seq(OutboxRow)
      /\ \A k \in DOMAIN DeliverWork(wtarget[w], wnow[w]) :
           DeliverWork(wtarget[w], wnow[w])[k].state = "PENDING"
  BY <1>1, WorkStartsPending
<1> QED  BY <1>1, <1>2, <1>3, PendingConcatenated DEF OnlyAsks, StartsPending

LEMMA RetryAsks ==
  ASSUME IInv, NEW c \in RetryRequest, rstage[c] = "enqueue", WriteRetry(c)
  PROVE  OnlyAsks
<1>1. PICK d : d = rdelivery[c]
  OBVIOUS
<1>2. PICK t \in Now :
        outbox_work' = Append(outbox_work, NewWork("DELIVER_WEBHOOK", d, t))
  BY <1>1 DEF WriteRetry
<1>3. d \in Nat /\ t \in Nat /\ outbox_work \in Seq(OutboxRow)
  <2>1. d \in DOMAIN webhook_deliveries
    BY <1>1 DEF IInv, RetriesRefer
  <2> QED  BY <2>1, LenProperties, NowIsNat DEF IInv, TInv, TablesTypeOK
<1> DEFINE row == NewWork("DELIVER_WEBHOOK", d, t)
<1>4. row \in OutboxRow /\ row.state = "PENDING"
  BY <1>3 DEF NewWork, OutboxRow, OutboxKind
<1>5. outbox_work' = Append(outbox_work, row)
  BY <1>2
<1> HIDE DEF row
<1>6. /\ outbox_work' \in Seq(OutboxRow)
      /\ \A i \in DOMAIN outbox_work : i \in DOMAIN outbox_work' /\ outbox_work'[i] = outbox_work[i]
      /\ DOMAIN outbox_work' \ DOMAIN outbox_work = {Len(outbox_work) + 1}
      /\ outbox_work'[Len(outbox_work) + 1] = row
  BY <1>3, <1>4, <1>5, Appended
<1> QED  BY <1>4, <1>6 DEF OnlyAsks, StartsPending

(* Neither the rows nor the hands change. *)
LEMMA NothingMoves ==
  ASSUME TInv, UNCHANGED outbox_work, UNCHANGED Hands
  PROVE  UNCHANGED Queue!vars
  BY NothingAsked DEF Queue!vars

LEMMA WorkIsQueued ==
  ASSUME IInv, ItemApart, NEW w \in Worker, WorkerStep(w), UNCHANGED clock
  PROVE  Queue!Take(w) \/ Queue!Finish(w) \/ UNCHANGED Queue!vars
<1>1. TInv /\ WorkerTypeOK /\ InStep(w)
  BY DEF IInv
<1>2. CASE ClaimDue(w)
  <2>1. /\ UNCHANGED <<outbox_work, item>> /\ \A v \in Worker \ {w} : batch'[v] = batch[v]
        /\ wstage[w] = "idle" /\ wstage' = [wstage EXCEPT ![w] = "claiming"]
    BY <1>1, <1>2 DEF ClaimDue, tables, WorkerTypeOK, WGoTo
  <2>2. InHand(w) = {}
    BY <1>1, <2>1 DEF InStep, InHand
  <2>3. UNCHANGED Hands
    BY <1>1, <2>1, <2>2 DEF Hands, InHand, WorkerTypeOK
  <2> QED  BY <1>1, <2>1, <2>3, NothingMoves
<1>3. CASE ClaimCommits(w)
  <2>1. /\ wstage[w] = "claiming" /\ wstage' = [wstage EXCEPT ![w] = "next"]
        /\ MarkDone(batch[w]) /\ UNCHANGED <<item, batch>> /\ item[w] = NoRow
    BY <1>1, <1>3 DEF ClaimCommits, workerRegisters, WGoTo, InStep
  <2>2. InHand(w)' = batch[w]
    BY <2>1 DEF InHand
  <2>3. Hands' = [Hands EXCEPT ![w] = batch[w]]
    BY <1>1, <2>1, <2>2 DEF Hands, InHand, WorkerTypeOK
  <2> QED  BY <2>1, <2>3, ClaimTakes DEF Queue!Take
<1>4. CASE NextItem(w)
  <2>1. PICK i \in batch[w] :
          /\ item' = [item EXCEPT ![w] = i]
          /\ batch' = [batch EXCEPT ![w] = batch[w] \ {i}]
          /\ wstage' = [wstage EXCEPT ![w] =
               IF outbox_work[i].kind = "SETTLE_PAYMENT" THEN "settle" ELSE "deliver"]
    BY <1>4 DEF NextItem, WGoTo
  <2>2. i # NoRow /\ item[w] = NoRow /\ wstage[w] = "next" /\ UNCHANGED outbox_work
    BY <1>1, <1>4, NoRowIsNone DEF NextItem, tables, InStep, WorkerTypeOK
  <2>3. InHand(w)' = InHand(w)
    BY <1>1, <2>1, <2>2 DEF InHand, WorkerTypeOK
  <2>4. UNCHANGED Hands
    BY <1>1, <2>1, <2>2, <2>3 DEF Hands, InHand, WorkerTypeOK
  <2> QED  BY <1>1, <2>2, <2>4, NothingMoves
<1>5. CASE BatchDone(w)
  <2>1. /\ wstage[w] = "next" /\ batch[w] = {} /\ item[w] = NoRow /\ UNCHANGED outbox_work
        /\ wstage' = [wstage EXCEPT ![w] = "idle"]
        /\ batch' = [batch EXCEPT ![w] = {}] /\ item' = [item EXCEPT ![w] = NoRow]
    BY <1>1, <1>5 DEF BatchDone, EndBatch, ClearItem, WGoTo, tables, InStep
  <2>2. UNCHANGED Hands
    BY <1>1, <2>1 DEF Hands, InHand, WorkerTypeOK
  <2> QED  BY <1>1, <2>1, <2>2, NothingMoves
<1>6. CASE SettleLoad(w)
  <2>1. wstage[w] = "settle" /\ UNCHANGED <<tables, sends>>
    BY <1>6 DEF SettleLoad
  <2>2. TablesGrow /\ OnlyAsks /\ UNCHANGED outbox_work
    BY <1>1, <2>1, TablesUntouched, NothingAsked DEF tables
  <2>3. CASE ItemDone(w)
    BY <2>1, <2>2, <2>3, ItemFinished DEF Settling
  <2>4. CASE wstage' = [wstage EXCEPT ![w] = "update"] /\ UNCHANGED <<item, batch>>
    BY <1>1, <2>1, <2>2, <2>4, HandsRest, NothingMoves DEF WorkerTypeOK
  <2> QED  BY <1>6, <2>3, <2>4 DEF SettleLoad, WGoTo
<1>7. CASE SettleUpdate(w) \/ DeliverLoad(w) \/ Send(w)
  <2>1. UNCHANGED <<outbox_work, item, batch>>
    BY <1>7 DEF SettleUpdate, DeliverLoad, Send, tables, workerRegisters
  <2>2. \A v \in Worker : wstage'[v] = "claiming" <=> wstage[v] = "claiming"
    BY <1>1, <1>7 DEF SettleUpdate, DeliverLoad, Send, WGoTo, WorkerTypeOK
  <2> QED  BY <1>1, <2>1, <2>2, HandsRest, NothingMoves
<1>8. CASE SettleCommit(w)
  <2>1. TablesGrow /\ OnlyAsks
    BY <1>8, WriteSettlementGrows, SettlementAsks DEF SettleCommit
  <2> QED  BY <1>8, <2>1, ItemFinished DEF SettleCommit, Settling
<1>9. CASE RecordAttempt(w)
  <2>1. TablesGrow /\ OnlyAsks
    BY <1>1, <1>9, RecordAttemptGrows, NothingAsked DEF RecordAttempt
  <2> QED  BY <1>9, <2>1, ItemFinished DEF RecordAttempt, Delivering
<1> QED
  BY <1>2, <1>3, <1>4, <1>5, <1>6, <1>7, <1>8, <1>9 DEF WorkerStep

LEMMA FaultsAreQueued ==
  ASSUME IInv, Faults
  PROVE  \E w \in Worker : Queue!Take(w) \/ Queue!Die(w)
<1>1. PICK w \in Worker : WorkerFails(w) \/ WorkerFailsAfter(w)
  BY DEF Faults
<1>2. EndBatch(w) /\ UNCHANGED <<clock, sends>> /\ TInv
  BY <1>1 DEF Faults, WorkerFails, WorkerFailsAfter, IInv
<1>3. CASE UNCHANGED tables
  <2>1. TablesGrow /\ OnlyAsks
    BY <1>2, <1>3, TablesUntouched, NothingAsked DEF tables
  <2> QED  BY <1>2, <2>1, BatchLost
<1>4. CASE /\ wstage[w] = "claiming" /\ MarkDone(batch[w])
           /\ UNCHANGED <<idempotency_keys, payments, webhook_subscriptions,
                          webhook_deliveries>>
  <2>1. OnlyMoves(w)
    BY <1>2, <1>4, MarkDoneGrows, EndBatchMoves
  <2>2. Hands'[w] = {}
    BY <1>2 DEF EndBatch, ClearItem, WGoTo, Hands, InHand, IInv, WorkerTypeOK
  <2>3. UNCHANGED Hands
    BY <1>4, <2>1, <2>2, ClaimTakes, OneHandMoves DEF Hands
  <2> QED  BY <1>4, <2>3, ClaimTakes DEF Queue!Take
<1>5. CASE wstage[w] = "commit" /\ WriteSettlement(w)
  BY <1>2, <1>5, WriteSettlementGrows, SettlementAsks, BatchLost
<1> QED  BY <1>1, <1>3, <1>4, <1>5 DEF WorkerFails, WorkerFailsAfter

LEMMA StepIsQueued ==
  ASSUME PipelineInv, ItemApart, [Next]_vars
  PROVE  Queue!Next \/ UNCHANGED Queue!vars
<1>1. TInv /\ IInv
  BY DEF IInv, PipelineInv
<1>2. ASSUME OnlyAsks, UNCHANGED workerVars
      PROVE  Queue!Ask
  BY <1>1, <1>2, AskedFor, HandsRest DEF workerVars, Queue!Ask
<1>3. ASSUME UNCHANGED outbox_work, UNCHANGED workerVars
      PROVE  UNCHANGED Queue!vars
  BY <1>1, <1>3, HandsRest, NothingMoves DEF workerVars
<1>4. CASE Inserts
  BY <1>1, <1>2, <1>4, CreationAsks DEF Inserts, Queue!Next
<1>5. CASE Retrying
  <2>1. PICK c \in RetryRequest : RetryLoad(c) \/ RetryCommit(c) \/ RetryFails(c)
    BY <1>5 DEF Retrying, RetryNext
  <2>2. CASE UNCHANGED tables
    BY <1>3, <1>5, <2>2 DEF Retrying, tables
  <2>3. CASE rstage[c] = "enqueue" /\ WriteRetry(c)
    BY <1>1, <1>2, <1>5, <2>3, RetryAsks DEF Retrying, Queue!Next
  <2> QED  BY <2>1, <2>2, <2>3 DEF RetryLoad, RetryCommit, RetryFails
<1>6. CASE Subscription \/ Passing \/ Untouched
  BY <1>3, <1>6 DEF Subscription, SubscriptionNext, Subscribe, Passing, Untouched, tables
<1>7. CASE Faults
  BY <1>1, <1>7, FaultsAreQueued DEF Queue!Next
<1>8. ASSUME NEW w \in Worker, Working(w)
      PROVE  Queue!Next \/ UNCHANGED Queue!vars
  BY <1>1, <1>8, WorkIsQueued DEF Working, Queue!Next
<1> QED  BY <1>4, <1>5, <1>6, <1>7, <1>8, StepIs

(* Whatever the number of workers, the clocks and the faults, the outbox   *)
(* hands each row out once, in batches that are taken at one moment, and   *)
(* takes none back.                                                        *)
THEOREM OutboxIsAQueue == Spec => HandsOutOnce
<1>1. Init => Queue!Init
  BY DEF Init, TablesInit, WorkerInit, Queue!Init, Unclaimed, Hands, InHand
<1>2. PipelineInv /\ PInv /\ [Next]_vars => [Queue!Next]_(Queue!vars)
  BY StepIsQueued DEF PInv
<1>3. Init => PInv
  BY InitPInv
<1>4. PipelineInv /\ PipelineInv' /\ PInv /\ [Next]_vars => PInv'
  BY StepKeepsPInv
<1> QED  BY <1>1, <1>2, <1>3, <1>4, Invariance, PTL DEF Spec, HandsOutOnce, Queue!Spec
=============================================================================
