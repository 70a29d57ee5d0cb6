------------------------ MODULE AutomaticSendingProofs ------------------------
(***************************************************************************)
(* Why a durable claim prevents a second send, for any number of workers,  *)
(* people, Beats and crashes, that automatic sending does nothing to the   *)
(* follow-ups but what FollowUps allows, and that it sends nothing against *)
(* a refusal that was there all along.                                     *)
(***************************************************************************)
EXTENDS RefusedSends, FollowUpsProofs

-----------------------------------------------------------------------------
(* Every step of this module is a step of FollowUps.                       *)

\* What a pass writes of one row is a step of the scheduler.
LEMMA ScheduleRowIsSchedulerStep ==
    ASSUME IInv, NEW k \in Keys, ScheduleRow(k)
    PROVE  SchedulerStep
<1>1. PICK r \in ScheduledRows(k) : row' = [row EXCEPT ![k] = r]
  BY DEF ScheduleRow
<1>2. row \in [Keys -> Row] /\ drafts \subseteq Keys
  BY DEF IInv, GoodRows, Surroundings
<1>3. \A j \in Keys : row'[j] = row[j] \/ row'[j] \in ScheduledRows(j)
  BY <1>1, <1>2
<1>4. row' = [j \in Keys |-> row'[j]]
  BY <1>1, <1>2
<1>5. UNCHANGED <<drafts, saving, setup, enrollment, clock, edits>>
  BY DEF ScheduleRow
<1>6. DraftsOnlyMove
  BY <1>2, <1>5 DEF DraftsOnlyMove
<1> QED
  BY <1>3, <1>4, <1>5, <1>6 DEF SchedulerStep

\* Of a pass's steps only Settle writes a follow-up, one that is pending.
LEMMA WorkerStepIsStep ==
    ASSUME NEW w \in Workers, WorkerStep(w), worker[w].pc = "recorded" => worker[w].key \in Keys
    PROVE  [Next]_vars
<1>1. UNCHANGED <<drafts, saving, setup, enrollment, clock, edits>>
  BY DEF WorkerStep
<1>2. CASE UNCHANGED row
  BY <1>1, <1>2 DEF vars
<1>3. CASE Settle(w)
  <2>1. SentAutomatically(worker[w].key) \/ UNCHANGED row
    BY <1>1, <1>3 DEF Settle, SentAutomatically
  <2> QED
    BY <1>2, <1>3, <2>1 DEF Next, Settle
<1>4. CASE ~Settle(w)
  BY <1>2, <1>4 DEF WorkerStep, BeginPass, ReadCandidates, Claim, CheckPreference, CheckJump,
     CheckStop, Release, Send, RecordProvider, StoreFails, Fail
<1> QED
  BY <1>3, <1>4

-----------------------------------------------------------------------------
(* The claims.                                                             *)

BeforeSending == {"claimed", "preferred", "current", "ready", "refused"}

\* A worker at work on a follow-up holds its claim, or lost it for good.
ClaimIsOwn ==
    \A w \in Workers : worker[w].pc \in ClaimedSteps =>
        /\ worker[w].key \in Keys
        /\ Holds(w, worker[w].key) \/ delivery[worker[w].key].status = "FAILED"

\* Two workers never work on one follow-up.
WorkIsApart ==
    \A v, w \in Workers :
        /\ worker[v].pc \in ClaimedSteps
        /\ worker[w].pc \in ClaimedSteps
        /\ worker[v].key = worker[w].key
        => v = w

\* Nothing was sent before the step that sends, in this claim or in one before it.
UnsentBefore ==
    \A w \in Workers : worker[w].pc \in BeforeSending => sent[worker[w].key] = 0

UnsentUnlessClaimed ==
    \A k \in Keys : delivery[k].status \in {"none", "CANCELED"} => sent[k] = 0

ClaimInv ==
    /\ SendTypeOK
    /\ ClaimIsOwn
    /\ WorkIsApart
    /\ UnsentBefore
    /\ UnsentUnlessClaimed
    /\ AtMostOneSend

SendIInv == IInv /\ ClaimInv

-----------------------------------------------------------------------------
\* Going on to the next candidate keeps a worker's type and leaves the claim.
LEMMA NextOfType ==
    ASSUME NEW q \in Worker, NEW todo \in SUBSET Keys
    PROVE  /\ NextOf(q, todo) \in Worker
           /\ NextOf(q, todo).pc \notin ClaimedSteps
BY DEF NextOf, Resting, Worker, SendSteps, ClaimedSteps, NoTime

\* What a pass or a worker makes of a delivery is a delivery.
LEMMA ClaimedDelivery ==
    ASSUME NEW d \in Delivery, NEW w \in Workers, NEW t \in Nat
    PROVE  [d EXCEPT !.status = "PROCESSING", !.by = w, !.at = t] \in Delivery
BY DEF Delivery, DeliveryStatuses

LEMMA GivenUpDelivery ==
    ASSUME NEW d \in Delivery, NEW e,
           e = [d EXCEPT !.status = "FAILED", !.by = Nobody, !.at = NoTime]
    PROVE  e \in Delivery /\ e.status = "FAILED"
BY DEF Delivery, DeliveryStatuses, NoTime

LEMMA RecordedDelivery ==
    ASSUME NEW d \in Delivery, NEW e, e = [d EXCEPT !.provider = TRUE]
    PROVE  e \in Delivery /\ e.status = d.status /\ e.by = d.by /\ e.provider
BY DEF Delivery

\* A worker that moves with its claim, or lets it be, disturbs no claim.
LEMMA MoveKeepsClaims ==
    ASSUME ClaimInv, NEW w \in Workers, NEW q \in Worker, Stays(w, q),
           UNCHANGED <<delivery, sent>>, automation' \in BOOLEAN, losses' \in Nat,
           q.pc \in ClaimedSteps => /\ worker[w].pc \in ClaimedSteps
                                    /\ q.key = worker[w].key,
           q.pc \in BeforeSending => worker[w].pc \in BeforeSending
    PROVE  ClaimInv'
<1>1. worker \in [Workers -> Worker] /\ worker' = [worker EXCEPT ![w] = q]
  BY DEF ClaimInv, SendTypeOK, Stays
<1>2. worker'[w] = q /\ \A v \in Workers \ {w} : worker'[v] = worker[v]
  BY <1>1
<1>3. SendTypeOK'
  BY <1>1 DEF ClaimInv, SendTypeOK
<1>4. ClaimIsOwn'
  BY <1>2 DEF ClaimInv, ClaimIsOwn, Holds
<1>5. WorkIsApart'
  BY <1>2 DEF ClaimInv, WorkIsApart
<1>6. UnsentBefore'
  BY <1>2 DEF ClaimInv, UnsentBefore, BeforeSending, ClaimedSteps
<1>7. (UnsentUnlessClaimed /\ AtMostOneSend)'
  BY DEF ClaimInv, UnsentUnlessClaimed, AtMostOneSend
<1> QED
  BY <1>3, <1>4, <1>5, <1>6, <1>7 DEF ClaimInv

\* A worker that ends its claim, unsent if it releases it, disturbs no other's.
LEMMA EndKeepsClaims ==
    ASSUME ClaimInv, NEW w \in Workers, worker[w].pc \in ClaimedSteps,
           NEW status \in {"CANCELED", "FAILED", "DELIVERED"},
           status = "CANCELED" => worker[w].pc \in BeforeSending,
           EndClaim(w, worker[w].key, status), Stays(w, NextOf(worker[w], worker[w].todo)),
           UNCHANGED <<sent, automation, losses>>
    PROVE  ClaimInv'
<1> DEFINE k == worker[w].key
           q == NextOf(worker[w], worker[w].todo)
<1>1. worker \in [Workers -> Worker] /\ delivery \in [Keys -> Delivery] /\ k \in Keys
  BY DEF ClaimInv, SendTypeOK, ClaimIsOwn
<1>2. q \in Worker /\ q.pc \notin ClaimedSteps
  <2>1. worker[w] \in Worker /\ worker[w].todo \in SUBSET Keys
    BY <1>1 DEF Worker
  <2> QED
    BY <2>1, NextOfType
<1>3. worker'[w] = q /\ \A v \in Workers \ {w} : worker'[v] = worker[v]
  BY <1>1 DEF Stays
<1>4. \A j \in Keys : \/ delivery'[j] = delivery[j]
                      \/ j = k /\ Holds(w, k) /\ delivery'[j].status = status
  BY <1>1 DEF EndClaim, Delivery
<1>5. SendTypeOK'
  <2>1. worker' \in [Workers -> Worker]
    BY <1>1, <1>2 DEF Stays
  <2>2. delivery' \in [Keys -> Delivery]
    BY <1>1, SMTT(30) DEF EndClaim, Delivery, DeliveryStatuses, Nobody, NoTime
  <2> QED
    BY <2>1, <2>2 DEF ClaimInv, SendTypeOK
<1>6. ASSUME NEW v \in Workers, worker'[v].pc \in ClaimedSteps
      PROVE  /\ v # w /\ worker'[v] = worker[v] /\ worker[v].key \in Keys
             /\ worker[v].key # k
  BY <1>2, <1>3, <1>6 DEF ClaimInv, ClaimIsOwn, WorkIsApart
<1>7. ClaimIsOwn'
  BY <1>4, <1>6 DEF ClaimInv, ClaimIsOwn, Holds
<1>8. WorkIsApart'
  BY <1>6 DEF ClaimInv, WorkIsApart
<1>9. UnsentBefore'
  BY <1>6 DEF ClaimInv, UnsentBefore, BeforeSending, ClaimedSteps
<1>10. UnsentUnlessClaimed'
  BY <1>4 DEF ClaimInv, UnsentUnlessClaimed, UnsentBefore
<1>11. AtMostOneSend'
  BY DEF ClaimInv, AtMostOneSend
<1> QED
  BY <1>5, <1>7, <1>8, <1>9, <1>10, <1>11 DEF ClaimInv

\* A claim is made of a follow-up that nobody works on and that was not sent.
LEMMA ClaimKeepsClaims ==
    ASSUME ClaimInv, clock \in Nat, NEW w \in Workers, NEW k \in Keys, Claim(w, k),
           UNCHANGED <<automation, losses>>
    PROVE  ClaimInv'
<1> DEFINE q == [worker[w] EXCEPT !.pc = "claimed", !.key = k, !.todo = @ \ {k}]
<1>1. /\ worker \in [Workers -> Worker] /\ delivery \in [Keys -> Delivery]
      /\ worker[w] \in Worker /\ worker[w].pc = "next"
      /\ UNCHANGED sent
  BY DEF ClaimInv, SendTypeOK, Claim
<1>2. CASE Claimable(k)
  <2>1. /\ worker' = [worker EXCEPT ![w] = q]
        /\ delivery' = [delivery EXCEPT ![k].status = "PROCESSING", ![k].by = w,
                                        ![k].at = worker[w].now]
    BY <1>2 DEF Claim, Stays
  <2> DEFINE d == [delivery[k] EXCEPT !.status = "PROCESSING", !.by = w,
                                      !.at = worker[w].now]
  <2>2. q \in Worker /\ worker[w].now \in Nat
    BY <1>1 DEF Worker, SendSteps, ClaimedSteps
  <2>3. worker'[w] = q /\ \A v \in Workers \ {w} : worker'[v] = worker[v]
    BY <1>1, <2>1
  <2>4. /\ delivery'[k].status = "PROCESSING" /\ delivery'[k].by = w
        /\ \A j \in Keys \ {k} : delivery'[j] = delivery[j]
    BY <1>1, <2>1 DEF Delivery
  <2>5. delivery[k].status \in {"none", "CANCELED"} /\ sent[k] = 0
    BY <1>2 DEF Claimable, ClaimInv, UnsentUnlessClaimed
  <2>6. SendTypeOK'
    <3>1. worker' \in [Workers -> Worker]
      BY <1>1, <2>1, <2>2
    <3>2. delivery' \in [Keys -> Delivery]
      <4>1. d \in Delivery
        BY <1>1, <2>2, ClaimedDelivery
      <4>2. delivery' = [delivery EXCEPT ![k] = d]
        BY <2>1
      <4> QED
        BY <1>1, <4>1, <4>2
    <3> QED
      BY <1>1, <3>1, <3>2 DEF ClaimInv, SendTypeOK
  <2>7. ASSUME NEW v \in Workers, v # w, worker[v].pc \in ClaimedSteps
        PROVE  worker[v].key \in Keys /\ worker[v].key # k
    BY <2>5, <2>7 DEF ClaimInv, ClaimIsOwn, Holds
  <2>9. q.key = k
    BY <1>1 DEF Worker
  <2>8. ASSUME NEW v \in Workers, v # w, worker'[v].pc \in ClaimedSteps
        PROVE  /\ worker'[v] = worker[v]
               /\ worker[v].key \in Keys \ {k}
               /\ delivery'[worker[v].key] = delivery[worker[v].key]
    <3>1. worker'[v] = worker[v]
      BY <2>3, <2>8
    <3> QED
      BY <2>4, <2>7, <2>8, <3>1
  <2> HIDE DEF q
  <2>10. ClaimIsOwn'
    <3>1. ASSUME NEW v \in Workers, v # w, worker'[v].pc \in ClaimedSteps
          PROVE  /\ worker[v].key \in Keys
                 /\ Holds(v, worker[v].key) \/ delivery[worker[v].key].status = "FAILED"
      BY <2>8, <3>1 DEF ClaimInv, ClaimIsOwn
    <3>2. ASSUME NEW v \in Workers, worker'[v].pc \in ClaimedSteps
          PROVE  /\ worker'[v].key \in Keys
                 /\ \/ /\ delivery'[worker'[v].key].status = "PROCESSING"
                       /\ delivery'[worker'[v].key].by = v
                    \/ delivery'[worker'[v].key].status = "FAILED"
      <4>1. CASE v = w
        BY <2>3, <2>4, <2>9, <4>1
      <4>2. CASE v # w
        BY <2>8, <3>1, <3>2, <4>2 DEF Holds
      <4> QED
        BY <4>1, <4>2
    <3> QED
      BY <3>2 DEF ClaimIsOwn, Holds
  <2>13. WorkIsApart'
    <3>1. ASSUME NEW v \in Workers, NEW u \in Workers, v # u,
                 worker'[v].pc \in ClaimedSteps, worker'[u].pc \in ClaimedSteps
          PROVE  worker'[v].key # worker'[u].key
      <4>1. CASE v = w
        BY <2>3, <2>8, <2>9, <3>1, <4>1
      <4>2. CASE u = w
        BY <2>3, <2>8, <2>9, <3>1, <4>2
      <4>3. CASE v # w /\ u # w
        BY <2>8, <3>1, <4>3 DEF ClaimInv, WorkIsApart
      <4> QED
        BY <4>1, <4>2, <4>3
    <3> QED
      BY <3>1 DEF WorkIsApart
  <2>11. UnsentBefore'
    BY <1>1, <2>3, <2>5, <2>9 DEF ClaimInv, UnsentBefore
  <2>12. UnsentUnlessClaimed'
    BY <1>1, <2>4 DEF ClaimInv, UnsentUnlessClaimed
  <2> QED
    BY <1>1, <2>6, <2>10, <2>11, <2>12, <2>13 DEF ClaimInv, AtMostOneSend
<1>3. CASE ~Claimable(k)
  <2> DEFINE r == NextOf(worker[w], worker[w].todo \ {k})
  <2>1. Stays(w, r) /\ UNCHANGED delivery
    BY <1>3 DEF Claim
  <2>2. worker[w].todo \ {k} \in SUBSET Keys
    BY <1>1 DEF Worker
  <2>3. r \in Worker /\ r.pc \notin ClaimedSteps
    BY <1>1, <2>2, NextOfType
  <2>4. r.pc \notin BeforeSending
    BY <2>3 DEF BeforeSending, ClaimedSteps
  <2>5. automation' \in BOOLEAN /\ losses' \in Nat
    BY DEF ClaimInv, SendTypeOK
  <2> HIDE DEF r
  <2> QED
    BY <1>1, <2>1, <2>3, <2>4, <2>5, MoveKeepsClaims
<1> QED
  BY <1>2, <1>3

\* The message goes out once: this worker had not sent it and nobody else works on it.
LEMMA SendKeepsClaims ==
    ASSUME ClaimInv, NEW w \in Workers, Send(w), UNCHANGED <<automation, losses>>
    PROVE  ClaimInv'
<1> DEFINE k == worker[w].key
<1>1. /\ worker \in [Workers -> Worker] /\ sent \in [Keys -> Nat] /\ worker[w].pc = "ready"
      /\ UNCHANGED delivery
  BY DEF ClaimInv, SendTypeOK, Send
<1>2. worker[w].pc \in ClaimedSteps /\ worker[w].pc \in BeforeSending
  BY <1>1 DEF ClaimedSteps, BeforeSending
<1>3. /\ k \in Keys /\ sent[k] = 0 /\ delivery[k].status \in {"PROCESSING", "FAILED"}
  BY <1>2 DEF ClaimInv, ClaimIsOwn, UnsentBefore, Holds
<1>4. PICK s \in {"sent", "failed"} : Stays(w, [worker[w] EXCEPT !.pc = s])
  BY DEF Send
<1> DEFINE q == [worker[w] EXCEPT !.pc = s]
<1>5. q \in Worker /\ q.key = k /\ q.pc = s
  BY <1>1 DEF Worker, SendSteps, ClaimedSteps
<1>6. worker'[w] = q /\ \A v \in Workers \ {w} : worker'[v] = worker[v]
  BY <1>1, <1>4 DEF Stays
<1>7. sent' = [sent EXCEPT ![k] = 1] \/ sent' = sent
  BY <1>3 DEF Send
<1>8. SendTypeOK'
  BY <1>1, <1>4, <1>5, <1>7 DEF ClaimInv, SendTypeOK, Stays
<1>8a. \A v \in Workers : /\ worker'[v].key = worker[v].key
                          /\ worker'[v].pc \in ClaimedSteps => worker[v].pc \in ClaimedSteps
  BY <1>2, <1>5, <1>6
<1>9. ClaimIsOwn'
  BY <1>1, <1>8a DEF ClaimInv, ClaimIsOwn, Holds
<1>10. WorkIsApart'
  BY <1>8a DEF ClaimInv, WorkIsApart
<1>11. UnsentBefore'
  <2>1. ASSUME NEW v \in Workers, worker'[v].pc \in BeforeSending
        PROVE  sent'[worker'[v].key] = 0
    <3>1. v # w /\ worker'[v] = worker[v]
      BY <1>5, <1>6, <2>1 DEF BeforeSending
    <3>2. worker[v].pc \in ClaimedSteps
      BY <2>1, <3>1 DEF BeforeSending, ClaimedSteps
    <3>3. worker[v].key \in Keys /\ worker[v].key # k
      BY <1>2, <3>1, <3>2 DEF ClaimInv, ClaimIsOwn, WorkIsApart
    <3> QED
      BY <1>1, <1>7, <2>1, <3>1, <3>3 DEF ClaimInv, UnsentBefore
  <2> QED
    BY <2>1 DEF UnsentBefore
<1>12. UnsentUnlessClaimed'
  BY <1>1, <1>3, <1>7 DEF ClaimInv, UnsentUnlessClaimed
<1>13. AtMostOneSend'
  BY <1>1, <1>7 DEF ClaimInv, AtMostOneSend
<1> QED
  BY <1>8, <1>9, <1>10, <1>11, <1>12, <1>13 DEF ClaimInv

\* A begun pass gives up on claims, and a receipt is noted: no claim is made or freed.
LEMMA BeginKeepsClaims ==
    ASSUME ClaimInv, clock \in Nat, NEW w \in Workers, BeginPass(w),
           UNCHANGED <<automation, losses>>
    PROVE  ClaimInv'
<1>1. /\ worker \in [Workers -> Worker] /\ delivery \in [Keys -> Delivery]
      /\ sent' = sent
  BY DEF ClaimInv, SendTypeOK, BeginPass
<1>2. PICK q \in {[Resting EXCEPT !.pc = "read", !.now = clock], Resting} : Stays(w, q)
  BY DEF BeginPass
<1>3. q \in Worker /\ q.pc \notin ClaimedSteps
  <2>1. Resting \in Worker /\ Resting.pc \notin ClaimedSteps
    BY DEF Resting, Worker, SendSteps, ClaimedSteps, NoTime
  <2>2. CASE q = Resting
    BY <2>1, <2>2
  <2>3. CASE q = [Resting EXCEPT !.pc = "read", !.now = clock]
    BY <2>1, <2>3 DEF Worker, SendSteps, ClaimedSteps
  <2> QED
    BY <2>2, <2>3
<1>4. \A j \in Keys : \/ delivery'[j] = delivery[j]
                      \/ /\ delivery[j].status = "PROCESSING"
                         /\ delivery'[j] = [delivery[j] EXCEPT !.status = "FAILED",
                                                               !.by = Nobody, !.at = NoTime]
  BY DEF BeginPass
<1>5. \A j \in Keys : \/ delivery'[j] = delivery[j]
                      \/ delivery'[j].status = "FAILED" /\ delivery[j].status = "PROCESSING"
  <2>1. ASSUME NEW j \in Keys, delivery'[j] # delivery[j]
        PROVE  delivery'[j].status = "FAILED" /\ delivery[j].status = "PROCESSING"
    <3>1. delivery[j] \in Delivery
      BY <1>1
    <3>2. /\ delivery[j].status = "PROCESSING"
          /\ delivery'[j] = [delivery[j] EXCEPT !.status = "FAILED", !.by = Nobody, !.at = NoTime]
      BY <1>4, <2>1
    <3> QED
      BY <3>1, <3>2 DEF Delivery
  <2> QED
    BY <2>1
<1>6. worker'[w] = q /\ \A v \in Workers \ {w} : worker'[v] = worker[v]
  BY <1>1, <1>2 DEF Stays
<1>7. SendTypeOK'
  <2>1. ASSUME NEW j \in Keys PROVE delivery'[j] \in Delivery
    <3>1. delivery[j] \in Delivery
      BY <1>1
    <3> QED
      BY <1>4, <3>1, GivenUpDelivery
  <2>2. delivery' \in [Keys -> Delivery]
    BY <2>1 DEF BeginPass
  <2>3. worker' \in [Workers -> Worker]
    BY <1>1, <1>2, <1>3 DEF Stays
  <2> QED
    BY <1>1, <2>2, <2>3 DEF ClaimInv, SendTypeOK
<1>8. ClaimIsOwn'
  BY <1>3, <1>5, <1>6 DEF ClaimInv, ClaimIsOwn, Holds
<1>9. WorkIsApart'
  BY <1>3, <1>6 DEF ClaimInv, WorkIsApart
<1>10. UnsentBefore'
  BY <1>1, <1>3, <1>6 DEF ClaimInv, UnsentBefore, BeforeSending, ClaimedSteps
<1>11. (UnsentUnlessClaimed /\ AtMostOneSend)'
  BY <1>1, <1>5 DEF ClaimInv, UnsentUnlessClaimed, AtMostOneSend
<1> QED
  BY <1>7, <1>8, <1>9, <1>10, <1>11 DEF ClaimInv

LEMMA RecordKeepsClaims ==
    ASSUME ClaimInv, NEW w \in Workers, RecordProvider(w), UNCHANGED <<automation, losses>>
    PROVE  ClaimInv'
<1> DEFINE k == worker[w].key
           q == [worker[w] EXCEPT !.pc = "recorded"]
<1>1. /\ worker \in [Workers -> Worker] /\ delivery \in [Keys -> Delivery]
      /\ worker[w].pc = "sent" /\ Stays(w, q) /\ sent' = sent
  BY DEF ClaimInv, SendTypeOK, RecordProvider
<1>2. worker[w].pc \in ClaimedSteps
  BY <1>1 DEF ClaimedSteps
<1>3. k \in Keys
  BY <1>2 DEF ClaimInv, ClaimIsOwn
<1>4. q \in Worker /\ q.pc = "recorded" /\ q.key = k
  BY <1>1 DEF Worker, SendSteps, ClaimedSteps
<1>5. worker'[w] = q /\ \A v \in Workers \ {w} : worker'[v] = worker[v]
  BY <1>1 DEF Stays
<1>6. \/ delivery' = delivery
      \/ delivery' = [delivery EXCEPT ![k] = [delivery[k] EXCEPT !.provider = TRUE]]
  BY DEF RecordProvider
<1>7. \A j \in Keys : /\ delivery'[j].status = delivery[j].status
                      /\ delivery'[j].by = delivery[j].by
  <2> DEFINE e == [delivery[k] EXCEPT !.provider = TRUE]
  <2>1. delivery[k] \in Delivery
    BY <1>1, <1>3
  <2>2. e.status = delivery[k].status /\ e.by = delivery[k].by
    BY <2>1, RecordedDelivery
  <2> QED
    BY <1>1, <1>3, <1>6, <2>2
<1>8. SendTypeOK'
  <2>1. delivery' \in [Keys -> Delivery]
    <3>1. delivery[k] \in Delivery
      BY <1>1, <1>3
    <3>2. [delivery[k] EXCEPT !.provider = TRUE] \in Delivery
      BY <3>1, RecordedDelivery
    <3> QED
      BY <1>1, <1>6, <3>2
  <2>2. worker' \in [Workers -> Worker]
    BY <1>1, <1>4 DEF Stays
  <2> QED
    BY <1>1, <2>1, <2>2 DEF ClaimInv, SendTypeOK
<1> HIDE DEF q
<1>13. \A v \in Workers : /\ worker'[v].key = worker[v].key
                          /\ worker'[v].pc \in ClaimedSteps => worker[v].pc \in ClaimedSteps
  BY <1>2, <1>4, <1>5
<1>9. ClaimIsOwn'
  BY <1>7, <1>13 DEF ClaimInv, ClaimIsOwn, Holds
<1>10. WorkIsApart'
  BY <1>13 DEF ClaimInv, WorkIsApart
<1>11. UnsentBefore'
  BY <1>1, <1>4, <1>5 DEF ClaimInv, UnsentBefore, BeforeSending
<1>12. (UnsentUnlessClaimed /\ AtMostOneSend)'
  BY <1>1, <1>7 DEF ClaimInv, UnsentUnlessClaimed, AtMostOneSend
<1> QED
  BY <1>8, <1>9, <1>10, <1>11, <1>12 DEF ClaimInv

-----------------------------------------------------------------------------
LEMMA WorkerKeepsClaims ==
    ASSUME ClaimInv, clock \in Nat, NEW w \in Workers, WorkerStep(w) \/ LoseWorker(w)
    PROVE  ClaimInv'
<1>1. worker[w] \in Worker /\ automation \in BOOLEAN /\ losses \in Nat
  BY DEF ClaimInv, SendTypeOK
<1>2. worker[w].todo \in SUBSET Keys
  BY <1>1 DEF Worker
<1>3. ASSUME UNCHANGED <<delivery, sent, automation, losses>>,
             Stays(w, NextOf(worker[w], worker[w].todo))
      PROVE  ClaimInv'
  <2>1. NextOf(worker[w], worker[w].todo) \in Worker
        /\ NextOf(worker[w], worker[w].todo).pc \notin ClaimedSteps \cup BeforeSending
    BY <1>1, <1>2, NextOfType DEF BeforeSending, ClaimedSteps
  <2> QED
    BY <1>1, <1>3, <2>1, MoveKeepsClaims
<1>4. ASSUME UNCHANGED <<delivery, sent, automation, losses>>, worker[w].pc \in ClaimedSteps,
             NEW s \in ClaimedSteps, NEW b \in BOOLEAN,
             s \in BeforeSending => worker[w].pc \in BeforeSending,
             Stays(w, [worker[w] EXCEPT !.pc = s, !.ok = b])
      PROVE  ClaimInv'
  <2> DEFINE q == [worker[w] EXCEPT !.pc = s, !.ok = b]
  <2>1. q \in Worker /\ q.pc = s /\ q.key = worker[w].key
    BY <1>1 DEF Worker, SendSteps
  <2> HIDE DEF q
  <2>2. Stays(w, q)
    BY <1>4 DEF q
  <2> QED
    BY <1>1, <1>4, <2>1, <2>2, MoveKeepsClaims
<1>5. ASSUME UNCHANGED <<delivery, sent, automation, losses>>, worker[w].pc \in ClaimedSteps,
             Stays(w, [worker[w] EXCEPT !.pc = "failed"])
      PROVE  ClaimInv'
  <2>1. [worker[w] EXCEPT !.pc = "failed"]
        = [worker[w] EXCEPT !.pc = "failed", !.ok = worker[w].ok]
    BY <1>1 DEF Worker
  <2>2. worker[w].ok \in BOOLEAN /\ "failed" \in ClaimedSteps \ BeforeSending
    BY <1>1 DEF Worker, ClaimedSteps, BeforeSending
  <2> QED
    BY <1>4, <1>5, <2>1, <2>2
<1>6. CASE LoseWorker(w)
  <2>1. Resting \in Worker /\ Resting.pc \notin ClaimedSteps \cup BeforeSending
    BY DEF Resting, Worker, SendSteps, ClaimedSteps, BeforeSending, NoTime
  <2>2. /\ UNCHANGED <<delivery, sent, automation>> /\ losses' \in Nat
        /\ Stays(w, Resting)
    BY <1>1, <1>6 DEF LoseWorker
  <2> QED
    BY <1>1, <2>1, <2>2, MoveKeepsClaims
<1>7. CASE WorkerStep(w)
  <2>1. UNCHANGED <<automation, losses>>
    BY <1>7 DEF WorkerStep
  <2>2. CASE BeginPass(w)
    BY <2>1, <2>2, BeginKeepsClaims
  <2>3. CASE ReadCandidates(w)
    <3>1. UNCHANGED <<delivery, sent>>
      BY <2>3 DEF ReadCandidates
    <3>2. PICK todo \in SUBSET Keys : Stays(w, NextOf(worker[w], todo))
      BY <2>3 DEF ReadCandidates, Candidates, Pending
    <3>3. NextOf(worker[w], todo) \in Worker
          /\ NextOf(worker[w], todo).pc \notin ClaimedSteps \cup BeforeSending
      BY <1>1, NextOfType DEF BeforeSending, ClaimedSteps
    <3> QED
      BY <1>1, <2>1, <3>1, <3>2, <3>3, MoveKeepsClaims
  <2>4. ASSUME NEW k \in Keys, Claim(w, k) PROVE ClaimInv'
    BY <2>1, <2>4, ClaimKeepsClaims
  <2>5. CASE CheckPreference(w)
    <3>1. /\ worker[w].pc = "claimed" /\ UNCHANGED <<delivery, sent>>
          /\ worker[w].pc \in ClaimedSteps \cap BeforeSending
          /\ "preferred" \in ClaimedSteps
      BY <2>5 DEF CheckPreference, ClaimedSteps, BeforeSending
    <3>2. CASE Stays(w, [worker[w] EXCEPT !.pc = "preferred", !.ok = automation])
      BY <1>1, <1>4, <2>1, <3>1, <3>2
    <3>3. CASE Stays(w, [worker[w] EXCEPT !.pc = "failed"])
      BY <1>5, <2>1, <3>1, <3>3
    <3> QED
      BY <2>5, <3>2, <3>3 DEF CheckPreference
  <2>6. CASE CheckJump(w)
    <3>1. /\ UNCHANGED <<delivery, sent>>
          /\ worker[w].pc \in ClaimedSteps \cap BeforeSending
          /\ "current" \in ClaimedSteps
      BY <2>6 DEF CheckJump, ClaimedSteps, BeforeSending
    <3>2. PICK b \in BOOLEAN : Stays(w, [worker[w] EXCEPT !.pc = "current", !.ok = b])
      <4>1. worker[w].ok \in BOOLEAN
        BY <1>1 DEF Worker
      <4>2. (worker[w].ok /\ Sendable(worker[w].key, worker[w].now)) \in BOOLEAN
        BY <4>1
      <4> QED
        BY <2>6, <4>2 DEF CheckJump
    <3> QED
      BY <1>4, <2>1, <3>1, <3>2
  <2>7. CASE CheckStop(w)
    <3>1. /\ UNCHANGED <<delivery, sent>>
          /\ worker[w].pc \in ClaimedSteps \cap BeforeSending
          /\ "ready" \in ClaimedSteps /\ "refused" \in ClaimedSteps
      BY <2>7 DEF CheckStop, ClaimedSteps, BeforeSending
    <3>2. PICK b \in BOOLEAN, s \in {"ready", "refused"} :
             Stays(w, [worker[w] EXCEPT !.pc = s, !.ok = b])
      <4> DEFINE b == worker[w].ok /\ Person(worker[w].key) \notin setup.stopped
                 s == IF b THEN "ready" ELSE "refused"
      <4>1. b \in BOOLEAN /\ s \in {"ready", "refused"}
        BY <1>1 DEF Worker
      <4>2. [worker[w] EXCEPT !.ok = b, !.pc = s] = [worker[w] EXCEPT !.pc = s, !.ok = b]
        BY <1>1 DEF Worker
      <4>3. Stays(w, [worker[w] EXCEPT !.ok = b, !.pc = s])
        BY <2>7 DEF CheckStop
      <4> QED
        BY <4>1, <4>2, <4>3
    <3> QED
      BY <1>4, <2>1, <3>1, <3>2
  <2>8. CASE Release(w)
    <3>1. worker[w].pc \in ClaimedSteps \cap BeforeSending
      BY <2>8 DEF Release, ClaimedSteps, BeforeSending
    <3> QED
      BY <2>1, <2>8, <3>1, EndKeepsClaims DEF Release
  <2>9. CASE Send(w)
    BY <2>1, <2>9, SendKeepsClaims
  <2>10. CASE RecordProvider(w)
    BY <2>1, <2>10, RecordKeepsClaims
  <2>11. CASE Settle(w)
    <3>1. worker[w].pc \in ClaimedSteps /\ UNCHANGED sent
      BY <2>11 DEF Settle, ClaimedSteps
    <3>2. CASE Holds(w, worker[w].key)
      <4>1. /\ EndClaim(w, worker[w].key, "DELIVERED")
            /\ Stays(w, NextOf(worker[w], worker[w].todo))
        BY <2>11, <3>2 DEF Settle
      <4> QED
        BY <2>1, <3>1, <4>1, EndKeepsClaims
    <3>3. CASE ~Holds(w, worker[w].key)
      BY <1>5, <2>1, <2>11, <3>1, <3>3 DEF Settle
    <3> QED
      BY <3>2, <3>3
  <2>12. CASE StoreFails(w)
    BY <1>5, <2>1, <2>12 DEF StoreFails
  <2>13. CASE Fail(w)
    <3>1. worker[w].pc \in ClaimedSteps /\ UNCHANGED sent
          /\ Stays(w, NextOf(worker[w], worker[w].todo))
      BY <2>13 DEF Fail, ClaimedSteps
    <3>2. CASE EndClaim(w, worker[w].key, "FAILED")
      BY <2>1, <3>1, <3>2, EndKeepsClaims
    <3>3. CASE UNCHANGED delivery
      BY <1>3, <2>1, <3>1, <3>3
    <3> QED
      BY <2>13, <3>2, <3>3 DEF Fail
  <2> QED
    BY <1>7, <2>2, <2>3, <2>4, <2>5, <2>6, <2>7, <2>8, <2>9, <2>10, <2>11, <2>12, <2>13
       DEF WorkerStep
<1> QED
  BY <1>6, <1>7

-----------------------------------------------------------------------------
LEMMA SendInitEstablishes == SendInit => SendIInv
<1> SUFFICES ASSUME SendInit PROVE SendIInv
  OBVIOUS
<1>1. IInv
  BY InitEstablishes DEF SendInit
<1>2. NoDelivery \in Delivery /\ NoDelivery.status = "none"
  BY DEF NoDelivery, Delivery, DeliveryStatuses, NoTime
<1>3. Resting \in Worker /\ Resting.pc = "idle"
  BY DEF Resting, Worker, SendSteps, NoTime
<1>4. /\ \A k \in Keys : delivery[k] = NoDelivery /\ sent[k] = 0
      /\ \A w \in Workers : worker[w] = Resting
  BY DEF SendInit
<1>5. SendTypeOK
  BY <1>2, <1>3 DEF SendInit, SendTypeOK
<1>6. ClaimIsOwn /\ WorkIsApart /\ UnsentBefore
  BY <1>3, <1>4 DEF ClaimIsOwn, WorkIsApart, UnsentBefore, ClaimedSteps, BeforeSending
<1>7. UnsentUnlessClaimed /\ AtMostOneSend
  BY <1>4 DEF UnsentUnlessClaimed, AtMostOneSend
<1> QED
  BY <1>1, <1>5, <1>6, <1>7 DEF SendIInv, ClaimInv

LEMMA UntouchedClaimsStay ==
    ASSUME ClaimInv, UNCHANGED <<delivery, worker, sent, losses>>, automation' \in BOOLEAN
    PROVE  ClaimInv'
BY DEF ClaimInv, SendTypeOK, ClaimIsOwn, WorkIsApart, UnsentBefore, UnsentUnlessClaimed,
       AtMostOneSend, Holds

\* Beside the follow-ups' own steps there are only those that leave them alone.
LEMMA SendStepIsStep ==
    ASSUME SendIInv, [SendNext]_sendVars
    PROVE  [Next]_vars
<1>1. ASSUME NEW k \in Keys, ScheduleRow(k) PROVE Next
  BY <1>1, ScheduleRowIsSchedulerStep DEF SendIInv, Next
<1>2. CASE SurroundingStep
  BY <1>1, <1>2 DEF SurroundingStep, Next
<1>3. ASSUME NEW w \in Workers, WorkerStep(w) PROVE [Next]_vars
  <2>1. worker[w].pc = "recorded" => worker[w].key \in Keys
    BY DEF SendIInv, ClaimInv, ClaimIsOwn, ClaimedSteps
  <2> QED
    BY <1>3, <2>1, WorkerStepIsStep
<1>4. CASE SwitchAutomation \/ (\E w \in Workers : LoseWorker(w)) \/ UNCHANGED sendVars
  BY <1>4 DEF SwitchAutomation, LoseWorker, sendVars, vars
<1> QED
  BY <1>2, <1>3, <1>4 DEF SendNext

LEMMA SendStepPreserves == SendIInv /\ [SendNext]_sendVars => SendIInv'
<1> SUFFICES ASSUME SendIInv, [SendNext]_sendVars PROVE SendIInv'
  OBVIOUS
<1>1. IInv'
  BY SendStepIsStep, StepPreserves DEF SendIInv
<1>2. ClaimInv /\ clock \in Nat /\ automation \in BOOLEAN
  BY DEF SendIInv, IInv, Surroundings, ClaimInv, SendTypeOK
<1>3. ASSUME SurroundingStep \/ UNCHANGED sendVars PROVE ClaimInv'
  BY <1>2, <1>3, UntouchedClaimsStay DEF SurroundingStep, sendingVars, sendVars
<1>4. ASSUME SwitchAutomation PROVE ClaimInv'
  BY <1>2, <1>4, UntouchedClaimsStay DEF SwitchAutomation
<1>5. ASSUME NEW w \in Workers, WorkerStep(w) \/ LoseWorker(w) PROVE ClaimInv'
  BY <1>2, <1>5, WorkerKeepsClaims
<1>6. ClaimInv'
  BY <1>3, <1>4, <1>5 DEF SendNext
<1> QED
  BY <1>1, <1>6 DEF SendIInv

LEMMA SendInvariantHolds == SendSpec => []SendIInv
BY SendInitEstablishes, SendStepPreserves, PTL DEF SendSpec

\* The record of every claim, worker and send stays well formed under every interleaving.
THEOREM SendingTypeCorrect == SendSpec => []SendTypeOK
<1>1. SendIInv => SendTypeOK
  BY DEF SendIInv, ClaimInv
<1> QED
  BY <1>1, SendInvariantHolds, PTL

\* "Durable claims prevent a second send": no crash, lost answer, expired lease,
\* reopening or second worker makes automatic sending hand a follow-up's message to
\* the provider twice.
THEOREM NoSecondSend == SendSpec => []AtMostOneSend
<1>1. SendIInv => AtMostOneSend
  BY DEF SendIInv, ClaimInv
<1> QED
  BY <1>1, SendInvariantHolds, PTL

\* The one claim that may be taken again, a released one, never sent anything.
THEOREM ReleaseIsSafe == SendSpec => []ReleasedWasNotSent
<1>1. SendIInv => ReleasedWasNotSent
  BY DEF SendIInv, ClaimInv, UnsentUnlessClaimed, ReleasedWasNotSent
<1> QED
  BY <1>1, SendInvariantHolds, PTL

\* Automatic sending beside the owner and the scheduler does to the follow-ups only
\* what FollowUps allows: a step of it is a step of FollowUps or changes none of them.
THEOREM SendingImplementsFollowUps == SendSpec => FollowUpsSpec
<1>1. SendInit => Init
  BY DEF SendInit
<1>2. SendIInv /\ [SendNext]_sendVars => [Next]_vars
  BY SendStepIsStep
<1> QED
  BY <1>1, <1>2, SendInvariantHolds, PTL DEF SendSpec, FollowUpsSpec

-----------------------------------------------------------------------------
(* How deliveries move: a step makes one claim, or only touches claims.     *)

OneClaimMade ==
    \E k \in Keys : /\ Claimable(k)
                    /\ \A j \in Keys \ {k} : delivery'[j] = delivery[j]

OnlyClaimsTouched ==
    \A k \in Keys : delivery'[k] = delivery[k] \/ delivery[k].status = "PROCESSING"

LEMMA DeliveriesMove ==
    ASSUME SendTypeOK, [SendNext]_sendVars
    PROVE  OneClaimMade \/ OnlyClaimsTouched
<1>1. delivery \in [Keys -> Delivery]
  BY DEF SendTypeOK
<1>2. ASSUME UNCHANGED delivery PROVE OnlyClaimsTouched
  BY <1>2 DEF OnlyClaimsTouched
<1>3. ASSUME NEW w \in Workers, NEW k, NEW status, EndClaim(w, k, status)
      PROVE  OnlyClaimsTouched
  BY <1>1, <1>3 DEF EndClaim, Holds, OnlyClaimsTouched
<1>4. ASSUME SurroundingStep \/ SwitchAutomation \/ UNCHANGED sendVars
      PROVE  OnlyClaimsTouched
  BY <1>2, <1>4 DEF SurroundingStep, SwitchAutomation, sendVars, sendingVars
<1>5. ASSUME NEW w \in Workers, LoseWorker(w) PROVE OnlyClaimsTouched
  BY <1>2, <1>5 DEF LoseWorker
<1>6. ASSUME NEW w \in Workers, WorkerStep(w) PROVE OneClaimMade \/ OnlyClaimsTouched
  <2>1. CASE BeginPass(w)
    BY <1>1, <2>1 DEF BeginPass, OnlyClaimsTouched
  <2>2. ASSUME NEW k \in Keys, Claim(w, k) PROVE OneClaimMade \/ OnlyClaimsTouched
    <3>1. CASE Claimable(k)
      BY <1>1, <2>2, <3>1 DEF Claim, OneClaimMade
    <3>2. CASE ~Claimable(k)
      BY <1>2, <2>2, <3>2 DEF Claim
    <3> QED
      BY <3>1, <3>2
  <2>3. CASE RecordProvider(w)
    BY <1>1, <2>3 DEF RecordProvider, Holds, OnlyClaimsTouched
  <2>4. CASE Release(w) \/ Settle(w) \/ Fail(w)
    BY <1>2, <1>3, <2>4 DEF Release, Settle, Fail
  <2>5. CASE \/ ReadCandidates(w) \/ CheckPreference(w) \/ CheckJump(w) \/ CheckStop(w)
             \/ Send(w) \/ StoreFails(w)
    BY <1>2, <2>5 DEF ReadCandidates, CheckPreference, CheckJump, CheckStop, Send, StoreFails
  <2> QED
    BY <1>6, <2>1, <2>2, <2>3, <2>4, <2>5 DEF WorkerStep
<1> QED
  BY <1>4, <1>5, <1>6 DEF SendNext

LEMMA FinalDeliveryStays ==
    ASSUME SendTypeOK, [SendNext]_sendVars, NEW k \in Keys,
           delivery[k].status \in {"FAILED", "DELIVERED"}
    PROVE  delivery'[k] = delivery[k]
<1>1. CASE OneClaimMade
  BY <1>1 DEF OneClaimMade, Claimable
<1>2. CASE OnlyClaimsTouched
  BY <1>2 DEF OnlyClaimsTouched
<1> QED
  BY <1>1, <1>2, DeliveriesMove

\* A receipt or a failure is never rewritten, by a late worker or by an expiry.
THEOREM FinalDeliveriesAreFinal == SendSpec => FinalDeliveriesStay
<1>1. SendTypeOK /\ [SendNext]_sendVars
      => [\A k \in Keys : delivery[k].status \in {"FAILED", "DELIVERED"}
                          => delivery'[k] = delivery[k]]_sendVars
  BY FinalDeliveryStays
<1> QED
  BY <1>1, SendingTypeCorrect, PTL DEF SendSpec, FinalDeliveriesStay

\* Only a claim on a person nobody is busy with makes another delivery of the person
\* be processed.
LEMMA SendStepKeepsOneClaim ==
    ASSUME SendTypeOK, OneClaimPerPerson, [SendNext]_sendVars
    PROVE  OneClaimPerPerson'
<1>1. CASE OneClaimMade
  <2>1. PICK k \in Keys : /\ Claimable(k)
                          /\ \A j \in Keys \ {k} : delivery'[j] = delivery[j]
    BY <1>1 DEF OneClaimMade
  <2>2. \A j \in Keys : Person(j) = Person(k) => delivery[j].status # "PROCESSING"
    BY <2>1 DEF Claimable, PersonIsBusy
  <2> QED
    BY <2>1, <2>2 DEF OneClaimPerPerson
<1>2. CASE OnlyClaimsTouched
  BY <1>2 DEF OnlyClaimsTouched, OneClaimPerPerson
<1> QED
  BY <1>1, <1>2, DeliveriesMove

\* One claim at a time for a person, whatever the number of workers.
THEOREM OnePersonOneClaim == SendSpec => []OneClaimPerPerson
<1>1. SendInit => OneClaimPerPerson
  BY DEF SendInit, NoDelivery, OneClaimPerPerson
<1>2. SendTypeOK /\ OneClaimPerPerson /\ [SendNext]_sendVars => OneClaimPerPerson'
  BY SendStepKeepsOneClaim
<1> QED
  BY <1>1, <1>2, SendingTypeCorrect, PTL DEF SendSpec

-----------------------------------------------------------------------------
(* What is recorded as sent was sent.                                      *)

\* A worker past its send has sent; past its receipt, the claim it holds has it.
SendsAreReal ==
    \A w \in Workers :
        /\ worker[w].pc \in {"sent", "recorded"} => sent[worker[w].key] = 1
        /\ worker[w].pc = "recorded" /\ Holds(w, worker[w].key)
           => delivery[worker[w].key].provider

ReceiptInv == SendsAreReal /\ AutomaticDoneWasSent

\* Neither the owner nor the scheduler marks a follow-up done automatically.
LEMMA NothingElseMarksAutomatic ==
    ASSUME GoodRows, SurroundingStep, NEW k \in Keys, row'[k].method = "automatic"
    PROVE  row[k].method = "automatic"
<1>1. row \in [Keys -> Row] /\ row[k] \in Row
  BY DEF GoodRows
<1>2. ASSUME NEW S, NEW how \in CancellationMethods, Cancel(S, how)
      PROVE  row[k].method = "automatic"
  BY <1>1, <1>2 DEF Cancel, Row, CancellationMethods, ReconcilableMethods
<1>3. ASSUME NEW j \in Keys, NEW s \in Finished,
             row' = [row EXCEPT ![j].status = s, ![j].method = "owner"]
      PROVE  row[k].method = "automatic"
  BY <1>1, <1>3 DEF Row
<1>4. ASSUME NEW j \in Keys, Reopen(j) PROVE row[k].method = "automatic"
  BY <1>1, <1>4 DEF Reopen, Row
<1>5. ASSUME NEW j \in Keys, NEW t, Snooze(j, t) PROVE row[k].method = "automatic"
  BY <1>1, <1>5 DEF Snooze, Row
<1>6. ASSUME NEW c \in Contacts, ResumeMix(c) PROVE row[k].method = "automatic"
  BY <1>1, <1>6 DEF ResumeMix, Row
<1>7. ASSUME NEW j \in Keys, ScheduleRow(j) PROVE row[k].method = "automatic"
  <2>1. PICK r \in ScheduledRows(j) : row' = [row EXCEPT ![j] = r]
    BY <1>7 DEF ScheduleRow
  <2>2. r.method \in {"", "reconciled"}
    <3>1. row[j] \in Row
      BY <1>1
    <3>2. \/ \E s \in 0..MaxClock, t \in Wordings : r = NewRow(j, s, t)
          \/ \E t \in Wordings : r = Prepared(j, row[j], t)
          \/ r = [row[j] EXCEPT !.status = "CANCELED", !.method = "reconciled"]
      BY <2>1 DEF ScheduledRows
    <3>3. ASSUME NEW s, NEW t PROVE NewRow(j, s, t).method = ""
      BY DEF NewRow
    <3>4. ASSUME NEW t PROVE Prepared(j, row[j], t).method = ""
      BY <3>1 DEF Prepared, Row
    <3>5. [row[j] EXCEPT !.status = "CANCELED", !.method = "reconciled"].method = "reconciled"
      BY <3>1 DEF Row
    <3> QED
      BY <3>2, <3>3, <3>4, <3>5
  <2> QED
    BY <1>1, <2>1, <2>2
<1>8. ASSUME UNCHANGED row PROVE row[k].method = "automatic"
  BY <1>8
<1>9. {"mix_stopped_for_contact", "contact_archived", "do_not_contact", "mix_paused",
       "mix_archived", "reconciled"} \subseteq CancellationMethods
  BY DEF CancellationMethods, ReconcilableMethods
<1>10. ASSUME OwnerAction PROVE row[k].method = "automatic"
  <2>1. ASSUME NEW j \in Keys, Complete(j) PROVE row[k].method = "automatic"
    BY <1>3, <2>1 DEF Complete
  <2>2. ASSUME NEW j \in Keys, BeginDraft(j) \/ DiscardDraft(j)
        PROVE  row[k].method = "automatic"
    BY <1>8, <2>2 DEF BeginDraft, DiscardDraft
  <2>3. ASSUME NEW c \in Contacts,
               StopMix(c) \/ ArchiveContact(c) \/ SetDoNotContact(c) \/ RemoveEnrollment(c)
        PROVE  row[k].method = "automatic"
    BY <1>2, <1>9, <2>3 DEF StopMix, ArchiveContact, SetDoNotContact, RemoveEnrollment
  <2>4. ASSUME NEW c \in Contacts,
               RestoreContact(c) \/ ClearDoNotContact(c) \/ StartEnrollment(c)
        PROVE  row[k].method = "automatic"
    BY <1>8, <2>4 DEF RestoreContact, ClearDoNotContact, StartEnrollment
  <2>5. ASSUME PauseMix \/ ArchiveMix PROVE row[k].method = "automatic"
    BY <1>2, <1>9, <2>5 DEF PauseMix, ArchiveMix
  <2>6. ASSUME \/ ActivateMix
               \/ \E r \in Rules : ChangeTimes(r)
               \/ \E t \in Wordings : ChangeWording(t)
        PROVE  row[k].method = "automatic"
    BY <1>8, <2>6 DEF ActivateMix, ChangeTimes, ChangeWording
  <2> QED
    BY <1>4, <1>5, <1>6, <1>10, <2>1, <2>2, <2>3, <2>4, <2>5, <2>6 DEF OwnerAction
<1> QED
  BY <1>7, <1>8, <1>10 DEF SurroundingStep, OwnerStep, FinishSave, InsertDraft, Tick

\* A step of the owner or the scheduler disturbs no receipt.
LEMMA ReceiptsStay ==
    ASSUME SendIInv, ReceiptInv, UNCHANGED <<delivery, worker, sent>>,
           SurroundingStep \/ UNCHANGED row
    PROVE  ReceiptInv'
<1>1. SendsAreReal'
  BY DEF ReceiptInv, SendsAreReal, Holds
<1>2. ASSUME NEW k \in Keys, row'[k].method = "automatic"
      PROVE  row[k].method = "automatic"
  BY <1>2, NothingElseMarksAutomatic DEF SendIInv, IInv
<1>3. AutomaticDoneWasSent'
  BY <1>2 DEF ReceiptInv, AutomaticDoneWasSent
<1> QED
  BY <1>1, <1>3 DEF ReceiptInv

\* A delivered follow-up is sent no more: who would send it has lost the claim.
LEMMA DeliveredIsNotSent ==
    ASSUME SendIInv, NEW w \in Workers, WorkerStep(w), NEW k \in Keys,
           delivery[k].status = "DELIVERED"
    PROVE  sent'[k] = sent[k]
<1>1. ASSUME Send(w) PROVE sent'[k] = sent[k]
  <2>1. worker[w].key # k
    BY <1>1 DEF Send, SendIInv, ClaimInv, ClaimIsOwn, ClaimedSteps, Holds
  <2> QED
    BY <1>1, <2>1 DEF Send, SendIInv, ClaimInv, SendTypeOK
<1> QED
  BY <1>1 DEF WorkerStep, BeginPass, ReadCandidates, Claim, CheckPreference, CheckJump,
     CheckStop, Release, RecordProvider, Settle, StoreFails, Fail

\* What a worker does to the others' claims: it frees them or lets them be.
LEMMA OthersKeepTheirClaims ==
    ASSUME SendIInv, NEW w \in Workers, WorkerStep(w),
           NEW v \in Workers \ {w}, worker[v].pc \in ClaimedSteps
    PROVE  /\ worker'[v] = worker[v]
           /\ sent'[worker[v].key] = sent[worker[v].key]
           /\ Holds(v, worker[v].key)' => /\ Holds(v, worker[v].key)
                                         /\ delivery'[worker[v].key] = delivery[worker[v].key]
<1> DEFINE k == worker[v].key
<1>1. /\ k \in Keys
      /\ Holds(v, k) \/ delivery[k].status = "FAILED"
      /\ worker[w].pc \in ClaimedSteps => worker[w].key # k /\ worker[w].key \in Keys
  BY DEF SendIInv, ClaimInv, ClaimIsOwn, WorkIsApart
<1>2. worker \in [Workers -> Worker] /\ delivery \in [Keys -> Delivery] /\ sent \in [Keys -> Nat]
  BY DEF SendIInv, ClaimInv, SendTypeOK
<1>3. worker'[v] = worker[v]
  BY <1>2 DEF WorkerStep, BeginPass, ReadCandidates, Claim, CheckPreference, CheckJump,
     CheckStop, Release, Send, RecordProvider, Settle, StoreFails, Fail, Stays
<1>4. ASSUME delivery'[k] = delivery[k]
      PROVE  Holds(v, worker[v].key)' => Holds(v, k) /\ delivery'[k] = delivery[k]
  BY <1>3, <1>4 DEF Holds
<1>5. sent'[k] = sent[k]
  <2>1. CASE Send(w)
    BY <1>1, <1>2, <2>1 DEF Send, ClaimedSteps
  <2> QED
    BY <2>1 DEF WorkerStep, BeginPass, ReadCandidates, Claim, CheckPreference, CheckJump,
       CheckStop, Release, RecordProvider, Settle, StoreFails, Fail
<1>6. Holds(v, worker[v].key)' => Holds(v, k) /\ delivery'[k] = delivery[k]
  <2>1. CASE BeginPass(w)
    <3>1. delivery'[k] = delivery[k] \/ delivery'[k].status = "FAILED"
      <4>1. delivery[k] \in Delivery
        BY <1>1, <1>2
      <4> QED
        BY <1>1, <2>1, <4>1, GivenUpDelivery DEF BeginPass
    <3> QED
      BY <1>3, <1>4, <3>1 DEF Holds
  <2>2. ASSUME NEW j \in Keys, Claim(w, j) PROVE delivery'[k] = delivery[k]
    BY <1>1, <1>2, <2>2 DEF Claim, Claimable, Holds
  <2>3. ASSUME RecordProvider(w) PROVE delivery'[k] = delivery[k]
    BY <1>1, <1>2, <2>3 DEF RecordProvider, ClaimedSteps
  <2>4. ASSUME Release(w) \/ Settle(w) \/ Fail(w) PROVE delivery'[k] = delivery[k]
    BY <1>1, <1>2, <2>4 DEF Release, Settle, Fail, EndClaim, ClaimedSteps
  <2>5. ASSUME \/ ReadCandidates(w) \/ CheckPreference(w) \/ CheckJump(w) \/ CheckStop(w)
               \/ Send(w) \/ StoreFails(w)
        PROVE  delivery'[k] = delivery[k]
    BY <2>5 DEF ReadCandidates, CheckPreference, CheckJump, CheckStop, Send, StoreFails
  <2> QED
    BY <1>4, <2>1, <2>2, <2>3, <2>4, <2>5 DEF WorkerStep
<1> QED
  BY <1>3, <1>5, <1>6

\* Of the worker that steps: it comes past its send by sending, past its receipt by
\* writing it.
LEMMA OwnSendIsReal ==
    ASSUME SendIInv, ReceiptInv, NEW w \in Workers, WorkerStep(w)
    PROVE  /\ worker'[w].pc \in {"sent", "recorded"} => sent'[worker'[w].key] = 1
           /\ worker'[w].pc = "recorded" /\ Holds(w, worker[w].key)'
              => delivery'[worker'[w].key].provider
<1>1. /\ worker \in [Workers -> Worker] /\ delivery \in [Keys -> Delivery]
      /\ sent \in [Keys -> Nat] /\ worker[w] \in Worker
  BY DEF SendIInv, ClaimInv, SendTypeOK
<1>2. ASSUME NEW q, Stays(w, q) PROVE worker'[w] = q
  BY <1>1, <1>2 DEF Stays
<1>3. ASSUME NEW todo PROVE NextOf(worker[w], todo).pc \in {"idle", "next"}
  BY <1>1 DEF NextOf, Resting, Worker
<1>4. CASE Send(w)
  <2>1. worker[w].key \in Keys /\ sent[worker[w].key] = 0
    BY <1>4 DEF SendIInv, ClaimInv, ClaimIsOwn, UnsentBefore, Send, BeforeSending, ClaimedSteps
  <2>2. CASE worker'[w].pc = "sent"
    <3>1. sent' = [sent EXCEPT ![worker[w].key] = @ + 1]
          /\ worker'[w] = [worker[w] EXCEPT !.pc = "sent"]
      BY <1>1, <1>2, <1>4, <2>2 DEF Send, Worker
    <3> QED
      BY <1>1, <2>1, <2>2, <3>1 DEF Worker
  <2>3. CASE worker'[w].pc # "sent"
    <3>1. worker'[w].pc = "failed"
      BY <1>1, <1>2, <1>4, <2>3 DEF Send, Worker
    <3> QED
      BY <3>1
  <2> QED
    BY <2>2, <2>3
<1>5. CASE RecordProvider(w)
  <2>1. worker[w].key \in Keys /\ sent[worker[w].key] = 1
    BY <1>5 DEF SendIInv, ClaimInv, ClaimIsOwn, ReceiptInv, SendsAreReal, RecordProvider,
       ClaimedSteps
  <2>2. worker'[w] = [worker[w] EXCEPT !.pc = "recorded"] /\ sent' = sent
    BY <1>2, <1>5 DEF RecordProvider
  <2>3. worker'[w].key = worker[w].key
    BY <1>1, <2>2 DEF Worker
  <2>4. Holds(w, worker[w].key)' => delivery'[worker[w].key].provider
    <3>1. CASE Holds(w, worker[w].key)
      <4>1. delivery' = [delivery EXCEPT ![worker[w].key].provider = TRUE]
        BY <1>5, <3>1 DEF RecordProvider
      <4> QED
        BY <1>1, <2>1, <4>1 DEF Delivery
    <3>2. CASE ~Holds(w, worker[w].key)
      BY <1>5, <2>3, <3>2 DEF RecordProvider, Holds
    <3> QED
      BY <3>1, <3>2
  <2> QED
    BY <2>1, <2>2, <2>3, <2>4
<1>6. ASSUME ~Send(w), ~RecordProvider(w)
      PROVE  worker'[w].pc \notin {"sent", "recorded"}
  <2>1. CASE BeginPass(w)
    <3>1. PICK q \in {[Resting EXCEPT !.pc = "read", !.now = clock], Resting} : Stays(w, q)
      BY <2>1 DEF BeginPass
    <3>2. q.pc \in {"read", "idle"}
      <4>1. Resting.pc = "idle" /\ [Resting EXCEPT !.pc = "read", !.now = clock].pc = "read"
        BY DEF Resting
      <4> QED
        BY <4>1
    <3> QED
      BY <1>2, <3>1, <3>2
  <2>2. CASE ReadCandidates(w)
    BY <1>2, <1>3, <2>2 DEF ReadCandidates
  <2>3. ASSUME NEW k \in Keys, Claim(w, k) PROVE worker'[w].pc \notin {"sent", "recorded"}
    BY <1>1, <1>2, <1>3, <2>3 DEF Claim, Worker
  <2>4. CASE CheckPreference(w) \/ CheckJump(w)
    <3>1. PICK s \in {"preferred", "failed", "current"} :
             \/ \E b : Stays(w, [worker[w] EXCEPT !.pc = s, !.ok = b])
             \/ Stays(w, [worker[w] EXCEPT !.pc = s])
      BY <2>4 DEF CheckPreference, CheckJump
    <3>2. \A b : [worker[w] EXCEPT !.pc = s, !.ok = b].pc = s /\ [worker[w] EXCEPT !.pc = s].pc = s
      BY <1>1 DEF Worker
    <3> QED
      BY <1>2, <3>1, <3>2
  <2>5. CASE CheckStop(w)
    BY <1>1, <1>2, <2>5 DEF CheckStop, Worker
  <2>6. CASE Release(w) \/ Fail(w)
    BY <1>2, <1>3, <2>6 DEF Release, Fail
  <2>7. CASE Settle(w)
    BY <1>1, <1>2, <1>3, <2>7 DEF Settle, Worker
  <2>8. CASE StoreFails(w)
    BY <1>1, <1>2, <2>8 DEF StoreFails, Worker
  <2> QED
    BY <1>6, <2>1, <2>2, <2>3, <2>4, <2>5, <2>6, <2>7, <2>8 DEF WorkerStep
<1> QED
  BY <1>4, <1>5, <1>6

LEMMA WorkerKeepsReceipts ==
    ASSUME SendIInv, ReceiptInv, NEW w \in Workers, WorkerStep(w)
    PROVE  ReceiptInv'
<1>1. SendsAreReal'
  <2>1. ASSUME NEW v \in Workers, v # w
        PROVE  /\ worker'[v].pc \in {"sent", "recorded"} => sent'[worker'[v].key] = 1
               /\ worker'[v].pc = "recorded" /\ Holds(v, worker[v].key)'
                  => delivery'[worker'[v].key].provider
    <3>1. worker'[v] = worker[v]
      BY <2>1 DEF WorkerStep, BeginPass, ReadCandidates, Claim, CheckPreference, CheckJump,
         CheckStop, Release, Send, RecordProvider, Settle, StoreFails, Fail, Stays, SendIInv,
         ClaimInv, SendTypeOK
    <3>2. CASE worker[v].pc \in {"sent", "recorded"}
      <4>1. worker[v].pc \in ClaimedSteps
        BY <3>2 DEF ClaimedSteps
      <4>2. /\ sent'[worker[v].key] = sent[worker[v].key]
            /\ Holds(v, worker[v].key)' => /\ Holds(v, worker[v].key)
                                          /\ delivery'[worker[v].key] = delivery[worker[v].key]
        BY <2>1, <4>1, OthersKeepTheirClaims
      <4> QED
        BY <3>1, <3>2, <4>2 DEF ReceiptInv, SendsAreReal
    <3> QED
      BY <3>1, <3>2
  <2> QED
    BY <2>1, OwnSendIsReal DEF SendsAreReal, Holds
<1>2. AutomaticDoneWasSent'
  <2>1. ASSUME NEW k \in Keys, row'[k].method = "automatic", row[k].method = "automatic"
        PROVE  sent'[k] = 1 /\ delivery'[k].status = "DELIVERED" /\ delivery'[k].provider
    <3>1. sent[k] = 1 /\ delivery[k].status = "DELIVERED" /\ delivery[k].provider
      BY <2>1 DEF ReceiptInv, AutomaticDoneWasSent
    <3>2. sent'[k] = sent[k]
      BY <3>1, DeliveredIsNotSent
    <3>3. delivery'[k] = delivery[k]
      BY <3>1, FinalDeliveryStays DEF SendIInv, ClaimInv, SendNext
    <3> QED
      BY <3>1, <3>2, <3>3
  <2>2. ASSUME NEW k \in Keys, row'[k].method = "automatic", row[k].method # "automatic"
        PROVE  sent'[k] = 1 /\ delivery'[k].status = "DELIVERED" /\ delivery'[k].provider
    <3>1. row' # row
      BY <2>2
    <3>2. Settle(w)
      BY <3>1 DEF WorkerStep, BeginPass, ReadCandidates, Claim, CheckPreference, CheckJump,
         CheckStop, Release, Send, RecordProvider, StoreFails, Fail
    <3> DEFINE j == worker[w].key
    <3>3. /\ Holds(w, j) /\ EndClaim(w, j, "DELIVERED") /\ sent' = sent
          /\ row' = [row EXCEPT ![j].status = "DONE", ![j].method = "automatic"]
          /\ worker[w].pc = "recorded"
      BY <3>1, <3>2 DEF Settle
    <3>4. k = j
      BY <2>2, <3>3 DEF SendIInv, IInv, GoodRows
    <3>5. sent[k] = 1 /\ delivery[k].provider
      BY <3>3, <3>4 DEF ReceiptInv, SendsAreReal
    <3>6. delivery[k] \in Delivery /\ delivery \in [Keys -> Delivery]
      BY DEF SendIInv, ClaimInv, SendTypeOK
    <3>7. delivery'[k].status = "DELIVERED" /\ delivery'[k].provider
      BY <3>3, <3>4, <3>5, <3>6 DEF EndClaim, Delivery
    <3> QED
      BY <3>3, <3>5, <3>7
  <2> QED
    BY <2>1, <2>2 DEF AutomaticDoneWasSent
<1> QED
  BY <1>1, <1>2 DEF ReceiptInv

LEMMA ReceiptsAtFirst == SendInit => ReceiptInv
<1> SUFFICES ASSUME SendInit PROVE ReceiptInv
  OBVIOUS
<1>1. SendsAreReal
  BY DEF SendInit, Resting, SendsAreReal
<1>2. AutomaticDoneWasSent
  BY DEF SendInit, Init, NoRow, AutomaticDoneWasSent
<1> QED
  BY <1>1, <1>2 DEF ReceiptInv

\* No step of the owner, the scheduler or a worker disturbs a receipt.
LEMMA SendStepKeepsReceipts ==
    ASSUME SendIInv, ReceiptInv, [SendNext]_sendVars
    PROVE  ReceiptInv'
<1>1. CASE SurroundingStep \/ SwitchAutomation \/ UNCHANGED sendVars
  BY <1>1, ReceiptsStay DEF SurroundingStep, SwitchAutomation, sendVars, sendingVars, vars
<1>2. ASSUME NEW w \in Workers, WorkerStep(w) PROVE ReceiptInv'
  BY <1>2, WorkerKeepsReceipts
<1>3. ASSUME NEW w \in Workers, LoseWorker(w) PROVE ReceiptInv'
  <2>1. /\ UNCHANGED <<row, delivery, sent>>
        /\ worker' = [worker EXCEPT ![w] = Resting]
        /\ worker \in [Workers -> Worker]
    BY <1>3 DEF LoseWorker, Stays, vars, SendIInv, ClaimInv, SendTypeOK
  <2>2. \A v \in Workers : worker'[v] = worker[v] \/ worker'[v].pc = "idle"
    BY <2>1 DEF Resting
  <2>3. SendsAreReal'
    BY <2>1, <2>2 DEF ReceiptInv, SendsAreReal, Holds
  <2> QED
    BY <2>1, <2>3 DEF ReceiptInv, AutomaticDoneWasSent
<1> QED
  BY <1>1, <1>2, <1>3 DEF SendNext

\* A follow-up marked done by automatic sending was handed to the provider exactly
\* once and its delivery says so, with the provider's receipt.
THEOREM AutomaticDoneIsReal == SendSpec => []AutomaticDoneWasSent
<1>1. SendInit => ReceiptInv
  BY ReceiptsAtFirst
<1>2. SendIInv /\ ReceiptInv /\ [SendNext]_sendVars => ReceiptInv'
  BY SendStepKeepsReceipts
<1>3. ReceiptInv => AutomaticDoneWasSent
  BY DEF ReceiptInv
<1> QED
  BY <1>1, <1>2, <1>3, SendInvariantHolds, PTL DEF SendSpec

-----------------------------------------------------------------------------
(* What has stood against a claim all along stops the send.                *)

RefusalNames ==
    {"not pending", "mix", "manual only", "draft", "too early",
     "archived", "do not contact", "stopped", "switched off"}

\* Each read of a claimed follow-up rules out what it looks at; a refusal that is ruled
\* out once is so for good, since the history only loses what is lifted.
RuledOut ==
    \A w \in Workers :
        /\ worker[w].now <= clock
        /\ worker[w].pc = "preferred" /\ worker[w].ok => "switched off" \notin standing[w]
        /\ worker[w].pc = "current" /\ worker[w].ok => standing[w] \subseteq {"stopped"}
        /\ worker[w].pc = "ready" => standing[w] = {}

StandingInv == standing \in [Workers -> SUBSET RefusalNames] /\ RuledOut

\* What holds a follow-up back, one reason at a time.
LEMMA RefusalsMean ==
    ASSUME NEW k \in Keys
    PROVE  /\ Refusals[k] \in SUBSET RefusalNames
           /\ "not pending" \in Refusals[k] => row[k].status # "PENDING"
           /\ "mix" \in Refusals[k] => setup.mix # "ACTIVE"
           /\ "manual only" \in Refusals[k] => row[k].manualOnly
           /\ "draft" \in Refusals[k] => k \in drafts
           /\ "too early" \in Refusals[k] => \/ row[k].at + Window > clock
                                             \/ row[k].born + Window > clock
           /\ "archived" \in Refusals[k] => Person(k) \in setup.archived
           /\ "do not contact" \in Refusals[k] => Person(k) \in setup.dnc
           /\ "stopped" \in Refusals[k] => Person(k) \in setup.stopped
           /\ "switched off" \in Refusals[k] => ~automation
BY DEF Refusals, RefusalNames

LEMMA NoKeyIsNone == NoKey \notin Keys
BY DEF NoKey, Keys

\* The history of a claim that goes on only loses what no longer holds.
LEMMA HistoryOnlyLoses ==
    ASSUME StandingInv, RefusedNext, NEW w \in Workers,
           worker[w].key \in Keys, worker'[w].key = worker[w].key
    PROVE  /\ standing'[w] \subseteq standing[w]
           /\ standing'[w] \subseteq Refusals'[worker[w].key]
BY NoKeyIsNone DEF RefusedNext

LEMMA HistoryType ==
    ASSUME StandingInv, RefusedNext, SendIInv, SendIInv'
    PROVE  standing' \in [Workers -> SUBSET RefusalNames]
<1>1. ASSUME NEW w \in Workers PROVE standing'[w] \in SUBSET RefusalNames
  <2>1. worker'[w].key \in Keys \cup {NoKey}
    BY DEF SendIInv, ClaimInv, SendTypeOK, Worker
  <2>2. ASSUME NEW k \in Keys PROVE Refusals'[k] \in SUBSET RefusalNames
    BY DEF Refusals, RefusalNames
  <2> QED
    BY <2>1, <2>2 DEF RefusedNext, StandingInv
<1> QED
  BY <1>1 DEF RefusedNext

\* Of the checks, the one for the follow-up itself rules out all it looks at.
LEMMA SendableRulesOut ==
    ASSUME NEW k \in Keys, row \in [Keys -> Row], clock \in Nat, NEW now \in Nat, now <= clock,
           Sendable(k, now)
    PROVE  Refusals[k] \subseteq {"stopped", "switched off"}
<1>1. /\ row[k].status = "PENDING" /\ setup.mix = "ACTIVE" /\ ~row[k].manualOnly
      /\ k \notin drafts /\ Person(k) \notin setup.archived /\ Person(k) \notin setup.dnc
      /\ row[k].at + Window <= now /\ row[k].born + Window <= now
  BY DEF Sendable, Candidates, Pending
<1>2. row[k].at \in Nat /\ row[k].born \in Nat /\ Window \in Nat
  BY SendingAssumption DEF Row
<1>3. ~(row[k].at + Window > clock) /\ ~(row[k].born + Window > clock)
  BY <1>1, <1>2
<1> QED
  BY <1>1, <1>3, RefusalsMean DEF RefusalNames

\* What a step leaves of a worker that does not take it.
LEMMA OthersStepKeepsHistory ==
    ASSUME SendIInv, StandingInv, RefusedNext, NEW w \in Workers, worker'[w] = worker[w],
           clock' >= clock, clock' \in Nat
    PROVE  /\ worker'[w].now <= clock'
           /\ worker'[w].pc = "preferred" /\ worker'[w].ok => "switched off" \notin standing'[w]
           /\ worker'[w].pc = "current" /\ worker'[w].ok => standing'[w] \subseteq {"stopped"}
           /\ worker'[w].pc = "ready" => standing'[w] = {}
<1>1. worker[w].now \in Nat /\ clock \in Nat /\ worker[w].now <= clock
  BY DEF SendIInv, ClaimInv, SendTypeOK, Worker, IInv, Surroundings, StandingInv, RuledOut
<1>2. worker'[w].now <= clock'
  BY <1>1
<1>3. CASE worker[w].pc \in {"preferred", "current", "ready"}
  <2>1. worker[w].key \in Keys
    BY <1>3 DEF SendIInv, ClaimInv, ClaimIsOwn, ClaimedSteps
  <2>2. standing'[w] \subseteq standing[w]
    BY <2>1, HistoryOnlyLoses
  <2> QED
    BY <1>2, <2>2 DEF StandingInv, RuledOut
<1>4. CASE worker[w].pc \notin {"preferred", "current", "ready"}
  BY <1>2, <1>4
<1> QED
  BY <1>3, <1>4

\* A worker's own step: each check adds what it has just seen.
LEMMA OwnStepRulesOut ==
    ASSUME SendIInv, StandingInv, RefusedNext, NEW w \in Workers, WorkerStep(w)
    PROVE  /\ worker'[w].now <= clock'
           /\ worker'[w].pc = "preferred" /\ worker'[w].ok => "switched off" \notin standing'[w]
           /\ worker'[w].pc = "current" /\ worker'[w].ok => standing'[w] \subseteq {"stopped"}
           /\ worker'[w].pc = "ready" => standing'[w] = {}
<1> DEFINE k == worker[w].key
<1>1. /\ worker \in [Workers -> Worker] /\ worker[w] \in Worker
      /\ row \in [Keys -> Row] /\ clock \in Nat /\ clock' = clock
      /\ worker[w].now \in Nat /\ worker[w].now <= clock
  BY DEF SendIInv, ClaimInv, SendTypeOK, IInv, GoodRows, Surroundings, WorkerStep, Worker,
     StandingInv, RuledOut
<1>2. ASSUME NEW q, Stays(w, q) PROVE worker'[w] = q
  BY <1>1, <1>2 DEF Stays
<1>3. ASSUME worker'[w].now <= clock, worker'[w].pc \notin {"preferred", "current", "ready"}
      PROVE  /\ worker'[w].now <= clock'
             /\ worker'[w].pc = "preferred" /\ worker'[w].ok => "switched off" \notin standing'[w]
             /\ worker'[w].pc = "current" /\ worker'[w].ok => standing'[w] \subseteq {"stopped"}
             /\ worker'[w].pc = "ready" => standing'[w] = {}
  BY <1>1, <1>3
<1>4. ASSUME NEW todo, worker'[w] = NextOf(worker[w], todo)
      PROVE  worker'[w].now <= clock /\ worker'[w].pc \in {"idle", "next"}
  BY <1>1, <1>4 DEF NextOf, Resting, Worker, NoTime
<1>5. ASSUME NEW s, worker'[w] = [worker[w] EXCEPT !.pc = s]
      PROVE  worker'[w].now <= clock /\ worker'[w].pc = s
  BY <1>1, <1>5 DEF Worker
<1>6. CASE CheckPreference(w)
  <2>1. k \in Keys /\ automation' = automation
    BY <1>6 DEF CheckPreference, SendIInv, ClaimInv, ClaimIsOwn, ClaimedSteps, WorkerStep
  <2>2. CASE worker'[w] = [worker[w] EXCEPT !.pc = "preferred", !.ok = automation]
    <3>1. /\ worker'[w].key = k /\ worker'[w].pc = "preferred" /\ worker'[w].ok = automation
          /\ worker'[w].now = worker[w].now
      BY <1>1, <2>2 DEF Worker
    <3>2. standing'[w] \subseteq Refusals'[k]
      BY <2>1, <3>1, HistoryOnlyLoses
    <3>3. "switched off" \in Refusals'[k] => ~automation'
      BY <2>1 DEF Refusals
    <3> QED
      BY <1>1, <2>1, <3>1, <3>2, <3>3
  <2>3. CASE worker'[w] = [worker[w] EXCEPT !.pc = "failed"]
    BY <1>3, <1>5, <2>3
  <2> QED
    BY <1>2, <1>6, <2>2, <2>3 DEF CheckPreference
<1>7. CASE CheckJump(w)
  <2>1. k \in Keys /\ worker[w].pc = "preferred"
    BY <1>7 DEF CheckJump, SendIInv, ClaimInv, ClaimIsOwn, ClaimedSteps
  <2> DEFINE q == [worker[w] EXCEPT !.pc = "current",
                                    !.ok = @ /\ Sendable(worker[w].key, worker[w].now)]
  <2>2. worker'[w] = q
    BY <1>2, <1>7 DEF CheckJump
  <2>3. /\ q.key = k /\ q.pc = "current" /\ q.now = worker[w].now
        /\ q.ok => worker[w].ok /\ Sendable(k, worker[w].now)
    BY <1>1 DEF Worker
  <2> HIDE DEF q
  <2>4. ASSUME worker'[w].ok PROVE standing'[w] \subseteq {"stopped"}
    <3>1. worker[w].ok /\ Sendable(k, worker[w].now)
      BY <2>2, <2>3, <2>4
    <3>2. "switched off" \notin standing[w]
      BY <2>1, <3>1 DEF StandingInv, RuledOut
    <3>3. Refusals[k] \subseteq {"stopped", "switched off"}
      BY <1>1, <2>1, <3>1, SendableRulesOut
    <3>4. Refusals'[k] = Refusals[k]
      BY <1>1, <1>7, <2>1 DEF Refusals, CheckJump, WorkerStep
    <3>5. standing'[w] \subseteq standing[w] /\ standing'[w] \subseteq Refusals'[k]
      BY <2>1, <2>2, <2>3, HistoryOnlyLoses
    <3> QED
      BY <3>2, <3>3, <3>4, <3>5
  <2> QED
    BY <1>1, <2>2, <2>3, <2>4
<1>8. CASE CheckStop(w)
  <2>1. k \in Keys /\ worker[w].pc = "current"
    BY <1>8 DEF CheckStop, SendIInv, ClaimInv, ClaimIsOwn, ClaimedSteps
  <2> DEFINE ok == worker[w].ok /\ Person(k) \notin setup.stopped
             q == [worker[w] EXCEPT !.ok = ok, !.pc = IF ok THEN "ready" ELSE "refused"]
  <2>2. worker'[w] = q
    BY <1>2, <1>8 DEF CheckStop
  <2>3. /\ q.key = k /\ q.pc = (IF ok THEN "ready" ELSE "refused") /\ q.now = worker[w].now
    BY <1>1 DEF Worker
  <2> HIDE DEF q
  <2>4. ASSUME ok PROVE standing'[w] = {}
    <3>1. standing[w] \subseteq {"stopped"}
      BY <2>1, <2>4 DEF StandingInv, RuledOut
    <3>2. "stopped" \notin Refusals'[k]
      BY <1>8, <2>1, <2>4 DEF Refusals, CheckStop, WorkerStep
    <3>3. standing'[w] \subseteq standing[w] /\ standing'[w] \subseteq Refusals'[k]
      BY <2>1, <2>2, <2>3, HistoryOnlyLoses
    <3> QED
      BY <3>1, <3>2, <3>3
  <2>5. CASE ok
    BY <1>1, <2>2, <2>3, <2>4, <2>5
  <2>6. CASE ~ok
    BY <1>1, <1>3, <2>2, <2>3, <2>6
  <2> QED
    BY <2>5, <2>6
<1>9. CASE BeginPass(w)
  <2>1. worker'[w] \in {[Resting EXCEPT !.pc = "read", !.now = clock], Resting}
    BY <1>2, <1>9 DEF BeginPass
  <2>2. CASE worker'[w] = [Resting EXCEPT !.pc = "read", !.now = clock]
    <3>1. worker'[w].pc = "read" /\ worker'[w].now = clock
      BY <2>2 DEF Resting
    <3> QED
      BY <1>1, <1>3, <3>1
  <2>3. CASE worker'[w] = Resting
    <3>1. worker'[w].pc = "idle" /\ worker'[w].now = 0
      BY <2>3 DEF Resting, NoTime
    <3> QED
      BY <1>1, <1>3, <3>1
  <2> QED
    BY <2>1, <2>2, <2>3
<1>10. CASE ReadCandidates(w)
  BY <1>2, <1>3, <1>4, <1>10 DEF ReadCandidates
<1>11. ASSUME NEW j \in Keys, Claim(w, j)
       PROVE  worker'[w].now <= clock /\ worker'[w].pc \notin {"preferred", "current", "ready"}
  <2>1. \/ worker'[w] = [worker[w] EXCEPT !.pc = "claimed", !.key = j, !.todo = @ \ {j}]
        \/ worker'[w] = NextOf(worker[w], worker[w].todo \ {j})
    BY <1>2, <1>11 DEF Claim
  <2> QED
    BY <1>1, <1>4, <2>1 DEF Worker
<1>12. CASE Release(w) \/ Fail(w)
  BY <1>2, <1>3, <1>4, <1>12 DEF Release, Fail
<1>13. CASE Send(w) \/ RecordProvider(w) \/ StoreFails(w)
  <2>1. PICK s \in {"sent", "failed", "recorded"} : worker'[w] = [worker[w] EXCEPT !.pc = s]
    BY <1>2, <1>13 DEF Send, RecordProvider, StoreFails
  <2> QED
    BY <1>3, <1>5, <2>1
<1>14. CASE Settle(w)
  <2>1. \/ worker'[w] = NextOf(worker[w], worker[w].todo)
        \/ worker'[w] = [worker[w] EXCEPT !.pc = "failed"]
    BY <1>2, <1>14 DEF Settle
  <2> QED
    BY <1>3, <1>4, <1>5, <2>1
<1> QED
  BY <1>3, <1>6, <1>7, <1>8, <1>9, <1>10, <1>11, <1>12, <1>13, <1>14 DEF WorkerStep

LEMMA RefusedStepPreserves == SendIInv /\ StandingInv /\ [RefusedNext]_refusedVars => StandingInv'
<1> SUFFICES ASSUME SendIInv, StandingInv, [RefusedNext]_refusedVars PROVE StandingInv'
  OBVIOUS
<1>1. CASE UNCHANGED refusedVars
  BY <1>1 DEF refusedVars, sendVars, StandingInv, RuledOut
<1>2. CASE RefusedNext
  <2>1. SendNext /\ SendIInv'
    BY <1>2, SendStepPreserves DEF RefusedNext
  <2>2. standing' \in [Workers -> SUBSET RefusalNames]
    BY <1>2, <2>1, HistoryType
  <2>3. clock \in Nat /\ clock' \in Nat /\ worker \in [Workers -> Worker]
    BY <2>1 DEF SendIInv, IInv, Surroundings, ClaimInv, SendTypeOK
  <2>4. clock' >= clock
    <3>1. CASE SurroundingStep
      BY <2>3, <3>1 DEF SurroundingStep, OwnerStep, FinishSave, Tick, ScheduleRow
    <3>2. CASE SwitchAutomation \/ \E w \in Workers : WorkerStep(w) \/ LoseWorker(w)
      BY <2>3, <3>2 DEF SwitchAutomation, WorkerStep, LoseWorker, vars
    <3> QED
      BY <2>1, <3>1, <3>2 DEF SendNext
  <2>5. ASSUME NEW w \in Workers
        PROVE  /\ worker'[w].now <= clock'
               /\ worker'[w].pc = "preferred" /\ worker'[w].ok
                  => "switched off" \notin standing'[w]
               /\ worker'[w].pc = "current" /\ worker'[w].ok => standing'[w] \subseteq {"stopped"}
               /\ worker'[w].pc = "ready" => standing'[w] = {}
    <3>1. CASE worker'[w] = worker[w]
      BY <1>2, <2>3, <2>4, <3>1, OthersStepKeepsHistory
    <3>2. CASE WorkerStep(w)
      BY <1>2, <3>2, OwnStepRulesOut
    <3>3. CASE LoseWorker(w)
      <4>1. worker'[w] = Resting
        BY <2>3, <3>3 DEF LoseWorker, Stays
      <4>2. Resting.pc = "idle" /\ Resting.now = 0
        BY DEF Resting, NoTime
      <4> QED
        BY <2>3, <4>1, <4>2
    <3>4. ASSUME NEW v \in Workers \ {w}, WorkerStep(v) \/ LoseWorker(v)
          PROVE  worker'[w] = worker[w]
      BY <2>3, <3>4 DEF WorkerStep, BeginPass, ReadCandidates, Claim, CheckPreference, CheckJump,
         CheckStop, Release, Send, RecordProvider, Settle, StoreFails, Fail, LoseWorker, Stays
    <3>5. CASE SurroundingStep \/ SwitchAutomation
      BY <3>1, <3>5 DEF SurroundingStep, SwitchAutomation, sendingVars
    <3> QED
      BY <2>1, <3>1, <3>2, <3>3, <3>4, <3>5 DEF SendNext
  <2>6. RuledOut'
    BY <2>5 DEF RuledOut
  <2> QED
    BY <2>2, <2>6 DEF StandingInv
<1> QED
  BY <1>1, <1>2

LEMMA RefusedInvariantHolds == RefusedSpec => [](SendIInv /\ StandingInv)
<1>1. RefusedInit => SendIInv /\ StandingInv
  <2> SUFFICES ASSUME RefusedInit PROVE SendIInv /\ StandingInv
    OBVIOUS
  <2>1. SendIInv /\ clock = 0
    BY SendInitEstablishes DEF RefusedInit, SendInit, Init
  <2>2. \A w \in Workers : worker[w].pc = "idle" /\ worker[w].now = 0
    BY DEF RefusedInit, SendInit, Resting, NoTime
  <2> QED
    BY <2>1, <2>2 DEF RefusedInit, StandingInv, RuledOut
<1>2. [RefusedNext]_refusedVars => [SendNext]_sendVars
  BY DEF RefusedNext, refusedVars
<1> QED
  BY <1>1, <1>2, SendStepPreserves, RefusedStepPreserves, PTL DEF RefusedSpec

\* What stood against a follow-up when it was claimed, and was never lifted, keeps it from
\* being sent: the three reads before the send, whatever happens between them, miss none
\* of the nine reasons to hold it back.
THEOREM RefusalsStopTheSend == RefusedSpec => RefusalStopsSending
<1>1. StandingInv /\ [RefusedNext]_refusedVars
      => [\A w \in Workers :
            worker[w].pc = "ready" /\ sent' # sent /\ worker'[w].pc # "ready"
            => standing[w] = {}]_refusedVars
  BY DEF StandingInv, RuledOut
<1> QED
  BY <1>1, RefusedInvariantHolds, PTL DEF RefusedSpec, RefusalStopsSending

=============================================================================
