----------------------- MODULE WebhookDeliveryProofs -----------------------
(***************************************************************************)
(* Proofs about WebhookDelivery, for every table, every set of workers and *)
(* every value of the leases and timeouts.                                 *)
(***************************************************************************)
EXTENDS WebhookDelivery, TLAPS

\* Counting down keeps a timer a number and NoRetry the NULL it is.
LEMMA LessType ==
    /\ \A x \in Nat : Less(x) \in Nat /\ Less(x) <= x
    /\ \A x \in Nat \cup {NoRetry} : Less(x) \in Nat \cup {NoRetry}
  BY DEF Less, NoRetry

\* Every delay of _schedule_failed_retry is a natural number.
LEMMA RetryDelaysType ==
    ASSUME NEW a \in Nat
    PROVE  RetryDelays(a) \subseteq Nat
<1>1. \A v \in RetryAfters : ParseRetryAfter(v) \in Nat
  BY DeliveryAssumption DEF ParseRetryAfter
<1>2. BackoffSeconds(a) \subseteq Nat
  <2>1. BackoffSeconds(a) \subseteq 1..(2 * MaxBackoff)
    BY DEF BackoffSeconds
  <2> QED BY <2>1, DeliveryAssumption
<1> QED BY <1>1, <1>2 DEF RetryDelays

\* The initial state is well typed.
LEMMA InitType == Init => TypeOK
  BY DeliveryAssumption
     DEF Init, TypeOK, Row, Absent, Statuses, Plans, NoRetry

\* Publishing a task keeps the queue well typed.
LEMMA PublishType ==
    ASSUME TypeOK, NEW t \in Task, Publish(t)
    PROVE  queue' \subseteq Package
  BY DEF TypeOK, Publish, Package

LEMMA FaultType ==
    ASSUME TypeOK, Fault
    PROVE  faults' \in 0..MaxFaults
  BY DeliveryAssumption DEF TypeOK, Fault

\* The row transformers of the model map rows to rows.
LEMMA RowType ==
    ASSUME NEW r \in Row
    PROVE  /\ \A i \in {0, 1}, p \in Plans : NewRow(i, p) \in Row
           /\ \A w \in Workers, n \in Nat : Claimed(r, w, n) \in Row
           /\ MarkedDead(r) \in Row
           /\ \A s \in Statuses : Settled(r, s) \in Row
           /\ \A x \in Nat : Failed(r, x) \in Row
           /\ Aged(r) \in Row
<1>1. \A i \in {0, 1}, p \in Plans : NewRow(i, p) \in Row
  <2>1. Absent \in Row
    BY DEF Absent, Row, Statuses, Plans, NoRetry
  <2> QED BY <2>1, DeliveryAssumption DEF NewRow, Row, Statuses
<1>2. \A w \in Workers, n \in Nat : Claimed(r, w, n) \in Row
  <2> SUFFICES ASSUME NEW w \in Workers, NEW n \in Nat
               PROVE  Claimed(r, w, n) \in Row
    OBVIOUS
  <2> DEFINE m == IF n + 1 > r.attempt THEN n + 1 ELSE r.attempt
  <2>1. m \in Nat \ {0}
    BY DEF Row
  <2>2. ClaimLease \in Nat /\ 0 \in Nat
    BY DeliveryAssumption
  <2>3. Claimed(r, w, n) =
          [r EXCEPT !.claim = w, !.claimLeft = ClaimLease, !.attempt = m,
                    !.attempted = TRUE, !.retryIn = NoRetry, !.dispatchLeft = 0]
    BY DEF Claimed
  <2> HIDE DEF m
  <2> QED BY <2>1, <2>2, <2>3 DEF Row
<1>3. MarkedDead(r) \in Row
  BY DEF MarkedDead, Row, Statuses
<1>4. \A s \in Statuses : Settled(r, s) \in Row
  BY DEF Settled, Released, Row
<1>5. \A x \in Nat : Failed(r, x) \in Row
  BY DEF Failed, Released, Row, Statuses
<1>6. Aged(r) \in Row
  BY LessType DEF Aged, Row
<1> QED BY <1>1, <1>2, <1>3, <1>4, <1>5, <1>6

\* A step that inserts a row keeps the types.
LEMMA InsertType ==
    ASSUME TypeOK, NEW d \in Deliveries, NEW i \in {0, 1}, NEW p \in Plans,
           Insert(d, i, p)
    PROVE  TypeOK'
<1> DEFINE t == [d |-> d, n |-> 0, ident |-> i]
<1>1. t \in Task
  BY DEF Task
<1>2. rows[d] \in Row
  BY DEF TypeOK
<1>3. NewRow(i, p) \in Row
  BY <1>2, RowType
<1>4. rows' \in [Deliveries -> Row]
  BY <1>3 DEF TypeOK, Insert
<1>5. PublishNew(t)
  BY DEF Insert
<1>6. queue' \subseteq Package /\ faults' \in 0..MaxFaults
  <2>1. CASE Publish(t) /\ UNCHANGED faults
    BY <2>1, <1>1, PublishType DEF TypeOK
  <2>2. CASE Fault /\ UNCHANGED queue
    BY <2>2, FaultType DEF TypeOK
  <2> QED BY <1>5, <2>1, <2>2 DEF PublishNew
<1> QED BY <1>4, <1>6 DEF Insert, TypeOK

\* Returning from a task keeps the types of the broker's hands.
LEMMA ReturnType ==
    ASSUME TypeOK, NEW t \in taken
    PROVE  /\ Return(t) => taken' \subseteq Taken /\ faults' \in 0..MaxFaults
           /\ LeaveUnacked(t) => taken' \subseteq Taken /\ faults' \in 0..MaxFaults
<1>1. ASSUME LeaveUnacked(t)
      PROVE  taken' \subseteq Taken /\ faults' \in 0..MaxFaults
  <2>1. [t EXCEPT !.live = FALSE] \in Taken
    BY DEF TypeOK, Taken
  <2> QED BY <1>1, <2>1, FaultType DEF LeaveUnacked, TypeOK
<1>2. ASSUME Acknowledge(t)
      PROVE  taken' \subseteq Taken /\ faults' \in 0..MaxFaults
  BY <1>2 DEF Acknowledge, TypeOK
<1> QED BY <1>1, <1>2 DEF Return

\* What a taken package is made of.
LEMMA TakenType ==
    ASSUME TypeOK, NEW t \in taken
    PROVE  /\ t \in Taken /\ t.w \in Workers
           /\ t.pkg.task \in Task /\ t.pkg.task.d \in Deliveries
           /\ rows[t.pkg.task.d] \in Row
           /\ rows[t.pkg.task.d].attempt \in Nat
           /\ RetryTask(t) \in Task
<1>1. t \in Taken /\ t.w \in Workers /\ t.pkg \in Package
  BY DEF TypeOK, Taken
<1>2. t.pkg.task \in Task /\ t.pkg.task.d \in Deliveries
  BY <1>1 DEF Package, Task
<1>3. rows[t.pkg.task.d] \in Row /\ rows[t.pkg.task.d].attempt \in Nat
  BY <1>2 DEF TypeOK, Row
<1>4. RetryTask(t) \in Task
  BY <1>2, <1>3 DEF RetryTask, Task
<1> QED BY <1>1, <1>2, <1>3, <1>4

\* Every step keeps the types.
LEMMA StepType == TypeOK /\ [Next]_vars => TypeOK'
<1> SUFFICES ASSUME TypeOK, [Next]_vars PROVE TypeOK'
  OBVIOUS
<1>1. ASSUME NEW d \in Deliveries, SendWebhook(d) PROVE TypeOK'
  BY <1>1, InsertType DEF SendWebhook, Plans
<1>2. ASSUME NEW d \in Deliveries, SendWebhookTest(d) PROVE TypeOK'
  BY <1>2, InsertType DEF SendWebhookTest, Plans
<1>3. ASSUME NEW d \in Deliveries, Detach(d) PROVE TypeOK'
  <2>1. PICK plan \in {rows[d].plan, "bad", "no_event"} :
          rows' = [rows EXCEPT ![d].ident = 1, ![d].plan = plan]
    BY <1>3 DEF Detach
  <2>2. rows[d] \in Row /\ plan \in Plans
    BY DEF TypeOK, Row, Plans
  <2>3. [rows[d] EXCEPT !.ident = 1, !.plan = plan] \in Row
    BY <2>2 DEF Row
  <2>4. rows' \in [Deliveries -> Row]
    BY <2>1, <2>3 DEF TypeOK
  <2> QED BY <1>3, <2>4 DEF Detach, TypeOK
<1>4. ASSUME NEW s \in Deliveries, NEW d \in Deliveries, Redeliver(s, d) PROVE TypeOK'
  <2>1. rows[s].ident \in {0, 1} /\ rows[s].plan \in Plans
    BY DEF TypeOK, Row
  <2> QED BY <1>4, <2>1, InsertType DEF Redeliver
<1>5. ASSUME NEW w \in Workers, NEW p \in queue, TakePackage(w, p) PROVE TypeOK'
  <2>1. p \in Package /\ p.task \in Task /\ p.task.d \in Deliveries /\ p.task.n \in Nat
    BY DEF TypeOK, Package, Task
  <2>2. rows[p.task.d] \in Row
    BY <2>1 DEF TypeOK
  <2>3. CASE ClaimDelivery(w, p)
    <3>1. Claimed(rows[p.task.d], w, p.task.n) \in Row
      BY <2>1, <2>2, RowType
    <3>2. rows' \in [Deliveries -> Row]
      BY <2>3, <3>1 DEF ClaimDelivery, TypeOK
    <3>3. [pkg |-> p, w |-> w, left |-> BrokerRetry, live |-> TRUE] \in Taken
      BY <2>1, DeliveryAssumption DEF Taken
    <3> QED BY <2>3, <3>2, <3>3 DEF ClaimDelivery, TypeOK
  <2>4. CASE ClaimInvalid(w, p)
    <3>1. rows' \in [Deliveries -> Row]
      BY <2>2, <2>4, RowType DEF ClaimInvalid, TypeOK
    <3> QED BY <2>4, <3>1 DEF ClaimInvalid, TypeOK
  <2>5. CASE DropPackage(w, p)
    BY <2>5 DEF DropPackage, TypeOK
  <2> QED BY <1>5, <2>3, <2>4, <2>5 DEF TakePackage
<1>6. ASSUME NEW t \in taken, Finish(t) PROVE TypeOK'
  <2> DEFINE d == t.pkg.task.d
  <2>1. d \in Deliveries /\ rows[d] \in Row /\ rows[d].attempt \in Nat /\ RetryTask(t) \in Task
    BY TakenType
  <2>2. \A s \in Statuses : [rows EXCEPT ![d] = Settled(@, s)] \in [Deliveries -> Row]
    BY <2>1, RowType DEF TypeOK
  <2>3. \A x \in Nat : [rows EXCEPT ![d] = Failed(@, x)] \in [Deliveries -> Row]
    BY <2>1, RowType DEF TypeOK
  <2>4. CASE FinishSuccess(t)
    BY <2>2, <2>4, ReturnType DEF FinishSuccess, TypeOK, Statuses
  <2>5. CASE FinishTerminal(t)
    BY <2>2, <2>5, ReturnType DEF FinishTerminal, TypeOK, Statuses
  <2>6. CASE FinishExhausted(t)
    BY <2>2, <2>6, ReturnType DEF FinishExhausted, TypeOK, Statuses
  <2>7. CASE FinishRetryNow(t)
    <3>1. rows' \in [Deliveries -> Row]
      BY <2>3, <2>7 DEF FinishRetryNow
    <3>2. taken' \subseteq Taken /\ faults' \in 0..MaxFaults /\ queue' \subseteq Package
      <4>1. CASE Publish(RetryTask(t)) /\ Return(t)
        BY <4>1, <2>1, PublishType, ReturnType
      <4>2. CASE taken' = taken \ {t} /\ Fault /\ UNCHANGED queue
        BY <4>2, FaultType DEF TypeOK
      <4>3. CASE LeaveUnacked(t) /\ UNCHANGED queue
        BY <4>3, ReturnType DEF TypeOK
      <4> QED BY <2>7, <4>1, <4>2, <4>3 DEF FinishRetryNow
    <3> QED BY <2>7, <3>1, <3>2 DEF FinishRetryNow, TypeOK
  <2>8. CASE FinishRetryLater(t)
    <3>1. PICK x \in RetryDelays(rows[d].attempt) \ {0} :
            /\ rows' = [rows EXCEPT ![d] = Failed(@, x)]
            /\ schedules' = schedules \cup {[task |-> RetryTask(t), left |-> x]}
      BY <2>8 DEF FinishRetryLater
    <3>2. x \in Nat
      BY <2>1, RetryDelaysType
    <3>3. rows' \in [Deliveries -> Row]
      BY <2>3, <3>1, <3>2
    <3>4. schedules' \subseteq [task : Task, left : Nat]
      BY <2>1, <3>1, <3>2 DEF TypeOK
    <3> QED BY <2>8, <3>3, <3>4, ReturnType DEF FinishRetryLater, TypeOK
  <2>9. CASE FinishSuperseded(t)
    BY <2>9, ReturnType DEF FinishSuperseded, TypeOK
  <2> QED BY <1>6, <2>4, <2>5, <2>6, <2>7, <2>8, <2>9 DEF Finish
<1>7. ASSUME NEW t \in taken, Crash(t) PROVE TypeOK'
  BY <1>7, ReturnType DEF Crash, TypeOK
<1>8. ASSUME NEW t \in taken, Reappear(t) PROVE TypeOK'
  BY <1>8, TakenType, PublishType DEF Reappear, TypeOK
<1>9. ASSUME NEW s \in schedules, RunSchedule(s) PROVE TypeOK'
  <2>1. s.task \in Task
    BY DEF TypeOK
  <2> QED BY <1>9, <2>1, PublishType DEF RunSchedule, TypeOK
<1>10. ASSUME RecoverPending PROVE TypeOK'
  <2>1. \A d \in Deliveries : [rows[d] EXCEPT !.dispatchLeft = DispatchLease] \in Row
    BY DeliveryAssumption DEF TypeOK, Row
  <2>2. rows' \in [Deliveries -> Row]
    BY <1>10, <2>1 DEF RecoverPending, TypeOK
  <2>3. FirstCandidates \subseteq Deliveries
    BY DEF FirstCandidates, Candidates
  <2>4. \A d \in FirstCandidates : TaskFor(d, RecoveryAttempt(rows[d])) \in Task
    <3> SUFFICES ASSUME NEW d \in FirstCandidates
                 PROVE  TaskFor(d, RecoveryAttempt(rows[d])) \in Task
      OBVIOUS
    <3>1. rows[d].ident \in {0, 1} /\ rows[d].attempt \in Nat \ {0} /\ d \in Deliveries
      BY <2>3 DEF TypeOK, Row
    <3>2. RecoveryAttempt(rows[d]) \in Nat
      BY <3>1 DEF RecoveryAttempt
    <3> QED BY <3>1, <3>2 DEF TaskFor, Task
  <2> QED BY <1>10, <2>2, <2>4 DEF RecoverPending, TypeOK
<1>11. ASSUME NEW t \in batch, PublishRecovered(t) PROVE TypeOK'
  <2>1. t \in Task /\ t.d \in Deliveries
    BY DEF TypeOK, Task
  <2>2. CASE Publish(t) /\ UNCHANGED <<rows, faults>>
    BY <1>11, <2>1, <2>2, PublishType DEF PublishRecovered, TypeOK
  <2>3. CASE Fault /\ rows' = [rows EXCEPT ![t.d].dispatchLeft = 0] /\ UNCHANGED queue
    <3>1. [rows[t.d] EXCEPT !.dispatchLeft = 0] \in Row
      BY <2>1 DEF TypeOK, Row
    <3>2. rows' \in [Deliveries -> Row]
      BY <2>3, <3>1 DEF TypeOK
    <3> QED BY <1>11, <2>3, <3>2, FaultType DEF PublishRecovered, TypeOK
  <2> QED BY <1>11, <2>2, <2>3 DEF PublishRecovered
<1>12. CASE CoordinatorCrash
  BY <1>12, FaultType DEF CoordinatorCrash, TypeOK
<1>13. CASE Tick
  <2>1. rows' \in [Deliveries -> Row]
    BY <1>13, RowType DEF Tick, TypeOK
  <2>2. \A t \in taken : [t EXCEPT !.left = Less(@)] \in Taken
    <3> SUFFICES ASSUME NEW t \in taken PROVE [t EXCEPT !.left = Less(@)] \in Taken
      OBVIOUS
    <3>1. t \in Taken /\ t.left \in 0..BrokerRetry
      BY TakenType DEF Taken
    <3>2. Less(t.left) \in 0..BrokerRetry
      BY <3>1, DeliveryAssumption DEF Less
    <3> QED BY <3>1, <3>2 DEF Taken
  <2>3. \A s \in schedules : [s EXCEPT !.left = Less(@)] \in [task : Task, left : Nat]
    BY LessType DEF TypeOK
  <2> QED BY <1>13, <2>1, <2>2, <2>3 DEF Tick, TypeOK
<1>14. CASE UNCHANGED vars
  BY <1>14 DEF vars, TypeOK
<1> QED BY <1>1, <1>2, <1>3, <1>4, <1>5, <1>6, <1>7, <1>8, <1>9, <1>10, <1>11, <1>12,
           <1>13, <1>14 DEF Next

\* The tables stay well typed in every behaviour of the specification.
THEOREM TypeCorrect == Spec => []TypeOK
  BY InitType, StepType, PTL DEF Spec

-----------------------------------------------------------------------------
(***************************************************************************)
(* At most one active send.  A task is killed within WorkerTimeout, so if  *)
(* the lease is at least as long, the claim of a live task is live too and *)
(* refuses every other worker.                                             *)
(***************************************************************************)

\* At most one live task per delivery: its worker is the one in the claim.
LEMMA SendInvExclusive == SendInv => OneActiveSend
  BY DEF SendInv, OneActiveSend, LiveTaskHoldsClaim, OneTaskPerWorker

\* With a lease as long as the timeout, a row with a live task refuses claims.
LEMMA LiveTaskBlocks ==
    ASSUME WorkerTimeout <= ClaimLease, SendInv, NEW t \in taken, t.live,
           NEW task \in Task, task.d = t.pkg.task.d
    PROVE  ~Claimable(task)
<1>1. rows[task.d].claim = t.w /\ rows[task.d].claimLeft = ClaimLease - Elapsed(t)
      /\ Elapsed(t) < WorkerTimeout
  BY DEF SendInv, LiveTaskHoldsClaim
<1>2. t.left \in 0..BrokerRetry /\ t.w \in Workers
  BY TakenType DEF SendInv, Taken
<1>3. rows[task.d].claimLeft > 0
  BY <1>1, <1>2, DeliveryAssumption DEF Elapsed
<1> QED BY <1>1, <1>2, <1>3, DeliveryAssumption DEF Claimable

\* A step that starts no task and keeps the claims of the rows with live tasks
\* keeps both parts of the invariant.
LEMMA KeepsSendInv ==
    ASSUME SendInv,
           \A t \in taken' : t.live => t \in taken,
           \A t \in taken' : t.live =>
               /\ rows'[t.pkg.task.d].status \in {"pending", "failed"}
               /\ rows'[t.pkg.task.d].claim = rows[t.pkg.task.d].claim
               /\ rows'[t.pkg.task.d].claimLeft = rows[t.pkg.task.d].claimLeft
    PROVE  LiveTaskHoldsClaim' /\ OneTaskPerWorker'
  BY DEF SendInv, LiveTaskHoldsClaim, OneTaskPerWorker, Elapsed

\* Inserting a row touches only a row no task is about.
LEMMA InsertSendInv ==
    ASSUME SendInv, NEW d \in Deliveries, NEW i, NEW q, Insert(d, i, q)
    PROVE  LiveTaskHoldsClaim' /\ OneTaskPerWorker'
<1>1. taken' = taken /\ rows' = [rows EXCEPT ![d] = NewRow(i, q)] /\ rows[d].status = "absent"
  BY DEF Insert
<1>2. \A t \in taken : t.live => t.pkg.task.d \in Deliveries \ {d}
  BY <1>1, TakenType DEF SendInv, LiveTaskHoldsClaim
<1>3. \A t \in taken : t.live => rows'[t.pkg.task.d] = rows[t.pkg.task.d]
  BY <1>1, <1>2 DEF SendInv, TypeOK
<1> QED BY <1>1, <1>3, KeepsSendInv DEF SendInv, LiveTaskHoldsClaim

\* Ending task t may rewrite the row of t: no other live task is about it.
LEMMA EndSendInv ==
    ASSUME SendInv, NEW t \in taken, t.live,
           NEW r, rows' = [rows EXCEPT ![t.pkg.task.d] = r],
           \A u \in taken' : u.live => u \in taken \ {t}
    PROVE  LiveTaskHoldsClaim' /\ OneTaskPerWorker'
<1>1. \A u \in taken' : u.live => u.pkg.task.d # t.pkg.task.d
  BY SendInvExclusive DEF OneActiveSend
<1>2. \A u \in taken' : u.live => rows'[u.pkg.task.d] = rows[u.pkg.task.d]
  BY <1>1, TakenType DEF SendInv, TypeOK
<1> QED BY <1>2, KeepsSendInv DEF SendInv, LiveTaskHoldsClaim

\* Whichever way a worker leaves its task, the task is no longer live.
LEMMA ReturnNotLive ==
    ASSUME TypeOK, NEW t \in taken, t.live
    PROVE  /\ Return(t) => \A u \in taken' : u.live => u \in taken \ {t}
           /\ LeaveUnacked(t) => \A u \in taken' : u.live => u \in taken \ {t}
<1>1. t \in Taken
  BY TakenType
<1>2. [t EXCEPT !.live = FALSE].live = FALSE
  BY <1>1 DEF Taken
<1> QED BY <1>2 DEF Return, Acknowledge, LeaveUnacked

\* Every step keeps the invariant when the lease covers the timeout.
LEMMA StepSend ==
    ASSUME WorkerTimeout <= ClaimLease
    PROVE  SendInv /\ [Next]_vars => SendInv'
<1> SUFFICES ASSUME SendInv, [Next]_vars PROVE LiveTaskHoldsClaim' /\ OneTaskPerWorker'
  BY StepType DEF SendInv
<1> USE DEF SendInv
<1>1. ASSUME NEW d \in Deliveries, SendWebhook(d) \/ SendWebhookTest(d)
      PROVE  LiveTaskHoldsClaim' /\ OneTaskPerWorker'
  BY <1>1, InsertSendInv DEF SendWebhook, SendWebhookTest
<1>2. ASSUME NEW s \in Deliveries, NEW d \in Deliveries, Redeliver(s, d)
      PROVE  LiveTaskHoldsClaim' /\ OneTaskPerWorker'
  BY <1>2, InsertSendInv DEF Redeliver
<1>3. ASSUME NEW d \in Deliveries, Detach(d)
      PROVE  LiveTaskHoldsClaim' /\ OneTaskPerWorker'
  <2>1. PICK plan : rows' = [rows EXCEPT ![d].ident = 1, ![d].plan = plan]
    BY <1>3 DEF Detach
  <2>2. \A e \in Deliveries : /\ rows'[e].status = rows[e].status
                              /\ rows'[e].claim = rows[e].claim
                              /\ rows'[e].claimLeft = rows[e].claimLeft
    BY <2>1 DEF TypeOK, Row
  <2> QED BY <1>3, <2>2, TakenType, KeepsSendInv DEF Detach, LiveTaskHoldsClaim
<1>4. ASSUME NEW w \in Workers, NEW p \in queue, TakePackage(w, p)
      PROVE  LiveTaskHoldsClaim' /\ OneTaskPerWorker'
  <2> DEFINE d == p.task.d
  <2>1. p \in Package /\ p.task \in Task /\ d \in Deliveries
    BY DEF TypeOK, Package, Task
  <2>2. Claimable(p.task) => \A t \in taken : t.live => t.pkg.task.d # d
    BY <2>1, LiveTaskBlocks
  <2>3. CASE ClaimDelivery(w, p)
    <3> DEFINE u == [pkg |-> p, w |-> w, left |-> BrokerRetry, live |-> TRUE]
    <3>1. taken' = taken \cup {u} /\ rows' = [rows EXCEPT ![d] = Claimed(@, w, p.task.n)]
      BY <2>3 DEF ClaimDelivery
    <3>2. \A t \in taken : t.live => t.pkg.task.d # d /\ t.w # w
      BY <2>2, <2>3 DEF ClaimDelivery, Busy
    <3>3. \A t \in taken : t.live => rows'[t.pkg.task.d] = rows[t.pkg.task.d]
      BY <3>1, <3>2, TakenType DEF TypeOK
    <3>4. u.pkg.task.d = d /\ u.w = w /\ Elapsed(u) = 0
      BY DeliveryAssumption DEF Elapsed
    <3>5. /\ rows'[d].status \in {"pending", "failed"}
          /\ rows'[d].claim = w /\ rows'[d].claimLeft = ClaimLease
      <4>1. rows[d] \in Row /\ rows'[d] = Claimed(rows[d], w, p.task.n)
        BY <2>1, <3>1 DEF TypeOK
      <4> QED BY <4>1, <2>3 DEF Claimed, Row, ClaimDelivery, Claimable
    <3>6. LiveTaskHoldsClaim'
      BY <3>1, <3>3, <3>4, <3>5, DeliveryAssumption DEF LiveTaskHoldsClaim, Elapsed
    <3>7. OneTaskPerWorker'
      <4> SUFFICES ASSUME NEW t1 \in taken \cup {u}, NEW t2 \in taken \cup {u},
                          t1.live, t2.live, t1.w = t2.w
                   PROVE  t1 = t2
        BY <3>1 DEF OneTaskPerWorker
      <4> HIDE DEF u, SendInv
      <4>1. CASE t1 \in taken /\ t2 \in taken
        BY <4>1 DEF SendInv, OneTaskPerWorker
      <4>2. CASE t1 = u \/ t2 = u
        BY <4>2, <3>2, <3>4
      <4> QED BY <4>1, <4>2
    <3> QED BY <3>6, <3>7
  <2>4. CASE ClaimInvalid(w, p)
    <3>1. \A t \in taken : t.live => rows'[t.pkg.task.d] = rows[t.pkg.task.d]
      BY <2>2, <2>4, TakenType DEF ClaimInvalid, TypeOK
    <3> QED BY <3>1, <2>4, KeepsSendInv DEF ClaimInvalid, LiveTaskHoldsClaim
  <2>5. CASE DropPackage(w, p)
    BY <2>5 DEF DropPackage, LiveTaskHoldsClaim, OneTaskPerWorker, Elapsed
  <2> QED BY <1>4, <2>3, <2>4, <2>5 DEF TakePackage
<1>5. ASSUME NEW t \in taken, Finish(t)
      PROVE  LiveTaskHoldsClaim' /\ OneTaskPerWorker'
  <2>1. t.live
    BY <1>5 DEF Finish, FinishSuccess, FinishTerminal, FinishExhausted, FinishRetryNow,
                FinishRetryLater, FinishSuperseded, Owns
  <2>2. \A u \in taken' : u.live => u \in taken \ {t}
    <3>1. CASE Return(t) \/ LeaveUnacked(t)
      BY <2>1, <3>1, ReturnNotLive
    <3>2. CASE taken' = taken \ {t}
      BY <3>2
    <3> QED BY <1>5, <3>1, <3>2
            DEF Finish, FinishSuccess, FinishTerminal, FinishExhausted, FinishRetryNow,
                FinishRetryLater, FinishSuperseded
  <2>3. \E r : rows' = [rows EXCEPT ![t.pkg.task.d] = r]
    <3>1. CASE FinishSuperseded(t)
      BY <3>1, TakenType DEF FinishSuperseded, TypeOK
    <3>2. CASE ~FinishSuperseded(t)
      BY <1>5, <3>2 DEF Finish, FinishSuccess, FinishTerminal, FinishExhausted,
                        FinishRetryNow, FinishRetryLater
    <3> QED BY <3>1, <3>2
  <2> QED BY <2>1, <2>2, <2>3, EndSendInv
<1>6. ASSUME NEW t \in taken, Crash(t)
      PROVE  LiveTaskHoldsClaim' /\ OneTaskPerWorker'
  <2>1. \A u \in taken' : u.live => u \in taken \ {t}
    BY <1>6, ReturnNotLive DEF Crash
  <2> QED BY <1>6, <2>1, KeepsSendInv DEF Crash, LiveTaskHoldsClaim
<1>7. ASSUME NEW t \in taken, Reappear(t)
      PROVE  LiveTaskHoldsClaim' /\ OneTaskPerWorker'
  BY <1>7, KeepsSendInv DEF Reappear, LiveTaskHoldsClaim
<1>8. CASE \/ \E s \in schedules : RunSchedule(s)
           \/ CoordinatorCrash \/ UNCHANGED vars
  BY <1>8, KeepsSendInv DEF RunSchedule, CoordinatorCrash, vars, LiveTaskHoldsClaim
<1>9. CASE RecoverPending \/ \E t \in batch : PublishRecovered(t)
  <2>1. taken' = taken /\ \A e \in Deliveries :
          /\ rows'[e].status = rows[e].status
          /\ rows'[e].claim = rows[e].claim
          /\ rows'[e].claimLeft = rows[e].claimLeft
    <3>1. CASE RecoverPending
      BY <3>1 DEF RecoverPending, TypeOK, Row
    <3>2. CASE \E t \in batch : PublishRecovered(t)
      BY <3>2 DEF PublishRecovered, TypeOK, Row, Task
    <3> QED BY <1>9, <3>1, <3>2
  <2> QED BY <2>1, TakenType, KeepsSendInv DEF LiveTaskHoldsClaim
<1>10. CASE Tick
  <2> DEFINE older(t) == [t EXCEPT !.left = Less(@)]
  <2>1. \A t \in taken : t.live => Elapsed(t) + 1 < WorkerTimeout
    BY <1>10 DEF Tick
  <2>2. taken' = {older(t) : t \in taken} /\ rows' = [d \in Deliveries |-> Aged(rows[d])]
    BY <1>10 DEF Tick
  <2>3. \A t \in taken :
          /\ older(t).pkg = t.pkg /\ older(t).w = t.w /\ older(t).live = t.live
          /\ older(t).left = Less(t.left) /\ t.left \in 0..BrokerRetry
    BY TakenType DEF Taken
  <2>4. \A t \in taken : t.live => Elapsed(older(t)) = Elapsed(t) + 1 /\ Elapsed(t) \in Nat
    BY <2>1, <2>3, DeliveryAssumption DEF Elapsed, Less
  <2>5. \A d \in Deliveries : /\ rows'[d].status = rows[d].status
                              /\ rows'[d].claim = rows[d].claim
                              /\ rows'[d].claimLeft = Less(rows[d].claimLeft)
    <3> SUFFICES ASSUME NEW d \in Deliveries
                 PROVE  /\ rows'[d].status = rows[d].status
                        /\ rows'[d].claim = rows[d].claim
                        /\ rows'[d].claimLeft = Less(rows[d].claimLeft)
      OBVIOUS
    <3>1. rows'[d] = Aged(rows[d]) /\ rows[d] \in Row
      BY <2>2 DEF TypeOK
    <3> QED BY <3>1 DEF Aged, Row
  <2>6. \A t \in taken : t.live =>
          LET r == rows'[t.pkg.task.d] IN
          /\ Elapsed(older(t)) < WorkerTimeout
          /\ r.status \in {"pending", "failed"}
          /\ r.claim = t.w
          /\ r.claimLeft = ClaimLease - Elapsed(older(t))
    <3> SUFFICES ASSUME NEW t \in taken, t.live
                 PROVE  LET r == rows'[t.pkg.task.d] IN
                        /\ Elapsed(older(t)) < WorkerTimeout
                        /\ r.status \in {"pending", "failed"}
                        /\ r.claim = t.w
                        /\ r.claimLeft = ClaimLease - Elapsed(older(t))
      OBVIOUS
    <3>1. t.pkg.task.d \in Deliveries
      BY TakenType
    <3>2. /\ rows[t.pkg.task.d].claimLeft = ClaimLease - Elapsed(t)
          /\ rows[t.pkg.task.d].status \in {"pending", "failed"}
          /\ rows[t.pkg.task.d].claim = t.w
      BY DEF LiveTaskHoldsClaim
    <3>3. Less(ClaimLease - Elapsed(t)) = ClaimLease - (Elapsed(t) + 1)
      <4>1. Elapsed(t) \in Nat /\ Elapsed(t) + 1 < WorkerTimeout
        BY <2>1, <2>4
      <4>2. ClaimLease - Elapsed(t) > 0
        BY <4>1, DeliveryAssumption
      <4> QED BY <4>1, <4>2, DeliveryAssumption DEF Less
    <3> QED BY <2>1, <2>4, <2>5, <3>1, <3>2, <3>3
  <2>7. LiveTaskHoldsClaim'
    <3> SUFFICES ASSUME NEW u \in taken', u.live
                 PROVE  LET r == rows'[u.pkg.task.d] IN
                        /\ Elapsed(u) < WorkerTimeout
                        /\ r.status \in {"pending", "failed"}
                        /\ r.claim = u.w
                        /\ r.claimLeft = ClaimLease - Elapsed(u)
      BY DEF LiveTaskHoldsClaim, Elapsed
    <3>1. PICK t \in taken : u = older(t)
      BY <2>2
    <3> QED BY <2>3, <2>6, <3>1
  <2>8. OneTaskPerWorker'
    <3> SUFFICES ASSUME NEW u1 \in taken', NEW u2 \in taken',
                        u1.live, u2.live, u1.w = u2.w
                 PROVE  u1 = u2
      BY DEF OneTaskPerWorker
    <3>1. PICK t1 \in taken : u1 = older(t1)
      BY <2>2
    <3>2. PICK t2 \in taken : u2 = older(t2)
      BY <2>2
    <3>3. t1 = t2
      BY <2>3, <3>1, <3>2 DEF OneTaskPerWorker
    <3> QED BY <3>1, <3>2, <3>3
  <2> QED BY <2>7, <2>8
<1> QED BY <1>1, <1>2, <1>3, <1>4, <1>5, <1>6, <1>7, <1>8, <1>9, <1>10 DEF Next

\* A worker timeout within the claim lease makes sends exclusive: the claim
\* lock of _claim_delivery permits one active send per delivery, whatever
\* duplicates, crashes and recoveries do.
THEOREM SendsAreExclusive ==
    ASSUME WorkerTimeout <= ClaimLease
    PROVE  Spec => []OneActiveSend
<1>1. Init => SendInv
  BY InitType DEF Init, SendInv, LiveTaskHoldsClaim, OneTaskPerWorker
<1>2. SendInv /\ [Next]_vars => SendInv'
  BY StepSend
<1> QED BY <1>1, <1>2, SendInvExclusive, PTL DEF Spec

-----------------------------------------------------------------------------
(***************************************************************************)
(* Settling is final, whatever the lease and the timeout are.              *)
(***************************************************************************)

\* The four ways a step may change a row: not in a way that matters here, by
\* creating it, by claiming an open row, by settling an open row.
RowKept(d) == /\ rows'[d].status = rows[d].status
              /\ rows'[d].attempt = rows[d].attempt
              /\ rows'[d].claim = rows[d].claim
RowCreated(d) == /\ rows[d].status = "absent"
                 /\ rows'[d].status = "pending" /\ rows'[d].claim = NoWorker
RowClaimed(d) == /\ rows[d].status \in {"pending", "failed"}
                 /\ rows'[d].status = rows[d].status
RowSettled(d) == /\ rows[d].status \in {"pending", "failed"}
                 /\ rows'[d].claim = NoWorker
RowStep(d) == RowKept(d) \/ RowCreated(d) \/ RowClaimed(d) \/ RowSettled(d)

\* Rewriting one row leaves the others alone.
LEMMA OneRowStep ==
    ASSUME TypeOK, NEW e \in Deliveries, NEW r, rows' = [rows EXCEPT ![e] = r], RowStep(e)
    PROVE  \A d \in Deliveries : RowStep(d)
  BY DEF TypeOK, RowStep, RowKept

\* An inserted row is created.
LEMMA InsertRow ==
    ASSUME TypeOK, NEW e \in Deliveries, NEW i, NEW q, Insert(e, i, q)
    PROVE  \A d \in Deliveries : RowStep(d)
<1>1. rows'[e] = NewRow(i, q) /\ rows[e].status = "absent"
  BY DEF Insert, TypeOK
<1>2. RowStep(e)
  BY <1>1 DEF RowStep, RowCreated, NewRow, Absent
<1> QED BY <1>2, OneRowStep DEF Insert

\* Every step changes every row in one of the four ways.
LEMMA EveryRowStep ==
    ASSUME TypeOK, ClaimsAreOpen, [Next]_vars
    PROVE  \A d \in Deliveries : RowStep(d)
<1>1. CASE \E d \in Deliveries : SendWebhook(d) \/ SendWebhookTest(d)
  BY <1>1, InsertRow DEF SendWebhook, SendWebhookTest
<1>2. CASE \E s, d \in Deliveries : Redeliver(s, d)
  BY <1>2, InsertRow DEF Redeliver
<1>3. CASE \E d \in Deliveries : Detach(d)
  BY <1>3 DEF Detach, TypeOK, Row, RowStep, RowKept
<1>4. ASSUME NEW w \in Workers, NEW p \in queue, TakePackage(w, p)
      PROVE  \A d \in Deliveries : RowStep(d)
  <2>1. p.task.d \in Deliveries /\ p.task.n \in Nat
    BY DEF TypeOK, Package, Task
  <2>2. rows[p.task.d] \in Row
    BY <2>1 DEF TypeOK
  <2>3. CASE ClaimDelivery(w, p)
    <3>1. rows'[p.task.d] = Claimed(rows[p.task.d], w, p.task.n)
      BY <2>1, <2>3 DEF ClaimDelivery, TypeOK
    <3>2. RowStep(p.task.d)
      BY <3>1, <2>2, <2>3 DEF ClaimDelivery, Claimable, Claimed, Row, RowStep, RowClaimed
    <3> QED BY <2>1, <2>3, <3>2, OneRowStep DEF ClaimDelivery
  <2>4. CASE ClaimInvalid(w, p)
    <3>1. rows'[p.task.d] = MarkedDead(rows[p.task.d])
      BY <2>1, <2>4 DEF ClaimInvalid, TypeOK
    <3>2. RowStep(p.task.d)
      BY <3>1, <2>2, <2>4 DEF ClaimInvalid, Claimable, MarkedDead, Row, RowStep, RowSettled
    <3> QED BY <2>1, <2>4, <3>2, OneRowStep DEF ClaimInvalid
  <2>5. CASE DropPackage(w, p)
    BY <2>5 DEF DropPackage, RowStep, RowKept
  <2> QED BY <1>4, <2>3, <2>4, <2>5 DEF TakePackage
<1>5. ASSUME NEW t \in taken, Finish(t)
      PROVE  \A d \in Deliveries : RowStep(d)
  <2> DEFINE e == t.pkg.task.d
  <2>1. e \in Deliveries /\ rows[e] \in Row /\ t.w \in Workers
    BY TakenType
  <2>2. CASE FinishSuperseded(t)
    BY <2>2 DEF FinishSuperseded, RowStep, RowKept
  <2>3. CASE ~FinishSuperseded(t)
    <3>1. Owns(t)
      BY <1>5, <2>3 DEF Finish, FinishSuccess, FinishTerminal, FinishExhausted,
                        FinishRetryNow, FinishRetryLater
    <3>2. rows[e].status \in {"pending", "failed"}
      BY <2>1, <3>1, DeliveryAssumption DEF Owns, ClaimsAreOpen
    <3>3. (\E s : rows' = [rows EXCEPT ![e] = Settled(@, s)])
            \/ (\E x : rows' = [rows EXCEPT ![e] = Failed(@, x)])
      BY <1>5, <2>3 DEF Finish, FinishSuccess, FinishTerminal, FinishExhausted,
                        FinishRetryNow, FinishRetryLater
    <3>4. CASE \E s : rows' = [rows EXCEPT ![e] = Settled(@, s)]
      <4>1. PICK s : rows' = [rows EXCEPT ![e] = Settled(rows[e], s)]
        BY <3>4
      <4>2. rows'[e].claim = NoWorker
        BY <2>1, <4>1 DEF TypeOK, Settled, Released, Row
      <4> QED BY <2>1, <3>2, <4>1, <4>2, OneRowStep DEF RowStep, RowSettled
    <3>5. CASE \E x : rows' = [rows EXCEPT ![e] = Failed(@, x)]
      <4>1. PICK x : rows' = [rows EXCEPT ![e] = Failed(rows[e], x)]
        BY <3>5
      <4>2. rows'[e].claim = NoWorker
        BY <2>1, <4>1 DEF TypeOK, Failed, Released, Row
      <4> QED BY <2>1, <3>2, <4>1, <4>2, OneRowStep DEF RowStep, RowSettled
    <3> QED BY <3>3, <3>4, <3>5
  <2> QED BY <2>2, <2>3
<1>6. CASE \/ \E t \in taken : Crash(t) \/ Reappear(t)
           \/ \E s \in schedules : RunSchedule(s)
           \/ CoordinatorCrash \/ UNCHANGED vars
  BY <1>6 DEF Crash, Reappear, RunSchedule, CoordinatorCrash, vars, RowStep, RowKept
<1>7. CASE RecoverPending
  BY <1>7 DEF RecoverPending, TypeOK, Row, RowStep, RowKept
<1>8. CASE \E t \in batch : PublishRecovered(t)
  BY <1>8 DEF PublishRecovered, TypeOK, Row, Task, RowStep, RowKept
<1>9. CASE Tick
  <2> SUFFICES ASSUME NEW d \in Deliveries PROVE RowKept(d)
    BY DEF RowStep
  <2>1. rows'[d] = Aged(rows[d]) /\ rows[d] \in Row
    BY <1>9 DEF Tick, TypeOK
  <2> QED BY <2>1 DEF Aged, Row, RowKept
<1> QED BY <1>1, <1>2, <1>3, <1>4, <1>5, <1>6, <1>7, <1>8, <1>9 DEF Next

\* A settled delivery keeps its outcome and its attempt count for ever, and no
\* worker claims it again.
THEOREM SettlingIsFinal == Spec => TerminalIsFinal
<1> DEFINE Inv == TypeOK /\ ClaimsAreOpen
<1>1. Init => Inv
  BY InitType DEF Init, ClaimsAreOpen, Absent
<1>2. Inv /\ [Next]_vars => Inv'
  <2> SUFFICES ASSUME Inv, [Next]_vars PROVE ClaimsAreOpen'
    BY StepType
  <2>1. \A d \in Deliveries : RowStep(d)
    BY EveryRowStep
  <2> QED BY <2>1 DEF ClaimsAreOpen, RowStep, RowKept, RowCreated, RowClaimed, RowSettled
<1>3. Inv /\ [Next]_vars =>
        [\A d \in Deliveries : rows[d].status \in Terminal =>
           /\ rows'[d].status = rows[d].status
           /\ rows'[d].attempt = rows[d].attempt
           /\ rows'[d].claim = NoWorker]_vars
  <2> SUFFICES ASSUME Inv, [Next]_vars, NEW d \in Deliveries, rows[d].status \in Terminal
               PROVE  /\ rows'[d].status = rows[d].status
                      /\ rows'[d].attempt = rows[d].attempt
                      /\ rows'[d].claim = NoWorker
    OBVIOUS
  <2>1. RowStep(d) /\ rows[d].status \notin {"absent", "pending", "failed"}
    BY EveryRowStep DEF Terminal
  <2>2. rows[d].claim = NoWorker
    BY <2>1 DEF ClaimsAreOpen
  <2> QED BY <2>1, <2>2 DEF RowStep, RowKept, RowCreated, RowClaimed, RowSettled
<1> HIDE DEF Inv
<1> QED BY <1>1, <1>2, <1>3, PTL DEF Spec, TerminalIsFinal

-----------------------------------------------------------------------------
(***************************************************************************)
(* The contract, and the attempts of a delivery.  A step changes at most   *)
(* one delivery in a way that matters: it accepts it, begins or ends its   *)
(* send, or rejects it.                                                    *)
(***************************************************************************)

LiveOn(d) == \E t \in taken : t.live /\ t.pkg.task.d = d
OpenRow(r) == r.status \in {"pending", "failed"}

\* Every task that is on its way to a worker or in its hands.
Tasks == {p.task : p \in queue} \cup {t.pkg.task : t \in taken}
             \cup {s.task : s \in schedules} \cup batch

Same(d) ==
    /\ rows'[d].status = rows[d].status /\ rows'[d].claim = rows[d].claim
    /\ rows'[d].attempt = rows[d].attempt /\ rows'[d].attempted = rows[d].attempted
    /\ LiveOn(d)' <=> LiveOn(d)
Accepted(d) ==
    /\ rows[d].status = "absent" /\ rows'[d].status = "pending"
    /\ rows'[d].attempt = 1 /\ ~rows'[d].attempted
    /\ ~LiveOn(d) /\ ~LiveOn(d)'
Begun(d) ==
    \E w \in Workers, k \in Tasks :
        /\ OpenRow(rows[d]) /\ rows'[d].status = rows[d].status /\ rows'[d].claim = w
        /\ \A e \in Deliveries : LiveOn(e) => rows[e].claim # w
        /\ ~LiveOn(d) /\ LiveOn(d)'
        /\ rows'[d].attempt \in {rows[d].attempt, k.n + 1}
Ended(d) ==
    /\ LiveOn(d) /\ ~LiveOn(d)'
    /\ rows'[d].attempt = rows[d].attempt
    /\ \/ rows'[d].status \in Terminal
       \/ rows'[d].status = "failed" /\ ~Exhausted(rows[d])
       \/ rows'[d].status = rows[d].status /\ faults' = faults + 1
Rejected(d) ==
    /\ OpenRow(rows[d]) /\ rows'[d].status = "dead"
    /\ rows'[d].attempt = rows[d].attempt
    /\ ~LiveOn(d) /\ ~LiveOn(d)'
Changed(d) == Accepted(d) \/ Begun(d) \/ Ended(d) \/ Rejected(d)

StepShape == \/ \A d \in Deliveries : Same(d)
             \/ \E d \in Deliveries : Changed(d) /\ \A e \in Deliveries \ {d} : Same(e)

\* A live task is about an open row that its worker has claimed.
LEMMA LiveOnFacts ==
    ASSUME SendInv, NEW d \in Deliveries, LiveOn(d)
    PROVE  OpenRow(rows[d]) /\ rows[d].claim \in Workers /\ rows[d].claim # NoWorker
<1>1. PICK t \in taken : t.live /\ t.pkg.task.d = d
  BY DEF LiveOn
<1>2. t.w \in Workers
  BY TakenType DEF SendInv
<1> QED BY <1>1, <1>2, DeliveryAssumption DEF SendInv, LiveTaskHoldsClaim, OpenRow

\* Steps that keep the hands of the workers and what matters of the rows.
LEMMA SameShape ==
    ASSUME \A d \in Deliveries : LiveOn(d)' <=> LiveOn(d),
           \A d \in Deliveries :
              /\ rows'[d].status = rows[d].status /\ rows'[d].claim = rows[d].claim
              /\ rows'[d].attempt = rows[d].attempt /\ rows'[d].attempted = rows[d].attempted
    PROVE  StepShape
  BY DEF StepShape, Same

LEMMA InsertShape ==
    ASSUME SendInv, NEW d \in Deliveries, NEW i, NEW q, Insert(d, i, q)
    PROVE  StepShape
<1>1. taken' = taken /\ rows' = [rows EXCEPT ![d] = NewRow(i, q)] /\ rows[d].status = "absent"
  BY DEF Insert
<1>2. \A e : LiveOn(e)' <=> LiveOn(e)
  BY <1>1 DEF LiveOn
<1>3. ~LiveOn(d)
  BY <1>1, LiveOnFacts DEF OpenRow
<1>4. rows'[d].status = "pending" /\ rows'[d].attempt = 1 /\ rows'[d].attempted = FALSE
  <2>1. rows'[d] = NewRow(i, q)
    BY <1>1 DEF SendInv, TypeOK
  <2> QED BY <2>1 DEF NewRow, Absent
<1>5. \A e \in Deliveries \ {d} : rows'[e] = rows[e]
  BY <1>1 DEF SendInv, TypeOK
<1> QED BY <1>1, <1>2, <1>3, <1>4, <1>5 DEF StepShape, Changed, Accepted, Same

\* The live tasks that are left when a live task ends.
LEMMA LiveAfterEnd ==
    ASSUME SendInv, NEW t \in taken, t.live,
           taken' = taken \ {t} \/ taken' = (taken \ {t}) \cup {[t EXCEPT !.live = FALSE]}
    PROVE  /\ LiveOn(t.pkg.task.d)
           /\ \A e : LiveOn(e)' <=> e # t.pkg.task.d /\ LiveOn(e)
<1>1. t \in Taken
  BY TakenType DEF SendInv
<1>2. [t EXCEPT !.live = FALSE].live = FALSE
  BY <1>1 DEF Taken
<1>3. \A u \in taken' : u.live => u \in taken \ {t}
  BY <1>2
<1>4. \A u \in taken : u.live /\ u # t => u \in taken' /\ u.pkg.task.d # t.pkg.task.d
  BY SendInvExclusive DEF OneActiveSend
<1> QED BY <1>3, <1>4 DEF LiveOn

LEMMA EndShape ==
    ASSUME SendInv, NEW t \in taken, t.live,
           taken' = taken \ {t} \/ taken' = (taken \ {t}) \cup {[t EXCEPT !.live = FALSE]},
           NEW r \in Row, rows' = [rows EXCEPT ![t.pkg.task.d] = r],
           r.attempt = rows[t.pkg.task.d].attempt,
           \/ r.status \in Terminal
           \/ r.status = "failed" /\ ~Exhausted(rows[t.pkg.task.d])
           \/ r.status = rows[t.pkg.task.d].status /\ faults' = faults + 1
    PROVE  StepShape
<1> DEFINE d == t.pkg.task.d
<1>1. d \in Deliveries
  BY TakenType DEF SendInv
<1>2. rows'[d] = r /\ \A e \in Deliveries \ {d} : rows'[e] = rows[e]
  BY <1>1 DEF SendInv, TypeOK
<1>3. LiveOn(d) /\ \A e : LiveOn(e)' <=> e # d /\ LiveOn(e)
  BY LiveAfterEnd
<1>4. Ended(d)
  <2>1. ~LiveOn(d)'
    <3>1. \A e : e = d => ~LiveOn(e)'
      BY <1>3
    <3>2. d' = d
      OBVIOUS
    <3> QED BY <3>1, <3>2
  <2> QED BY <1>2, <1>3, <2>1 DEF Ended
<1> HIDE DEF d
<1> QED BY <1>1, <1>2, <1>3, <1>4 DEF StepShape, Changed, Same

LEMMA TakeShape ==
    ASSUME WorkerTimeout <= ClaimLease, SendInv,
           NEW w \in Workers, NEW p \in queue, TakePackage(w, p)
    PROVE  StepShape
<1> DEFINE d == p.task.d
<1>1. p.task \in Task /\ p.task.n \in Nat /\ d \in Deliveries /\ p.task \in Tasks
  BY DEF SendInv, TypeOK, Package, Task, Tasks
<1>2. rows[d] \in Row
  BY <1>1 DEF SendInv, TypeOK
<1>3. Claimable(p.task) => ~LiveOn(d) /\ OpenRow(rows[d])
  BY <1>1, LiveTaskBlocks DEF LiveOn, Claimable, OpenRow
<1>4. CASE ClaimDelivery(w, p)
  <2> DEFINE u == [pkg |-> p, w |-> w, left |-> BrokerRetry, live |-> TRUE]
             r == Claimed(rows[d], w, p.task.n)
  <2>1. taken' = taken \cup {u} /\ rows' = [rows EXCEPT ![d] = r] /\ Claimable(p.task) /\ ~Busy(w)
    BY <1>4 DEF ClaimDelivery
  <2>2. u.live /\ u.pkg.task.d = d
    OBVIOUS
  <2>3. /\ r.status = rows[d].status /\ r.claim = w
        /\ r.attempt \in {rows[d].attempt, p.task.n + 1}
    BY <1>2 DEF Claimed, Row
  <2> HIDE DEF u, r, d
  <2>4. rows'[d] = r /\ \A e \in Deliveries \ {d} : rows'[e] = rows[e]
    BY <1>1, <2>1 DEF SendInv, TypeOK
  <2>5. \A e : LiveOn(e)' <=> e = d \/ LiveOn(e)
    BY <2>1, <2>2 DEF LiveOn
  <2>6. \A e \in Deliveries : LiveOn(e) => rows[e].claim # w
    BY <2>1 DEF LiveOn, SendInv, LiveTaskHoldsClaim, Busy
  <2>7. \A e \in Deliveries : e = d => Begun(e)
    BY <1>1, <1>3, <2>1, <2>3, <2>4, <2>5, <2>6 DEF Begun
  <2> QED BY <1>1, <2>4, <2>5, <2>7 DEF StepShape, Changed, Same
<1>5. CASE ClaimInvalid(w, p)
  <2>1. taken' = taken /\ rows' = [rows EXCEPT ![d] = MarkedDead(rows[d])] /\ Claimable(p.task)
    BY <1>5 DEF ClaimInvalid
  <2>2. MarkedDead(rows[d]).status = "dead" /\ MarkedDead(rows[d]).attempt = rows[d].attempt
    BY <1>2 DEF MarkedDead, Row
  <2> HIDE DEF d
  <2>3. rows'[d] = MarkedDead(rows[d]) /\ \A e \in Deliveries \ {d} : rows'[e] = rows[e]
    BY <1>1, <2>1 DEF SendInv, TypeOK
  <2>4. \A e : LiveOn(e)' <=> LiveOn(e)
    BY <2>1 DEF LiveOn
  <2>5. \A e \in Deliveries : e = d => Rejected(e)
    BY <1>1, <1>3, <2>1, <2>2, <2>3, <2>4 DEF Rejected
  <2> QED BY <1>1, <2>3, <2>4, <2>5 DEF StepShape, Changed, Same
<1>6. CASE DropPackage(w, p)
  <2>1. rows' = rows /\ \A e : LiveOn(e)' <=> LiveOn(e)
    BY <1>6 DEF DropPackage, LiveOn
  <2> QED BY <2>1, SameShape
<1> QED BY <1>4, <1>5, <1>6 DEF TakePackage

\* Under the lease no live task is superseded, so ending a task ends the send.
LEMMA FinishShape ==
    ASSUME SendInv, NEW t \in taken, Finish(t)
    PROVE  StepShape
<1> DEFINE d == t.pkg.task.d
<1>1. d \in Deliveries /\ rows[d] \in Row /\ rows[d].attempt \in Nat
  BY TakenType DEF SendInv
<1>2. t.live
  BY DEF Finish, FinishSuccess, FinishTerminal, FinishExhausted, FinishRetryNow,
         FinishRetryLater, FinishSuperseded, Owns
<1>3. ~FinishSuperseded(t)
  BY <1>2 DEF FinishSuperseded, SendInv, LiveTaskHoldsClaim
<1>4. taken' = taken \ {t} \/ taken' = (taken \ {t}) \cup {[t EXCEPT !.live = FALSE]}
  BY <1>3 DEF Finish, FinishSuccess, FinishTerminal, FinishExhausted, FinishRetryNow,
              FinishRetryLater, Return, Acknowledge, LeaveUnacked
<1>5. CASE \E st \in Terminal : rows' = [rows EXCEPT ![d] = Settled(rows[d], st)]
  <2>1. PICK st \in Terminal : rows' = [rows EXCEPT ![d] = Settled(rows[d], st)]
    BY <1>5
  <2>2. Settled(rows[d], st).status = st /\ Settled(rows[d], st).attempt = rows[d].attempt
    BY <1>1 DEF Settled, Released, Row
  <2>3. st \in Statuses
    BY DEF Terminal, Statuses
  <2>4. Settled(rows[d], st) \in Row
    BY <1>1, <2>3, RowType
  <2> QED BY <1>2, <1>4, <2>1, <2>2, <2>4, EndShape
<1>6. CASE \E x \in Nat : rows' = [rows EXCEPT ![d] = Failed(rows[d], x)] /\ ~Exhausted(rows[d])
  <2>1. PICK x \in Nat : rows' = [rows EXCEPT ![d] = Failed(rows[d], x)] /\ ~Exhausted(rows[d])
    BY <1>6
  <2>2. Failed(rows[d], x) \in Row /\ Failed(rows[d], x).status = "failed"
        /\ Failed(rows[d], x).attempt = rows[d].attempt
    BY <1>1, RowType DEF Failed, Released, Row
  <2> QED BY <1>2, <1>4, <2>1, <2>2, EndShape
<1>7. CASE FinishSuccess(t) \/ FinishTerminal(t) \/ FinishExhausted(t)
  BY <1>5, <1>7 DEF FinishSuccess, FinishTerminal, FinishExhausted, Terminal
<1>8. CASE FinishRetryNow(t)
  BY <1>6, <1>8 DEF FinishRetryNow
<1>9. CASE FinishRetryLater(t)
  <2>1. RetryDelays(rows[d].attempt) \subseteq Nat
    BY <1>1, RetryDelaysType
  <2> QED BY <1>6, <1>9, <2>1 DEF FinishRetryLater
<1> QED BY <1>3, <1>7, <1>8, <1>9 DEF Finish

LEMMA EveryStepShape ==
    ASSUME WorkerTimeout <= ClaimLease, SendInv, [Next]_vars
    PROVE  StepShape
<1>1. CASE \E d \in Deliveries : SendWebhook(d) \/ SendWebhookTest(d)
  BY <1>1, InsertShape DEF SendWebhook, SendWebhookTest
<1>2. CASE \E s, d \in Deliveries : Redeliver(s, d)
  BY <1>2, InsertShape DEF Redeliver
<1>3. CASE \E d \in Deliveries : Detach(d)
  <2>1. \A e : LiveOn(e)' <=> LiveOn(e)
    BY <1>3 DEF Detach, LiveOn
  <2>2. \A e \in Deliveries :
           /\ rows'[e].status = rows[e].status /\ rows'[e].claim = rows[e].claim
           /\ rows'[e].attempt = rows[e].attempt /\ rows'[e].attempted = rows[e].attempted
    <3>0. PICK d \in Deliveries : Detach(d)
      BY <1>3
    <3>1. PICK plan :
            rows' = [rows EXCEPT ![d] = [rows[d] EXCEPT !.ident = 1, !.plan = plan]]
      BY <3>0 DEF Detach
    <3>2. rows[d] \in Row /\ rows \in [Deliveries -> Row]
      BY DEF SendInv, TypeOK
    <3> DEFINE r == [rows[d] EXCEPT !.ident = 1, !.plan = plan]
    <3>3. r.status = rows[d].status /\ r.claim = rows[d].claim
          /\ r.attempt = rows[d].attempt /\ r.attempted = rows[d].attempted
      BY <3>2 DEF Row
    <3> HIDE DEF r
    <3> QED BY <3>1, <3>2, <3>3 DEF r
  <2> QED BY <2>1, <2>2, SameShape
<1>4. CASE \E w \in Workers, p \in queue : TakePackage(w, p)
  BY <1>4, TakeShape
<1>5. CASE \E t \in taken : Finish(t)
  BY <1>5, FinishShape
<1>6. ASSUME NEW t \in taken, Crash(t) PROVE StepShape
  <2>1. t.pkg.task.d \in Deliveries /\ rows[t.pkg.task.d] \in Row
    BY TakenType DEF SendInv
  <2>2. rows' = [rows EXCEPT ![t.pkg.task.d] = rows[t.pkg.task.d]]
    BY <1>6, <2>1 DEF Crash, SendInv, TypeOK
  <2>3. t.live /\ taken' = (taken \ {t}) \cup {[t EXCEPT !.live = FALSE]} /\ faults' = faults + 1
    BY <1>6 DEF Crash, LeaveUnacked, Fault
  <2> QED BY <2>1, <2>2, <2>3, EndShape
<1>7. CASE \E t \in taken : Reappear(t)
  <2>1. rows' = rows /\ \A e : LiveOn(e)' <=> LiveOn(e)
    BY <1>7 DEF Reappear, LiveOn
  <2> QED BY <2>1, SameShape
<1>8. CASE (\E s \in schedules : RunSchedule(s)) \/ CoordinatorCrash \/ UNCHANGED vars
  <2>1. rows' = rows /\ \A e : LiveOn(e)' <=> LiveOn(e)
    BY <1>8 DEF RunSchedule, CoordinatorCrash, vars, LiveOn
  <2> QED BY <2>1, SameShape
<1>9. CASE RecoverPending \/ \E t \in batch : PublishRecovered(t)
  <2>1. \A e : LiveOn(e)' <=> LiveOn(e)
    BY <1>9 DEF RecoverPending, PublishRecovered, LiveOn
  <2>2. \A d \in Deliveries :
          \E x : rows'[d] = rows[d] \/ rows'[d] = [rows[d] EXCEPT !.dispatchLeft = x]
    BY <1>9 DEF RecoverPending, PublishRecovered, SendInv, TypeOK, Task
  <2>3. \A d \in Deliveries : rows[d] \in Row
    BY DEF SendInv, TypeOK
  <2>4. \A d \in Deliveries :
           /\ rows'[d].status = rows[d].status /\ rows'[d].claim = rows[d].claim
           /\ rows'[d].attempt = rows[d].attempt /\ rows'[d].attempted = rows[d].attempted
    BY <2>2, <2>3 DEF Row
  <2> QED BY <2>1, <2>4, SameShape
<1>10. CASE Tick
  <2> DEFINE older(t) == [t EXCEPT !.left = Less(@)]
  <2>1. taken' = {older(t) : t \in taken} /\ rows' = [d \in Deliveries |-> Aged(rows[d])]
    BY <1>10 DEF Tick
  <2>2. \A t \in taken : older(t).pkg = t.pkg /\ older(t).live = t.live
    BY TakenType DEF SendInv, Taken
  <2> HIDE DEF older
  <2>3. \A e : LiveOn(e)' <=> LiveOn(e)
    BY <2>1, <2>2 DEF LiveOn
  <2>4. \A d \in Deliveries :
           /\ rows'[d].status = rows[d].status /\ rows'[d].claim = rows[d].claim
           /\ rows'[d].attempt = rows[d].attempt /\ rows'[d].attempted = rows[d].attempted
    <3> SUFFICES ASSUME NEW d \in Deliveries
                 PROVE  /\ rows'[d].status = rows[d].status /\ rows'[d].claim = rows[d].claim
                        /\ rows'[d].attempt = rows[d].attempt
                        /\ rows'[d].attempted = rows[d].attempted
      OBVIOUS
    <3>1. rows'[d] = Aged(rows[d]) /\ rows[d] \in Row
      BY <2>1 DEF SendInv, TypeOK
    <3> QED BY <3>1 DEF Aged, Row
  <2> QED BY <2>3, <2>4, SameShape
<1> QED BY <1>1, <1>2, <1>3, <1>4, <1>5, <1>6, <1>7, <1>8, <1>9, <1>10 DEF Next

\* The inductive invariant of SendsAreExclusive, for the theorems below.
LEMMA SendInvariant ==
    ASSUME WorkerTimeout <= ClaimLease
    PROVE  Spec => []SendInv
<1>1. Init => SendInv
  BY InitType DEF Init, SendInv, LiveTaskHoldsClaim, OneTaskPerWorker
<1>2. SendInv /\ [Next]_vars => SendInv'
  BY StepSend
<1> QED BY <1>1, <1>2, PTL DEF Spec

\* What the contract sees of a delivery.
LEMMA SenderFacts ==
    ASSUME SendInv, NEW d \in Deliveries
    PROVE  /\ LiveOn(d) => Sender(d) = rows[d].claim /\ Sender(d) # NoWorker
           /\ ~LiveOn(d) => Sender(d) = NoWorker
  BY LiveOnFacts DEF Sender, LiveOn

\* Every step of the delivery is a step of the contract or leaves it alone.
LEMMA ContractStep ==
    ASSUME WorkerTimeout <= ClaimLease, SendInv, [Next]_vars
    PROVE  [Contract!Next]_(Contract!vars)
<1>1. StepShape /\ SendInv'
  BY EveryStepShape, StepSend
<1>2. \A d \in Deliveries : Same(d) => Outcome(d)' = Outcome(d) /\ Sender(d)' = Sender(d)
  BY DEF Same, Outcome, Sender, LiveOn
<1>3. CASE \A d \in Deliveries : Same(d)
  BY <1>2, <1>3 DEF Contract!vars
<1>4. ASSUME NEW d \in Deliveries, Changed(d), \A e \in Deliveries \ {d} : Same(e)
      PROVE  Contract!Next
  <2>1. \A e \in Deliveries \ {d} : Outcome(e)' = Outcome(e) /\ Sender(e)' = Sender(e)
    BY <1>2, <1>4
  <2>2. /\ LiveOn(d) => Sender(d) = rows[d].claim /\ Sender(d) # NoWorker
        /\ ~LiveOn(d) => Sender(d) = NoWorker
        /\ LiveOn(d)' => Sender(d)' = rows'[d].claim
        /\ ~LiveOn(d)' => Sender(d)' = NoWorker
    BY SenderFacts DEF Sender, LiveOn
  <2>3. CASE Accepted(d)
    <3>1. Outcome(d) = "absent" /\ Outcome(d)' = "open" /\ Sender(d)' = Sender(d)
      BY <2>2, <2>3 DEF Accepted, Outcome
    <3>2. Contract!Accept(d)
      BY <2>1, <3>1 DEF Contract!Accept
    <3> QED BY <3>2 DEF Contract!Next
  <2>4. CASE Begun(d)
    <3>1. PICK w \in Workers :
            /\ OpenRow(rows[d]) /\ rows'[d].status = rows[d].status /\ rows'[d].claim = w
            /\ \A e \in Deliveries : LiveOn(e) => rows[e].claim # w
            /\ ~LiveOn(d) /\ LiveOn(d)'
      BY <2>4 DEF Begun
    <3>2. Outcome(d) = "open" /\ Outcome(d)' = "open" /\ Sender(d) = NoWorker /\ Sender(d)' = w
      BY <2>2, <3>1 DEF Outcome, OpenRow
    <3>3. \A e \in Deliveries : Sender(e) # w
      BY <3>1, SenderFacts, DeliveryAssumption
    <3>4. Contract!Begin(d, w)
      BY <2>1, <3>2, <3>3 DEF Contract!Begin
    <3> QED BY <3>4 DEF Contract!Next
  <2>5. CASE Ended(d)
    <3>1. OpenRow(rows[d]) /\ Sender(d) # NoWorker /\ Sender(d)' = NoWorker
      BY <2>2, <2>5, LiveOnFacts DEF Ended
    <3>2. PICK o \in {"open", "success", "dead"} : Outcome(d)' = o
      BY <2>5, <3>1 DEF Ended, Outcome, OpenRow, Terminal
    <3>3. Contract!End(d, o)
      <4>1. [e \in Deliveries |-> Outcome(e)]'
              = [[e \in Deliveries |-> Outcome(e)] EXCEPT ![d] = o]
        BY <2>1, <3>2
      <4>2. [e \in Deliveries |-> Sender(e)]'
              = [[e \in Deliveries |-> Sender(e)] EXCEPT ![d] = NoWorker]
        <5>1. \A e \in Deliveries : Sender(e)' = IF e = d THEN NoWorker ELSE Sender(e)
          BY <2>1, <3>1
        <5> QED BY ONLY <5>1
      <4>3. [e \in Deliveries |-> Sender(e)][d] # NoWorker
        BY <3>1
      <4> QED BY <4>1, <4>2, <4>3 DEF Contract!End
    <3> QED BY <3>2, <3>3 DEF Contract!Next, Contract!Outcomes
  <2>6. CASE Rejected(d)
    <3>1. Outcome(d) = "open" /\ Outcome(d)' = "dead" /\ Sender(d) = NoWorker
          /\ Sender(d)' = NoWorker
      BY <2>2, <2>6 DEF Rejected, Outcome, OpenRow
    <3>2. Contract!Reject(d)
      BY <2>1, <3>1 DEF Contract!Reject
    <3> QED BY <3>2 DEF Contract!Next
  <2> QED BY <1>4, <2>3, <2>4, <2>5, <2>6 DEF Changed
<1> QED BY <1>1, <1>3, <1>4 DEF StepShape

\* Rows, leases, packages and recovery implement the contract of durable
\* delivery when the cluster kills tasks no later than their claim expires.
THEOREM DeliveryImplementsContract ==
    ASSUME WorkerTimeout <= ClaimLease
    PROVE  Spec => ImplementsContract
<1>1. Init => Contract!Init
  BY DEF Init, Contract!Init, Outcome, Sender, Absent
<1>2. SendInv /\ [Next]_vars => [Contract!Next]_(Contract!vars)
  BY ContractStep
<1> QED BY <1>1, <1>2, SendInvariant, PTL DEF Spec, ImplementsContract, Contract!Spec

-----------------------------------------------------------------------------
(***************************************************************************)
(* The attempt budget.  A task never carries an attempt past the budget,   *)
(* as a retry is made only while attempts are left, and a row that was     *)
(* attempted and that nobody is sending has one attempt less than the      *)
(* budget: its sender settled it, found attempts left, or died, which      *)
(* raised the budget.                                                      *)
(***************************************************************************)

\* Where a task comes from.
TaskOrigin(k) ==
    \/ k \in Tasks
    \/ k.n = 0 /\ k.ident \in {0} \cup {rows[s].ident : s \in Deliveries}
    \/ \E t \in taken : Owns(t) /\ ~Exhausted(rows[t.pkg.task.d]) /\ k = RetryTask(t)
    \/ \E d \in Deliveries : Recoverable(rows[d]) /\ k = TaskFor(d, RecoveryAttempt(rows[d]))

LEMMA PublishTasks ==
    ASSUME NEW t, Publish(t), NEW p \in queue'
    PROVE  p \in queue \/ p.task = t
  BY DEF Publish

LEMMA TasksPrimed ==
    ASSUME NEW k \in Tasks'
    PROVE  \/ \E p \in queue' : k = p.task
           \/ \E t \in taken' : k = t.pkg.task
           \/ \E s \in schedules' : k = s.task
           \/ k \in batch'
  BY DEF Tasks

LEMMA TasksHas ==
    /\ \A p \in queue : p.task \in Tasks
    /\ \A t \in taken : t.pkg.task \in Tasks
    /\ \A s \in schedules : s.task \in Tasks
    /\ \A k \in batch : k \in Tasks
  BY DEF Tasks

\* The packages of the tasks in hand stay the same ones.
LEMMA HandsKeep ==
    ASSUME TypeOK, NEW t \in taken, Return(t) \/ LeaveUnacked(t) \/ taken' = taken \ {t}
    PROVE  \A u \in taken' : \E v \in taken : u.pkg = v.pkg
<1>1. [t EXCEPT !.live = FALSE].pkg = t.pkg
  BY TakenType DEF Taken
<1> QED BY <1>1 DEF Return, Acknowledge, LeaveUnacked

\* Every task a step leaves behind was there or has one of the three origins.
LEMMA TaskOrigins ==
    ASSUME TypeOK, [Next]_vars, NEW k \in Tasks'
    PROVE  TaskOrigin(k)
<1> USE TasksPrimed, TasksHas
<1>1. ASSUME NEW d \in Deliveries, NEW i \in {0} \cup {rows[s].ident : s \in Deliveries},
             NEW q, Insert(d, i, q)
      PROVE  TaskOrigin(k)
  <2> DEFINE new == [d |-> d, n |-> 0, ident |-> i]
  <2>1. new.n = 0 /\ new.ident = i
    OBVIOUS
  <2>2. UNCHANGED <<taken, schedules, batch>> /\ PublishNew(new)
    BY <1>1 DEF Insert
  <2> HIDE DEF new
  <2>3. \A p \in queue' : p \in queue \/ p.task = new
    BY <2>2, PublishTasks DEF PublishNew
  <2> QED BY <2>1, <2>2, <2>3 DEF TaskOrigin
<1>2. CASE \E d \in Deliveries : SendWebhook(d) \/ SendWebhookTest(d)
  BY <1>1, <1>2 DEF SendWebhook, SendWebhookTest
<1>3. CASE \E s, d \in Deliveries : Redeliver(s, d)
  BY <1>1, <1>3 DEF Redeliver
<1>4. CASE (\E d \in Deliveries : Detach(d)) \/ CoordinatorCrash \/ UNCHANGED vars
  BY <1>4 DEF Detach, CoordinatorCrash, vars, TaskOrigin
<1>5. ASSUME NEW w \in Workers, NEW p \in queue, TakePackage(w, p)
      PROVE  TaskOrigin(k)
  <2>1. queue' \subseteq queue /\ UNCHANGED <<schedules, batch>>
    BY <1>5 DEF TakePackage, ClaimDelivery, ClaimInvalid, DropPackage
  <2>2. \A u \in taken' : u \in taken \/ u.pkg = p
    BY <1>5 DEF TakePackage, ClaimDelivery, ClaimInvalid, DropPackage
  <2> QED BY <2>1, <2>2 DEF TaskOrigin
<1>6. ASSUME NEW t \in taken, Finish(t)
      PROVE  TaskOrigin(k)
  <2> DEFINE new == RetryTask(t)
             may == Owns(t) /\ ~Exhausted(rows[t.pkg.task.d])
  <2>1. Return(t) \/ LeaveUnacked(t) \/ taken' = taken \ {t}
    BY <1>6 DEF Finish, FinishSuccess, FinishTerminal, FinishExhausted, FinishRetryNow,
                FinishRetryLater, FinishSuperseded
  <2>2. \A u \in taken' : \E v \in taken : u.pkg = v.pkg
    BY <2>1, HandsKeep
  <2>3. batch' = batch
    BY <1>6 DEF Finish, FinishSuccess, FinishTerminal, FinishExhausted, FinishRetryNow,
                FinishRetryLater, FinishSuperseded
  <2>4. CASE FinishRetryNow(t)
    <3>1. may /\ schedules' = schedules /\ (Publish(new) \/ queue' = queue)
      BY <2>4 DEF FinishRetryNow
    <3>2. \A p \in queue' : p \in queue \/ p.task = new
      BY <3>1, PublishTasks
    <3> QED BY <2>2, <2>3, <3>1, <3>2 DEF TaskOrigin
  <2>5. CASE FinishRetryLater(t)
    <3>1. may /\ queue' = queue
      BY <2>5 DEF FinishRetryLater
    <3>2. \A s \in schedules' : s \in schedules \/ s.task = new
      BY <2>5 DEF FinishRetryLater
    <3> QED BY <2>2, <2>3, <3>1, <3>2 DEF TaskOrigin
  <2>6. CASE FinishSuccess(t) \/ FinishTerminal(t) \/ FinishExhausted(t) \/ FinishSuperseded(t)
    <3>1. UNCHANGED <<queue, schedules>>
      BY <2>6 DEF FinishSuccess, FinishTerminal, FinishExhausted, FinishSuperseded
    <3> QED BY <2>2, <2>3, <3>1 DEF TaskOrigin
  <2> QED BY <1>6, <2>4, <2>5, <2>6 DEF Finish
<1>7. ASSUME NEW t \in taken, Crash(t)
      PROVE  TaskOrigin(k)
  <2>1. \A u \in taken' : \E v \in taken : u.pkg = v.pkg
    BY <1>7, HandsKeep DEF Crash
  <2> QED BY <1>7, <2>1 DEF Crash, TaskOrigin
<1>8. ASSUME NEW t \in taken, Reappear(t)
      PROVE  TaskOrigin(k)
  <2>1. \A p \in queue' : p \in queue \/ p.task = t.pkg.task
    BY <1>8, PublishTasks DEF Reappear
  <2> QED BY <1>8, <2>1 DEF Reappear, TaskOrigin
<1>9. ASSUME NEW s \in schedules, RunSchedule(s)
      PROVE  TaskOrigin(k)
  <2>1. \A p \in queue' : p \in queue \/ p.task = s.task
    BY <1>9, PublishTasks DEF RunSchedule
  <2> QED BY <1>9, <2>1 DEF RunSchedule, TaskOrigin
<1>10. CASE RecoverPending
  <2>1. \A x \in batch' : x \in batch
           \/ \E d \in Deliveries : Recoverable(rows[d]) /\ x = TaskFor(d, RecoveryAttempt(rows[d]))
    BY <1>10 DEF RecoverPending, FirstCandidates, Candidates
  <2> QED BY <1>10, <2>1 DEF RecoverPending, TaskOrigin
<1>11. ASSUME NEW t \in batch, PublishRecovered(t)
       PROVE  TaskOrigin(k)
  <2>1. \A p \in queue' : p \in queue \/ p.task = t
    BY <1>11, PublishTasks DEF PublishRecovered
  <2> QED BY <1>11, <2>1 DEF PublishRecovered, TaskOrigin
<1>12. CASE Tick
  <2>1. \A t \in taken : [t EXCEPT !.left = Less(@)].pkg = t.pkg
    BY TakenType DEF Taken
  <2>2. \A s \in schedules : [s EXCEPT !.left = Less(@)].task = s.task
    BY DEF TypeOK
  <2>3. /\ \A u \in taken' : \E v \in taken : u.pkg = v.pkg
        /\ \A u \in schedules' : \E v \in schedules : u.task = v.task
    BY <1>12, <2>1, <2>2 DEF Tick
  <2>4. queue' = queue /\ batch' = batch
    BY <1>12 DEF Tick
  <2> QED BY <2>3, <2>4 DEF TaskOrigin
<1> QED BY <1>2, <1>3, <1>4, <1>5, <1>6, <1>7, <1>8, <1>9, <1>10, <1>11, <1>12 DEF Next

BudgetInv ==
    /\ \A k \in Tasks : k.n <= RetryCount + faults
    /\ AttemptBudget
    /\ \A d \in Deliveries :
          OpenRow(rows[d]) /\ rows[d].attempted /\ ~LiveOn(d)
              => rows[d].attempt <= RetryCount + faults

\* Nobody is sending a row that the coordinator may recover.
LEMMA RecoverableIsIdle ==
    ASSUME WorkerTimeout <= ClaimLease, SendInv, NEW d \in Deliveries, Recoverable(rows[d])
    PROVE  OpenRow(rows[d]) /\ ~LiveOn(d)
<1>1. OpenRow(rows[d])
  BY DEF Recoverable, StatusDue, OpenRow
<1>2. ASSUME NEW t \in taken, t.live, t.pkg.task.d = d PROVE FALSE
  <2>1. /\ rows[d].claim = t.w /\ rows[d].claimLeft = ClaimLease - Elapsed(t)
        /\ Elapsed(t) < WorkerTimeout
    BY <1>2 DEF SendInv, LiveTaskHoldsClaim
  <2>2. t.left \in 0..BrokerRetry /\ t.w \in Workers
    BY TakenType DEF SendInv, Taken
  <2>3. rows[d].claimLeft # 0
    BY <2>1, <2>2, DeliveryAssumption DEF Elapsed
  <2> QED BY <2>1, <2>2, <2>3, DeliveryAssumption DEF Recoverable, ClaimDue
<1> QED BY <1>1, <1>2 DEF LiveOn

LEMMA BudgetStep ==
    ASSUME WorkerTimeout <= ClaimLease, SendInv, BudgetInv, [Next]_vars
    PROVE  BudgetInv'
<1> DEFINE B == RetryCount + faults
           B1 == RetryCount + faults'
<1>1. TypeOK /\ TypeOK'
  BY StepType DEF SendInv
<1>2. faults \in Nat /\ faults' \in Nat /\ RetryCount \in Nat
  BY <1>1, DeliveryAssumption DEF TypeOK
<1>3. faults <= faults'
  <2>1. faults' = faults \/ faults' = faults + 1
    BY DEF Next, SendWebhook, SendWebhookTest, Redeliver, Insert, PublishNew, Detach, TakePackage,
       ClaimDelivery, ClaimInvalid, DropPackage, Finish, FinishSuccess, FinishTerminal,
       FinishExhausted, FinishRetryNow, FinishRetryLater, FinishSuperseded, Crash, Reappear,
       RunSchedule, RecoverPending, PublishRecovered, CoordinatorCrash, Tick, Return,
       Acknowledge, LeaveUnacked, Fault, vars
  <2> QED BY <1>2, <2>1
<1>4. B \in Nat /\ B1 \in Nat /\ B <= B1 /\ (faults' = faults + 1 => B1 = B + 1)
  <2>1. \A a, b, c \in Nat : /\ a + b \in Nat
                             /\ b <= c => a + b <= a + c
                             /\ c = b + 1 => a + c = (a + b) + 1
    OBVIOUS
  <2> QED BY <1>2, <1>3, <2>1
<1>5. \A d \in Deliveries : rows[d].attempt \in Nat /\ rows'[d].attempt \in Nat
  BY <1>1 DEF TypeOK, Row
<1>6. /\ \A k \in Tasks : k.n <= B
      /\ \A d \in Deliveries : rows[d].attempt <= B + 1
      /\ \A d \in Deliveries :
            OpenRow(rows[d]) /\ rows[d].attempted /\ ~LiveOn(d) => rows[d].attempt <= B
  <2>1. 1 + RetryCount + faults = B + 1
    BY <1>2
  <2> QED BY <2>1 DEF BudgetInv, AttemptBudget
<1>7. \A d \in Deliveries : ~Exhausted(rows[d]) => rows[d].attempt <= B
  <2> SUFFICES ASSUME NEW d \in Deliveries, ~(rows[d].attempt >= RetryCount + 1)
               PROVE  rows[d].attempt <= B
    BY DEF Exhausted
  <2> QED BY <1>2, <1>5
<1>8. \A k \in Tasks : k.n \in Nat
  BY <1>1 DEF TypeOK, Tasks, Taken, Package, Task
<1> HIDE DEF B, B1
<1>9. ASSUME NEW k \in Tasks' PROVE k.n <= B1
  <2>1. CASE k \in Tasks
    BY <1>4, <1>6, <1>8, <2>1
  <2>2. CASE k.n = 0
    BY <1>4, <2>2
  <2>3. CASE \E t \in taken : Owns(t) /\ ~Exhausted(rows[t.pkg.task.d]) /\ k = RetryTask(t)
    <3>1. PICK t \in taken : ~Exhausted(rows[t.pkg.task.d]) /\ k = RetryTask(t)
      BY <2>3
    <3>2. t.pkg.task.d \in Deliveries /\ t.pkg.task \in Task
      BY <1>1, TakenType
    <3>3. k.n = rows[t.pkg.task.d].attempt
      BY <3>1, <3>2 DEF RetryTask, Task
    <3> QED BY <1>4, <1>5, <1>7, <3>1, <3>2, <3>3
  <2>4. CASE \E d \in Deliveries : Recoverable(rows[d]) /\ k = TaskFor(d, RecoveryAttempt(rows[d]))
    <3>1. PICK d \in Deliveries :
            Recoverable(rows[d]) /\ k.n = RecoveryAttempt(rows[d])
      BY <2>4 DEF TaskFor
    <3>2. OpenRow(rows[d]) /\ ~LiveOn(d)
      BY <3>1, RecoverableIsIdle
    <3>3. CASE rows[d].attempted
      BY <1>4, <1>5, <1>6, <3>1, <3>2, <3>3 DEF RecoveryAttempt
    <3>4. CASE ~rows[d].attempted
      <4>1. k.n = rows[d].attempt - 1 /\ rows[d].attempt <= B + 1 /\ rows[d].attempt \in Nat
        BY <1>5, <1>6, <3>1, <3>4 DEF RecoveryAttempt
      <4> QED BY <1>4, <4>1
    <3> QED BY <3>3, <3>4
  <2> QED BY <1>1, <2>1, <2>2, <2>3, <2>4, TaskOrigins DEF TaskOrigin
<1>10. ASSUME NEW d \in Deliveries
       PROVE  /\ rows'[d].attempt <= B1 + 1
              /\ OpenRow(rows'[d]) /\ rows'[d].attempted /\ ~LiveOn(d)' => rows'[d].attempt <= B1
  <2>1. Same(d) \/ Changed(d)
    BY EveryStepShape DEF StepShape
  <2>2. rows[d].attempt \in Nat /\ rows'[d].attempt \in Nat /\ rows[d].attempt <= B + 1
    BY <1>5, <1>6
  <2>3. CASE Same(d)
    <3>1. /\ rows'[d].attempt = rows[d].attempt
          /\ OpenRow(rows'[d]) /\ rows'[d].attempted /\ ~LiveOn(d)' => rows[d].attempt <= B
      BY <1>6, <2>3 DEF Same, OpenRow
    <3> QED BY <1>4, <2>2, <3>1
  <2>4. CASE Accepted(d)
    <3>1. rows'[d].attempt = 1 /\ ~rows'[d].attempted
      BY <2>4 DEF Accepted
    <3> QED BY <1>4, <3>1
  <2>5. CASE Begun(d)
    <3>1. PICK k \in Tasks : rows'[d].attempt \in {rows[d].attempt, k.n + 1} /\ LiveOn(d)'
      BY <2>5 DEF Begun
    <3>2. k.n \in Nat /\ k.n <= B
      BY <1>6, <1>8
    <3> QED BY <1>4, <2>2, <3>1, <3>2
  <2>6. CASE Ended(d)
    <3>1. rows'[d].attempt = rows[d].attempt
      BY <2>6 DEF Ended
    <3>2. \/ ~OpenRow(rows'[d])
          \/ rows[d].attempt <= B
          \/ faults' = faults + 1
      BY <1>7, <2>6 DEF Ended, OpenRow, Terminal
    <3> QED BY <1>4, <2>2, <3>1, <3>2
  <2>7. CASE Rejected(d)
    <3>1. rows'[d].attempt = rows[d].attempt /\ ~OpenRow(rows'[d])
      BY <2>7 DEF Rejected, OpenRow
    <3> QED BY <1>4, <2>2, <3>1
  <2> QED BY <2>1, <2>3, <2>4, <2>5, <2>6, <2>7 DEF Changed
<1>11. B1 + 1 = 1 + RetryCount + faults' /\ B1 = RetryCount + faults'
  BY <1>2 DEF B1
<1>12. AttemptBudget'
  BY <1>10, <1>11 DEF AttemptBudget
<1>13. (\A d \in Deliveries :
          OpenRow(rows[d]) /\ rows[d].attempted /\ ~LiveOn(d)
              => rows[d].attempt <= RetryCount + faults)'
  BY <1>10, <1>11 DEF OpenRow
<1>14. (\A k \in Tasks : k.n <= RetryCount + faults)'
  BY <1>9, <1>11
<1> QED BY <1>12, <1>13, <1>14 DEF BudgetInv

\* Only faults push the attempt count past the retry budget, under the lease:
\* every attempt above 1 + target_retry_count is paid for by a crash.
THEOREM AttemptsArePaidFor ==
    ASSUME WorkerTimeout <= ClaimLease
    PROVE  Spec => []AttemptBudget
<1>1. Init => BudgetInv
  <2> SUFFICES ASSUME Init PROVE BudgetInv
    OBVIOUS
  <2>1. Tasks = {} /\ faults = 0
    BY DEF Init, Tasks
  <2>2. \A d \in Deliveries : rows[d].attempt = 1 /\ rows[d].attempted = FALSE
    BY DEF Init, Absent
  <2>3. 1 <= 1 + RetryCount + 0
    BY DeliveryAssumption
  <2> QED BY <2>1, <2>2, <2>3 DEF BudgetInv, AttemptBudget
<1>2. SendInv /\ BudgetInv /\ [Next]_vars => BudgetInv'
  BY BudgetStep
<1>3. BudgetInv => AttemptBudget
  BY DEF BudgetInv
<1> QED BY <1>1, <1>2, <1>3, SendInvariant, PTL DEF Spec

-----------------------------------------------------------------------------
(***************************************************************************)
(* Fencing, whatever the lease and the timeout are: a worker that lost its *)
(* claim cannot settle.                                                    *)
(***************************************************************************)

\* Whoever ends a task, no other task becomes live.
LEMMA FinishHands ==
    ASSUME TypeOK, NEW t \in taken, Finish(t)
    PROVE  t.live /\ \A u \in taken' : u.live => u \in taken \ {t}
<1>1. t.live
  BY DEF Finish, FinishSuccess, FinishTerminal, FinishExhausted, FinishRetryNow,
         FinishRetryLater, FinishSuperseded, Owns
<1>2. Return(t) \/ LeaveUnacked(t) \/ taken' = taken \ {t}
  BY DEF Finish, FinishSuccess, FinishTerminal, FinishExhausted, FinishRetryNow,
         FinishRetryLater, FinishSuperseded
<1> QED BY <1>1, <1>2, ReturnNotLive

LEMMA OneTaskStep ==
    ASSUME TypeOK, OneTaskPerWorker, [Next]_vars
    PROVE  OneTaskPerWorker'
<1>1. CASE \A u \in taken' : u.live => u \in taken
  BY <1>1 DEF OneTaskPerWorker
<1>2. CASE \/ \E d \in Deliveries : SendWebhook(d) \/ SendWebhookTest(d) \/ Detach(d)
           \/ \E s, d \in Deliveries : Redeliver(s, d)
           \/ \E t \in taken : Reappear(t)
           \/ \E s \in schedules : RunSchedule(s)
           \/ RecoverPending \/ CoordinatorCrash \/ UNCHANGED vars
           \/ \E t \in batch : PublishRecovered(t)
  BY <1>1, <1>2 DEF SendWebhook, SendWebhookTest, Detach, Redeliver, Insert, Reappear,
     RunSchedule, RecoverPending, CoordinatorCrash, PublishRecovered, vars
<1>3. ASSUME NEW w \in Workers, NEW p \in queue, TakePackage(w, p) PROVE OneTaskPerWorker'
  <2>1. CASE ClaimDelivery(w, p)
    <3> DEFINE new == [pkg |-> p, w |-> w, left |-> BrokerRetry, live |-> TRUE]
    <3>1. taken' = taken \cup {new} /\ \A t \in taken : t.live => t.w # w
      BY <2>1 DEF ClaimDelivery, Busy
    <3>2. new.w = w
      OBVIOUS
    <3> HIDE DEF new
    <3> QED BY <3>1, <3>2 DEF OneTaskPerWorker
  <2>2. CASE ClaimInvalid(w, p) \/ DropPackage(w, p)
    BY <1>1, <2>2 DEF ClaimInvalid, DropPackage
  <2> QED BY <1>3, <2>1, <2>2 DEF TakePackage
<1>4. ASSUME NEW t \in taken, Finish(t) PROVE OneTaskPerWorker'
  BY <1>1, <1>4, FinishHands
<1>5. ASSUME NEW t \in taken, Crash(t) PROVE OneTaskPerWorker'
  BY <1>1, <1>5, ReturnNotLive DEF Crash
<1>6. CASE Tick
  <2> DEFINE older(t) == [t EXCEPT !.left = Less(@)]
  <2>1. taken' = {older(t) : t \in taken}
    BY <1>6 DEF Tick
  <2>2. \A t \in taken : older(t).w = t.w /\ older(t).live = t.live
    BY TakenType DEF Taken
  <2> HIDE DEF older
  <2> SUFFICES ASSUME NEW u1 \in taken', NEW u2 \in taken', u1.live, u2.live, u1.w = u2.w
               PROVE  u1 = u2
    BY DEF OneTaskPerWorker
  <2>3. PICK t1 \in taken : u1 = older(t1)
    BY <2>1
  <2>4. PICK t2 \in taken : u2 = older(t2)
    BY <2>1
  <2>5. t1 = t2
    BY <2>2, <2>3, <2>4 DEF OneTaskPerWorker
  <2> QED BY <2>3, <2>4, <2>5
<1> QED BY <1>2, <1>3, <1>4, <1>5, <1>6 DEF Next

\* The status of d changes only by its creation, by a claimable package of a
\* row without a target, or by the task that owns its claim.
LEMMA StatusStep ==
    ASSUME TypeOK, [Next]_vars, NEW d \in Deliveries, rows'[d].status # rows[d].status
    PROVE  \/ rows[d].status = "absent"
           \/ \E p \in queue : p.task.d = d /\ Claimable(p.task)
           \/ \E t \in taken : Finish(t) /\ Owns(t) /\ t.pkg.task.d = d
<1>1. rows \in [Deliveries -> Row] /\ rows[d] \in Row
  BY DEF TypeOK
<1>2. CASE \E e \in Deliveries : SendWebhook(e) \/ SendWebhookTest(e)
  BY <1>1, <1>2 DEF SendWebhook, SendWebhookTest, Insert
<1>3. CASE \E s, e \in Deliveries : Redeliver(s, e)
  BY <1>1, <1>3 DEF Redeliver, Insert
<1>4. CASE \E e \in Deliveries : Detach(e)
  BY <1>1, <1>4 DEF Detach, Row
<1>5. ASSUME NEW w \in Workers, NEW p \in queue, TakePackage(w, p)
      PROVE  \E q \in queue : q.task.d = d /\ Claimable(q.task)
  <2>1. Claimable(p.task) /\ \E r : rows' = [rows EXCEPT ![p.task.d] = r]
    BY <1>5 DEF TakePackage, ClaimDelivery, ClaimInvalid, DropPackage
  <2>2. p.task.d = d
    BY <1>1, <2>1
  <2> QED BY <2>1, <2>2
<1>6. ASSUME NEW t \in taken, Finish(t)
      PROVE  Owns(t) /\ t.pkg.task.d = d
  <2>1. ~FinishSuperseded(t)
    BY DEF FinishSuperseded
  <2>2. Owns(t) /\ \E r : rows' = [rows EXCEPT ![t.pkg.task.d] = r]
    BY <1>6, <2>1 DEF Finish, FinishSuccess, FinishTerminal, FinishExhausted, FinishRetryNow,
                      FinishRetryLater
  <2> QED BY <1>1, <2>2
<1>7. CASE \/ \E t \in taken : Crash(t) \/ Reappear(t)
           \/ \E s \in schedules : RunSchedule(s)
           \/ CoordinatorCrash \/ UNCHANGED vars
  BY <1>7 DEF Crash, Reappear, RunSchedule, CoordinatorCrash, vars
<1>8. CASE RecoverPending \/ \E t \in batch : PublishRecovered(t)
  <2>1. \E x : rows'[d] = rows[d] \/ rows'[d] = [rows[d] EXCEPT !.dispatchLeft = x]
    BY <1>1, <1>8 DEF RecoverPending, PublishRecovered, TypeOK, Task
  <2> QED BY <1>1, <2>1 DEF Row
<1>9. CASE Tick
  <2>1. rows'[d] = Aged(rows[d])
    BY <1>9 DEF Tick
  <2> QED BY <1>1, <2>1 DEF Aged, Row
<1> QED BY <1>2, <1>3, <1>4, <1>5, <1>6, <1>7, <1>8, <1>9 DEF Next

\* The token comparison of _finish_delivery: while a claim is live, only the
\* worker that holds it changes the status of the row, and ends its task so.
THEOREM ClaimFences == Spec => OnlyOwnerSettles
<1> DEFINE Inv == TypeOK /\ ClaimsAreOpen /\ OneTaskPerWorker
<1>1. Init => Inv
  BY InitType DEF Init, ClaimsAreOpen, OneTaskPerWorker, Absent
<1>2. Inv /\ [Next]_vars => Inv'
  <2> SUFFICES ASSUME Inv, [Next]_vars PROVE ClaimsAreOpen' /\ OneTaskPerWorker'
    BY StepType
  <2>1. \A d \in Deliveries : RowStep(d)
    BY EveryRowStep
  <2>2. ClaimsAreOpen'
    BY <2>1 DEF ClaimsAreOpen, RowStep, RowKept, RowCreated, RowClaimed, RowSettled
  <2> QED BY <2>2, OneTaskStep
<1>3. Inv /\ [Next]_vars =>
        [\A d \in Deliveries :
          /\ rows[d].claim # NoWorker /\ rows[d].claimLeft > 0
          /\ rows'[d].status # rows[d].status
          => \E t \in taken : /\ t.live /\ t.pkg.task.d = d /\ t.w = rows[d].claim
                              /\ ~\E u \in taken' : u.live /\ u.w = t.w]_vars
  <2> SUFFICES ASSUME Inv, [Next]_vars, NEW d \in Deliveries,
                      rows[d].claim # NoWorker, rows[d].claimLeft > 0,
                      rows'[d].status # rows[d].status
               PROVE  \E t \in taken :
                        /\ t.live /\ t.pkg.task.d = d /\ t.w = rows[d].claim
                        /\ ~\E u \in taken' : u.live /\ u.w = t.w
    OBVIOUS
  <2>1. rows[d].status # "absent" /\ \A p \in queue : p.task.d = d => ~Claimable(p.task)
    BY DEF ClaimsAreOpen, Claimable
  <2>2. PICK t \in taken : Finish(t) /\ Owns(t) /\ t.pkg.task.d = d
    BY <2>1, StatusStep
  <2>3. t.live /\ t.w = rows[d].claim
    BY <2>2 DEF Owns
  <2>4. \A u \in taken' : u.live => u.w # t.w
    BY <2>2, FinishHands DEF OneTaskPerWorker
  <2> QED BY <2>2, <2>3, <2>4
<1> HIDE DEF Inv
<1> QED BY <1>1, <1>2, <1>3, PTL DEF Spec, OnlyOwnerSettles

-----------------------------------------------------------------------------
(***************************************************************************)
(* A claimed retry keeps its package.  The coordinator does not look at a  *)
(* failed row without next_retry_at, so the package of the task that       *)
(* claimed it must come back, and no earlier than the claim expires: then  *)
(* nothing but a changed identity could refuse it.                         *)
(***************************************************************************)

IdentInv == /\ \A k \in Tasks : k.ident = 0
            /\ \A d \in Deliveries : rows[d].ident = 0

\* Without detached events every task asserts the identity of its row.
LEMMA IdentStep ==
    ASSUME Detachable = {}, TypeOK, IdentInv, [Next]_vars
    PROVE  IdentInv'
<1>1. ASSUME NEW k \in Tasks' PROVE k.ident = 0
  <2>1. TaskOrigin(k)
    BY TaskOrigins
  <2>2. \A t \in taken : RetryTask(t).ident = t.pkg.task.ident
    BY TakenType DEF RetryTask, Task
  <2>3. \A t \in taken : RetryTask(t).ident = 0
    BY <2>2, TasksHas DEF IdentInv
  <2>4. \A d \in Deliveries : TaskFor(d, RecoveryAttempt(rows[d])).ident = 0
    BY DEF TaskFor, IdentInv
  <2> QED BY <2>1, <2>3, <2>4 DEF TaskOrigin, IdentInv
<1>2. ASSUME NEW d \in Deliveries PROVE rows'[d].ident = 0
  <2>1. rows \in [Deliveries -> Row] /\ rows[d] \in Row /\ rows[d].ident = 0
    BY DEF TypeOK, IdentInv
  <2>2. ASSUME NEW e \in Deliveries, NEW q, Insert(e, 0, q) PROVE rows'[d].ident = 0
    <3>1. NewRow(0, q).ident = 0
      BY DEF NewRow, Absent
    <3> QED BY <2>1, <2>2, <3>1 DEF Insert
  <2>3. CASE \E e \in Deliveries : SendWebhook(e) \/ SendWebhookTest(e)
    BY <2>2, <2>3 DEF SendWebhook, SendWebhookTest
  <2>4. CASE \E s, e \in Deliveries : Redeliver(s, e)
    BY <2>2, <2>4 DEF Redeliver, IdentInv
  <2>5. CASE \E e \in Deliveries : Detach(e)
    BY <2>5 DEF Detach
  <2>6. ASSUME NEW w \in Workers, NEW p \in queue, TakePackage(w, p) PROVE rows'[d].ident = 0
    <3>1. Claimed(rows[d], w, p.task.n).ident = 0 /\ MarkedDead(rows[d]).ident = 0
      BY <2>1 DEF Claimed, MarkedDead, Row
    <3>2. rows'[d] \in {rows[d], Claimed(rows[d], w, p.task.n), MarkedDead(rows[d])}
      BY <2>1, <2>6 DEF TakePackage, ClaimDelivery, ClaimInvalid, DropPackage
    <3> QED BY <2>1, <3>1, <3>2
  <2>7. ASSUME NEW t \in taken, Finish(t) PROVE rows'[d].ident = 0
    <3>1. \A x : Settled(rows[d], x).ident = 0 /\ Failed(rows[d], x).ident = 0
      BY <2>1 DEF Settled, Failed, Released, Row
    <3>2. \E x : rows'[d] \in {rows[d], Settled(rows[d], x), Failed(rows[d], x)}
      BY <2>1, <2>7 DEF Finish, FinishSuccess, FinishTerminal, FinishExhausted, FinishRetryNow,
                        FinishRetryLater, FinishSuperseded
    <3> QED BY <2>1, <3>1, <3>2
  <2>8. CASE \/ \E t \in taken : Crash(t) \/ Reappear(t)
             \/ \E s \in schedules : RunSchedule(s)
             \/ CoordinatorCrash \/ UNCHANGED vars
    BY <2>1, <2>8 DEF Crash, Reappear, RunSchedule, CoordinatorCrash, vars
  <2>9. CASE RecoverPending \/ \E t \in batch : PublishRecovered(t)
    <3>1. \E x : rows'[d] = rows[d] \/ rows'[d] = [rows[d] EXCEPT !.dispatchLeft = x]
      BY <2>1, <2>9 DEF RecoverPending, PublishRecovered, TypeOK, Task
    <3> QED BY <2>1, <3>1 DEF Row
  <2>10. CASE Tick
    <3>1. rows'[d] = Aged(rows[d])
      BY <2>10 DEF Tick
    <3> QED BY <2>1, <3>1 DEF Aged, Row
  <2> QED BY <2>3, <2>4, <2>5, <2>6, <2>7, <2>8, <2>9, <2>10 DEF Next
<1> QED BY <1>1, <1>2 DEF IdentInv

NeedsPackage(d) == rows[d].status = "failed" /\ rows[d].retryIn = NoRetry
HasPackage(d) ==
    \/ \E t \in taken : /\ t.pkg.task.d = d /\ t.left >= rows[d].claimLeft
                        /\ t.live => t.w = rows[d].claim
    \/ \E p \in queue : p.task.d = d /\ rows[d].claimLeft = 0

\* The row and the packages of d stay, a worker may die.
LEMMA KeepsPackage ==
    ASSUME TypeOK, NEW d \in Deliveries, NeedsPackage(d) => HasPackage(d),
           rows'[d].status = rows[d].status, rows'[d].retryIn = rows[d].retryIn,
           rows'[d].claim = rows[d].claim, rows'[d].claimLeft = rows[d].claimLeft,
           \A p \in queue : p.task.d = d => p \in queue',
           \A t \in taken : t.pkg.task.d = d =>
               t \in taken' \/ [t EXCEPT !.live = FALSE] \in taken'
    PROVE  (NeedsPackage(d) => HasPackage(d))'
<1> SUFFICES ASSUME NeedsPackage(d)' PROVE HasPackage(d)'
  OBVIOUS
<1>1. HasPackage(d)
  BY DEF NeedsPackage
<1>2. \A t \in taken : LET u == [t EXCEPT !.live = FALSE] IN
         u.pkg = t.pkg /\ u.left = t.left /\ u.live = FALSE
  BY TakenType DEF Taken
<1>3. CASE \E p \in queue : p.task.d = d /\ rows[d].claimLeft = 0
  BY <1>3 DEF HasPackage
<1>4. ASSUME NEW t \in taken, t.pkg.task.d = d, t.left >= rows[d].claimLeft,
             t.live => t.w = rows[d].claim
      PROVE  HasPackage(d)'
  <2> DEFINE u == [t EXCEPT !.live = FALSE]
  <2>1. u.pkg = t.pkg /\ u.left = t.left /\ u.live = FALSE
    BY <1>2
  <2>2. t \in taken' \/ u \in taken'
    BY <1>4
  <2> HIDE DEF u
  <2> QED BY <1>4, <2>1, <2>2 DEF HasPackage
<1> QED BY <1>1, <1>3, <1>4 DEF HasPackage

LEMMA PublishKeeps ==
    ASSUME NEW t, Publish(t)
    PROVE  queue \subseteq queue' /\ \E p \in queue' : p.task = t
<1>1. PICK c : queue' = queue \cup {[task |-> t, copy |-> c]}
  BY DEF Publish
<1>2. [task |-> t, copy |-> c].task = t
  OBVIOUS
<1> QED BY <1>1, <1>2

\* A step that leaves every row's claim and every package where it is.
LEMMA QuietKeepsPackages ==
    ASSUME TypeOK, ClaimedRetryKeepsPackage,
           \A d \in Deliveries :
               /\ rows'[d].status = rows[d].status /\ rows'[d].retryIn = rows[d].retryIn
               /\ rows'[d].claim = rows[d].claim /\ rows'[d].claimLeft = rows[d].claimLeft,
           queue \subseteq queue',
           \A t \in taken : t \in taken' \/ [t EXCEPT !.live = FALSE] \in taken'
    PROVE  ClaimedRetryKeepsPackage'
<1>1. ASSUME NEW d \in Deliveries PROVE (NeedsPackage(d) => HasPackage(d))'
  <2>1. NeedsPackage(d) => HasPackage(d)
    BY DEF ClaimedRetryKeepsPackage, NeedsPackage, HasPackage
  <2> QED BY <2>1, KeepsPackage
<1> QED BY <1>1 DEF ClaimedRetryKeepsPackage, NeedsPackage, HasPackage

LEMMA PackageStep ==
    ASSUME ClaimLease <= BrokerRetry, TypeOK, IdentInv, ClaimedRetryKeepsPackage, [Next]_vars
    PROVE  ClaimedRetryKeepsPackage'
<1>1. /\ rows \in [Deliveries -> Row]
      /\ \A d \in Deliveries : rows[d] \in Row /\ (NeedsPackage(d) => HasPackage(d))
  BY DEF TypeOK, ClaimedRetryKeepsPackage, NeedsPackage, HasPackage
<1>2. (\A d \in Deliveries : (NeedsPackage(d) => HasPackage(d))') => ClaimedRetryKeepsPackage'
  BY DEF ClaimedRetryKeepsPackage, NeedsPackage, HasPackage
<1>3. ASSUME NEW e \in Deliveries, NEW i, NEW q, Insert(e, i, q)
      PROVE  ClaimedRetryKeepsPackage'
  <2>1. taken' = taken /\ rows' = [rows EXCEPT ![e] = NewRow(i, q)] /\ queue \subseteq queue'
    BY <1>3, PublishKeeps DEF Insert, PublishNew
  <2>2. NewRow(i, q).status = "pending"
    BY DEF NewRow, Absent
  <2>3. ASSUME NEW d \in Deliveries PROVE (NeedsPackage(d) => HasPackage(d))'
    <3>1. CASE d = e
      BY <1>1, <2>1, <2>2, <3>1 DEF NeedsPackage
    <3>2. CASE d # e
      <4>1. rows'[d] = rows[d]
        BY <1>1, <2>1, <3>2
      <4> QED BY <1>1, <2>1, <4>1, KeepsPackage
    <3> QED BY <3>1, <3>2
  <2> QED BY <1>2, <2>3
<1>4. CASE \E d \in Deliveries : SendWebhook(d) \/ SendWebhookTest(d)
  BY <1>3, <1>4 DEF SendWebhook, SendWebhookTest
<1>5. CASE \E s, d \in Deliveries : Redeliver(s, d)
  BY <1>3, <1>5 DEF Redeliver
<1>6. CASE \E d \in Deliveries : Detach(d)
  <2>1. UNCHANGED <<queue, taken>>
    BY <1>6 DEF Detach
  <2>2. \A e \in Deliveries :
           /\ rows'[e].status = rows[e].status /\ rows'[e].retryIn = rows[e].retryIn
           /\ rows'[e].claim = rows[e].claim /\ rows'[e].claimLeft = rows[e].claimLeft
    <3>0. PICK d \in Deliveries : Detach(d)
      BY <1>6
    <3>1. PICK plan :
            rows' = [rows EXCEPT ![d] = [rows[d] EXCEPT !.ident = 1, !.plan = plan]]
      BY <3>0 DEF Detach
    <3> DEFINE r == [rows[d] EXCEPT !.ident = 1, !.plan = plan]
    <3>2. r.status = rows[d].status /\ r.claim = rows[d].claim
          /\ r.retryIn = rows[d].retryIn /\ r.claimLeft = rows[d].claimLeft
      BY <1>1 DEF Row
    <3> HIDE DEF r
    <3> QED BY <1>1, <3>1, <3>2 DEF r
  <2> QED BY <2>1, <2>2, QuietKeepsPackages
<1>7. ASSUME NEW w \in Workers, NEW p \in queue, TakePackage(w, p)
      PROVE  ClaimedRetryKeepsPackage'
  <2> DEFINE e == p.task.d
  <2>1. e \in Deliveries /\ p.task \in Task /\ p.task.ident = 0 /\ rows[e].ident = 0
    BY TasksHas DEF TypeOK, Package, Task, IdentInv
  <2>2. queue' = queue \ {p} /\ taken \subseteq taken'
    BY <1>7 DEF TakePackage, ClaimDelivery, ClaimInvalid, DropPackage
  <2>3. ASSUME NEW d \in Deliveries, d # e, rows'[d] = rows[d]
        PROVE  (NeedsPackage(d) => HasPackage(d))'
    <3>1. \A q \in queue : q.task.d = d => q \in queue'
      BY <2>2, <2>3
    <3> QED BY <1>1, <2>2, <2>3, <3>1, KeepsPackage
  <2>4. CASE ClaimDelivery(w, p)
    <3> DEFINE new == [pkg |-> p, w |-> w, left |-> BrokerRetry, live |-> TRUE]
               r == Claimed(rows[e], w, p.task.n)
    <3>1. taken' = taken \cup {new} /\ rows' = [rows EXCEPT ![e] = r]
      BY <2>4 DEF ClaimDelivery
    <3>2. r.claim = w /\ r.claimLeft = ClaimLease
      BY <1>1, <2>1 DEF Claimed, Row
    <3>3. new.pkg = p /\ new.w = w /\ new.left = BrokerRetry
      OBVIOUS
    <3> HIDE DEF new, r
    <3>4. rows'[e] = r /\ \A d \in Deliveries : d # e => rows'[d] = rows[d]
      BY <1>1, <2>1, <3>1
    <3>5. BrokerRetry >= ClaimLease
      BY DeliveryAssumption
    <3>6. ASSUME NEW d \in Deliveries, d = e PROVE HasPackage(d)'
      BY <3>1, <3>2, <3>3, <3>4, <3>5, <3>6 DEF HasPackage
    <3> QED BY <1>2, <2>3, <3>4, <3>6
  <2>5. CASE ClaimInvalid(w, p)
    <3>1. rows' = [rows EXCEPT ![e] = MarkedDead(rows[e])]
      BY <2>5 DEF ClaimInvalid
    <3>2. MarkedDead(rows[e]).status = "dead"
      BY <1>1, <2>1 DEF MarkedDead, Row
    <3>3. rows'[e].status = "dead" /\ \A d \in Deliveries : d # e => rows'[d] = rows[d]
      BY <1>1, <2>1, <3>1, <3>2
    <3>4. ASSUME NEW d \in Deliveries, d = e PROVE ~NeedsPackage(d)'
      BY <3>3, <3>4 DEF NeedsPackage
    <3> QED BY <1>2, <2>3, <3>3, <3>4
  <2>6. CASE DropPackage(w, p)
    <3>1. rows' = rows /\ ~Claimable(p.task)
      BY <2>6 DEF DropPackage
    <3>2. ASSUME NEW d \in Deliveries, d = e, NeedsPackage(d)' PROVE HasPackage(d)'
      <4>1. rows[d].status = "failed" /\ rows[d].retryIn = NoRetry /\ HasPackage(d)
        BY <1>1, <3>1, <3>2 DEF NeedsPackage
      <4>2. ~(rows[d].claimLeft = 0)
        <5>1. ~(NoRetry > 0) /\ ~(0 > 0)
          BY DEF NoRetry
        <5> QED BY <2>1, <3>1, <3>2, <4>1, <5>1 DEF Claimable
      <4> QED BY <2>2, <3>1, <4>1, <4>2 DEF HasPackage
    <3> QED BY <1>2, <2>3, <3>1, <3>2
  <2> QED BY <1>7, <2>4, <2>5, <2>6 DEF TakePackage
<1>8. ASSUME NEW t \in taken, Finish(t)
      PROVE  ClaimedRetryKeepsPackage'
  <2> DEFINE e == t.pkg.task.d
  <2>1. e \in Deliveries /\ rows[e].attempt \in Nat
    BY TakenType
  <2>2. queue \subseteq queue'
    BY <1>8, PublishKeeps
       DEF Finish, FinishSuccess, FinishTerminal, FinishExhausted, FinishRetryNow,
           FinishRetryLater, FinishSuperseded
  <2>3. \A u \in taken : u # t => u \in taken'
    BY <1>8 DEF Finish, FinishSuccess, FinishTerminal, FinishExhausted, FinishRetryNow,
                FinishRetryLater, FinishSuperseded, Return, Acknowledge, LeaveUnacked
  <2>4. ASSUME NEW d \in Deliveries, d # e, rows'[d] = rows[d]
        PROVE  (NeedsPackage(d) => HasPackage(d))'
    <3>1. \A u \in taken : u.pkg.task.d = d => u \in taken'
      BY <2>3, <2>4
    <3> QED BY <1>1, <2>2, <2>4, <3>1, KeepsPackage
  <2>5. CASE FinishSuperseded(t)
    <3>1. rows' = rows /\ t.live /\ rows[e].claim # t.w
      BY <2>5 DEF FinishSuperseded
    <3>2. ASSUME NEW d \in Deliveries, d = e, NeedsPackage(d)' PROVE HasPackage(d)'
      <4>1. HasPackage(d)
        BY <1>1, <3>1, <3>2 DEF NeedsPackage
      <4> QED BY <2>2, <2>3, <3>1, <3>2, <4>1 DEF HasPackage
    <3> QED BY <1>2, <2>4, <3>1, <3>2
  <2>6. CASE ~FinishSuperseded(t)
    <3>1. PICK r : rows' = [rows EXCEPT ![e] = r]
                   /\ ((\E x \in Terminal : r = Settled(rows[e], x))
                         \/ \E x \in Nat : r = Failed(rows[e], x))
      <4>1. RetryDelays(rows[e].attempt) \subseteq Nat
        BY <2>1, RetryDelaysType
      <4>2. CASE FinishSuccess(t) \/ FinishTerminal(t) \/ FinishExhausted(t)
        BY <4>2 DEF FinishSuccess, FinishTerminal, FinishExhausted, Terminal
      <4>3. CASE FinishRetryNow(t)
        BY <4>3 DEF FinishRetryNow
      <4>4. CASE FinishRetryLater(t)
        BY <4>1, <4>4 DEF FinishRetryLater
      <4> QED BY <1>8, <2>6, <4>2, <4>3, <4>4 DEF Finish
    <3>2. r.status \in Terminal \/ r.retryIn \in Nat
      BY <1>1, <2>1, <3>1 DEF Settled, Failed, Released, Row
    <3>3. rows'[e] = r /\ \A d \in Deliveries : d # e => rows'[d] = rows[d]
      BY <1>1, <2>1, <3>1
    <3>4. "failed" \notin Terminal /\ NoRetry \notin Nat
      BY DEF Terminal, NoRetry
    <3>5. ASSUME NEW d \in Deliveries, d = e PROVE ~NeedsPackage(d)'
      BY <3>2, <3>3, <3>4, <3>5 DEF NeedsPackage
    <3> QED BY <1>2, <2>4, <3>3, <3>5
  <2> QED BY <2>5, <2>6
<1>9. ASSUME NEW t \in taken, Crash(t)
      PROVE  ClaimedRetryKeepsPackage'
  <2>1. rows' = rows /\ queue' = queue /\ \A u \in taken : u \in taken' \/ [u EXCEPT !.live = FALSE] \in taken'
    BY <1>9 DEF Crash, LeaveUnacked
  <2> QED BY <2>1, QuietKeepsPackages
<1>10. ASSUME NEW t \in taken, Reappear(t)
       PROVE  ClaimedRetryKeepsPackage'
  <2>1. /\ rows' = rows /\ t.left = 0 /\ taken' = taken \ {t} /\ Publish(t.pkg.task)
    BY <1>10 DEF Reappear
  <2>2. queue \subseteq queue' /\ \E p \in queue' : p.task = t.pkg.task
    BY <2>1, PublishKeeps
  <2>3. ASSUME NEW d \in Deliveries, NeedsPackage(d)' PROVE HasPackage(d)'
    <3>1. HasPackage(d) /\ rows[d].claimLeft \in Nat
      BY <1>1, <2>1, <2>3 DEF NeedsPackage, Row
    <3>2. CASE \E p \in queue : p.task.d = d /\ rows[d].claimLeft = 0
      BY <2>1, <2>2, <3>2 DEF HasPackage
    <3>3. ASSUME NEW u \in taken, u.pkg.task.d = d, u.left >= rows[d].claimLeft,
                 u.live => u.w = rows[d].claim
          PROVE  HasPackage(d)'
      <4>1. CASE u # t
        BY <2>1, <3>3, <4>1 DEF HasPackage
      <4>2. CASE u = t
        <5>1. rows[d].claimLeft = 0
          BY <2>1, <3>1, <3>3, <4>2
        <5> QED BY <2>1, <2>2, <3>3, <4>2, <5>1 DEF HasPackage
      <4> QED BY <4>1, <4>2
    <3> QED BY <3>1, <3>2, <3>3 DEF HasPackage
  <2> QED BY <1>2, <2>3
<1>11. CASE (\E s \in schedules : RunSchedule(s)) \/ CoordinatorCrash \/ UNCHANGED vars
  <2>1. UNCHANGED <<rows, taken>> /\ queue \subseteq queue'
    BY <1>11, PublishKeeps DEF RunSchedule, CoordinatorCrash, vars
  <2> QED BY <2>1, QuietKeepsPackages
<1>12. CASE RecoverPending \/ \E t \in batch : PublishRecovered(t)
  <2>1. taken' = taken /\ queue \subseteq queue'
    BY <1>12, PublishKeeps DEF RecoverPending, PublishRecovered
  <2>2. \A d \in Deliveries :
          \E x : rows'[d] = rows[d] \/ rows'[d] = [rows[d] EXCEPT !.dispatchLeft = x]
    BY <1>12 DEF RecoverPending, PublishRecovered, TypeOK, Task
  <2>3. \A d \in Deliveries :
           /\ rows'[d].status = rows[d].status /\ rows'[d].retryIn = rows[d].retryIn
           /\ rows'[d].claim = rows[d].claim /\ rows'[d].claimLeft = rows[d].claimLeft
    BY <1>1, <2>2 DEF Row
  <2> QED BY <2>1, <2>3, QuietKeepsPackages
<1>13. CASE Tick
  <2> DEFINE older(t) == [t EXCEPT !.left = Less(@)]
  <2>1. taken' = {older(t) : t \in taken} /\ queue' = queue
        /\ rows' = [d \in Deliveries |-> Aged(rows[d])]
    BY <1>13 DEF Tick
  <2>2. \A t \in taken : /\ older(t).pkg = t.pkg /\ older(t).w = t.w /\ older(t).live = t.live
                         /\ older(t).left = Less(t.left) /\ t.left \in 0..BrokerRetry
    BY TakenType DEF Taken
  <2> HIDE DEF older
  <2>3. ASSUME NEW d \in Deliveries, NeedsPackage(d)' PROVE HasPackage(d)'
    <3>1. /\ rows'[d].status = rows[d].status /\ rows'[d].claim = rows[d].claim
          /\ rows'[d].retryIn = Less(rows[d].retryIn)
          /\ rows'[d].claimLeft = Less(rows[d].claimLeft)
          /\ rows[d].claimLeft \in Nat /\ rows[d].retryIn \in Nat \cup {NoRetry}
      <4>1. rows'[d] = Aged(rows[d])
        BY <2>1
      <4> QED BY <1>1, <4>1 DEF Aged, Row
    <3>2. NeedsPackage(d)
      BY <2>3, <3>1 DEF NeedsPackage, Less, NoRetry
    <3>3. HasPackage(d)
      BY <1>1, <3>2
    <3>4. CASE \E p \in queue : p.task.d = d /\ rows[d].claimLeft = 0
      <4>1. Less(0) = 0
        BY DEF Less
      <4> QED BY <2>1, <3>1, <3>4, <4>1 DEF HasPackage
    <3>5. ASSUME NEW t \in taken, t.pkg.task.d = d, t.left >= rows[d].claimLeft,
                 t.live => t.w = rows[d].claim
          PROVE  HasPackage(d)'
      <4>1. older(t).left >= rows'[d].claimLeft
        <5>1. t.left \in Nat
          BY <2>2, DeliveryAssumption
        <5>2. Less(t.left) >= Less(rows[d].claimLeft)
          BY <3>1, <3>5, <5>1 DEF Less
        <5> QED BY <2>2, <3>1, <5>2
      <4>2. older(t) \in taken'
        BY <2>1
      <4>3. older(t).pkg.task.d = d /\ (older(t).live => older(t).w = rows'[d].claim)
        BY <2>2, <3>1, <3>5
      <4> QED BY <4>1, <4>2, <4>3 DEF HasPackage
    <3> QED BY <3>3, <3>4, <3>5 DEF HasPackage
  <2> QED BY <1>2, <2>3
<1> QED BY <1>4, <1>5, <1>6, <1>7, <1>8, <1>9, <1>10, <1>11, <1>12, <1>13 DEF Next

\* A failed row that was claimed again, which the coordinator does not see,
\* keeps its package, in a worker's hands or in the broker, when the broker
\* offers packages again no earlier than a claim expires and no event is
\* deleted meanwhile.
THEOREM RetriesSurvive ==
    ASSUME ClaimLease <= BrokerRetry, Detachable = {}
    PROVE  Spec => []ClaimedRetryKeepsPackage
<1> DEFINE Inv == TypeOK /\ IdentInv /\ ClaimedRetryKeepsPackage
<1>1. Init => Inv
  <2> SUFFICES ASSUME Init PROVE IdentInv /\ ClaimedRetryKeepsPackage
    BY InitType
  <2>1. Tasks = {}
    BY DEF Init, Tasks
  <2>2. \A d \in Deliveries : rows[d].ident = 0 /\ rows[d].status = "absent"
    BY DEF Init, Absent
  <2> QED BY <2>1, <2>2 DEF IdentInv, ClaimedRetryKeepsPackage
<1>2. Inv /\ [Next]_vars => Inv'
  BY StepType, IdentStep, PackageStep
<1>3. Inv => ClaimedRetryKeepsPackage
  OBVIOUS
<1> HIDE DEF Inv
<1> QED BY <1>1, <1>2, <1>3, PTL DEF Spec
=============================================================================
