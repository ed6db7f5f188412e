-------------------------- MODULE WebhookDelivery --------------------------
(***************************************************************************)
(* Durable webhook delivery of ITAMbox (extras/tasks/webhooks.py and the   *)
(* producer in extras/services/events.py).                                 *)
(*                                                                         *)
(* One database row per delivery, a django-q ORM broker that hands out     *)
(* identity-only packages at least once, workers that claim a row for a    *)
(* lease, send, and settle it, a scheduler that fires delayed retries, and *)
(* a coordinator that republishes rows nobody works on.  Every database    *)
(* transaction is one step; what happens outside a transaction (the HTTP   *)
(* exchange, the publication after commit) is a step of its own or a       *)
(* choice of the step that commits.                                        *)
(*                                                                         *)
(* Time: every timestamp t of the code is kept as the time left until t,   *)
(* 0 once t is not after now.  Tick lets one unit of time pass.            *)
(***************************************************************************)
EXTENDS Integers, FiniteSets

CONSTANTS
    Deliveries,     \* primary keys of delivery rows
    Workers,        \* django-q worker processes
    NoWorker,       \* claim_token NULL
    RetryCount,     \* target_retry_count
    Backoff,        \* target_retry_backoff
    MaxBackoff,     \* cap of the exponential backoff
    MaxRetryAfter,  \* MAX_RETRY_AFTER_SECONDS
    RetryAfters,    \* delta-seconds a receiver may ask for in Retry-After
    ClaimLease,     \* _CLAIM_LEASE_SECONDS
    PendingStale,   \* _RECOVERY_PENDING_STALE_SECONDS
    DispatchLease,  \* _RECOVERY_DISPATCH_LEASE_SECONDS
    BatchSize,      \* _RECOVERY_BATCH_SIZE
    WorkerTimeout,  \* Q_CLUSTER timeout: a task older than this is killed
    BrokerRetry,    \* Q_CLUSTER retry: an unacknowledged package reappears
    Detachable,     \* rows whose event or endpoint may be deleted meanwhile
    MaxAttempts,    \* bound: attempts of one delivery
    MaxCopies,      \* bound: equal packages that may wait at the same time
    MaxFaults       \* bound: crashes and failed publications in a behaviour

ASSUME DeliveryAssumption ==
    /\ Deliveries \subseteq Nat
    /\ Detachable \subseteq Deliveries
    /\ NoWorker \notin Workers
    /\ RetryAfters \subseteq Nat
    /\ RetryCount \in Nat /\ Backoff \in Nat /\ MaxFaults \in Nat /\ MaxAttempts \in Nat
    /\ MaxRetryAfter \in Nat /\ MaxBackoff \in Nat \ {0}
    /\ ClaimLease \in Nat \ {0} /\ PendingStale \in Nat
    /\ DispatchLease \in Nat /\ BatchSize \in Nat \ {0}
    /\ WorkerTimeout \in Nat \ {0} /\ MaxCopies \in Nat \ {0}
    /\ BrokerRetry \in Nat /\ WorkerTimeout <= BrokerRetry

VARIABLES
    rows,       \* the WebhookDelivery table
    queue,      \* packages waiting in the broker
    taken,      \* packages handed to a worker and not acknowledged yet
    schedules,  \* Schedule rows of type ONCE: delayed retries
    batch,      \* rows the coordinator has leased and not published yet
    faults      \* crashes and failed publications so far

vars == <<rows, queue, taken, schedules, batch, faults>>

-----------------------------------------------------------------------------
(* State *)

Statuses == {"absent", "pending", "success", "failed", "dead"}
Terminal == {"success", "dead"}
Plans == {"ok", "bad", "no_event"}
NoRetry == -1                       \* next_retry_at NULL

\* ident stands for the identity fields a package asserts (event_id,
\* endpoint_id, tenant_id): 0 as created, 1 after a SET_NULL.
\* fresh is the time until created_at is PendingStale old.  plan tells whether
\* _execution_plan can be derived from the row ("ok") or not: the target is
\* disabled or its tenant differs ("bad"), or the event is gone ("no_event").
Row == [status : Statuses, attempt : Nat \ {0}, attempted : BOOLEAN,
        retryIn : Nat \cup {NoRetry}, claim : Workers \cup {NoWorker},
        claimLeft : Nat, fresh : Nat, dispatchLeft : Nat,
        ident : {0, 1}, plan : Plans]

\* The arguments of send_webhook_task: the asserted row and the attempt.
Task == [d : Deliveries, n : Nat, ident : {0, 1}]
Package == [task : Task, copy : 1..MaxCopies]

\* A package in a worker's hands.  left is the time until the broker offers it
\* again; live is false once the worker that ran it is gone.
Taken == [pkg : Package, w : Workers, left : 0..BrokerRetry, live : BOOLEAN]

Absent == [status |-> "absent", attempt |-> 1, attempted |-> FALSE,
           retryIn |-> NoRetry, claim |-> NoWorker, claimLeft |-> 0,
           fresh |-> 0, dispatchLeft |-> 0, ident |-> 0, plan |-> "ok"]

Init ==
    /\ rows = [d \in Deliveries |-> Absent]
    /\ queue = {}
    /\ taken = {}
    /\ schedules = {}
    /\ batch = {}
    /\ faults = 0

-----------------------------------------------------------------------------
(* The broker *)

\* async_task: one more waiting copy of t.
Publish(t) == \E c \in 1..MaxCopies :
    /\ [task |-> t, copy |-> c] \notin queue
    /\ \A b \in 1..(c - 1) : [task |-> t, copy |-> b] \in queue
    /\ queue' = queue \cup {[task |-> t, copy |-> c]}

\* async_task raises, or the process is gone before it is reached.
Fault == /\ faults < MaxFaults
         /\ faults' = faults + 1

\* The on_commit publication of a new row: it reaches the broker or is lost.
PublishNew(t) == \/ Publish(t) /\ UNCHANGED faults
                 \/ Fault /\ UNCHANGED queue

TaskFor(d, n) == [d |-> d, n |-> n, ident |-> rows[d].ident]

-----------------------------------------------------------------------------
(* Creating rows *)

NewRow(ident, plan) ==
    [Absent EXCEPT !.status = "pending", !.fresh = PendingStale,
                   !.ident = ident, !.plan = plan]

Insert(d, ident, plan) ==
    /\ rows[d].status = "absent"
    /\ rows' = [rows EXCEPT ![d] = NewRow(ident, plan)]
    /\ PublishNew([d |-> d, n |-> 0, ident |-> ident])
    /\ UNCHANGED <<taken, schedules, batch>>

\* An event rule fires.  A disabled or foreign endpoint creates no row, so the
\* snapshot of the row that is created is complete.
SendWebhook(d) == Insert(d, 0, "ok")

\* A test send snapshots the endpoint as it is, a disabled one included.
SendWebhookTest(d) == \E plan \in {"ok", "bad"} : Insert(d, 0, plan)

PendingClaimActive(r) ==
    /\ r.status = "pending"
    /\ r.claim = NoWorker \/ r.claimLeft > 0

MayRedeliver(s) ==
    /\ rows[s].status # "absent"
    /\ ~PendingClaimActive(rows[s])
    /\ rows[s].retryIn <= 0

\* Manual redelivery copies the source's identity and target into a new row.
\* A source that lost its event is refused.
Redeliver(s, d) ==
    /\ MayRedeliver(s)
    /\ rows[s].plan # "no_event"
    /\ Insert(d, rows[s].ident, rows[s].plan)

\* The event, endpoint or tenant of a row is deleted: SET_NULL changes the
\* row's identity.  Without its event, or without the tenant its target was
\* snapshotted for, no plan can be derived any more.
Detach(d) ==
    /\ d \in Detachable
    /\ rows[d].status # "absent"
    /\ rows[d].ident = 0
    /\ \E plan \in {rows[d].plan, "bad", "no_event"} :
         rows' = [rows EXCEPT ![d].ident = 1, ![d].plan = plan]
    /\ UNCHANGED <<queue, taken, schedules, batch, faults>>

-----------------------------------------------------------------------------
(* The worker *)

Busy(w) == \E t \in taken : t.w = w /\ t.live

\* Mutants of Claimable: the lease is not looked at; a success is not final.
ClaimableIgnoringLease(task) ==
    LET r == rows[task.d] IN
    /\ r.status \in {"pending", "failed"}
    /\ r.ident = task.ident
    /\ ~(r.status = "failed" /\ r.retryIn > 0)

ClaimableAfterSuccess(task) ==
    LET r == rows[task.d] IN
    /\ r.status \in {"pending", "failed", "success"}
    /\ r.ident = task.ident
    /\ ~(r.status = "failed" /\ r.retryIn > 0)
    /\ ~(r.claim # NoWorker /\ r.claimLeft > 0)

\* _claim_delivery goes on to send: nothing rejects the package or makes it a
\* no-op.
Claimable(task) ==
    LET r == rows[task.d] IN
    /\ r.status \in {"pending", "failed"}
    /\ r.ident = task.ident
    /\ ~(r.status = "failed" /\ r.retryIn > 0)
    /\ ~(r.claim # NoWorker /\ r.claimLeft > 0)

\* Mutant of Claimed: the lease outlasts the broker's retry.
ClaimedForTooLong(r, w, n) ==
    [r EXCEPT !.claim = w, !.claimLeft = BrokerRetry + 1,
              !.attempt = IF n + 1 > @ THEN n + 1 ELSE @,
              !.attempted = TRUE, !.retryIn = NoRetry, !.dispatchLeft = 0]

Claimed(r, w, n) ==
    [r EXCEPT !.claim = w, !.claimLeft = ClaimLease,
              !.attempt = IF n + 1 > @ THEN n + 1 ELSE @,
              !.attempted = TRUE, !.retryIn = NoRetry, !.dispatchLeft = 0]

MarkedDead(r) ==
    [r EXCEPT !.status = "dead", !.retryIn = NoRetry, !.claim = NoWorker,
              !.claimLeft = 0, !.dispatchLeft = 0]

\* The worker takes a package, claims its row and starts to send.
ClaimDelivery(w, p) ==
    /\ ~Busy(w)
    /\ p \in queue
    /\ Claimable(p.task) /\ rows[p.task.d].plan = "ok"
    /\ p.task.n < MaxAttempts
    /\ queue' = queue \ {p}
    /\ taken' = taken \cup {[pkg |-> p, w |-> w, left |-> BrokerRetry, live |-> TRUE]}
    /\ rows' = [rows EXCEPT ![p.task.d] = Claimed(@, w, p.task.n)]
    /\ UNCHANGED <<schedules, batch, faults>>

\* A claimable row without a complete target dies unsent.
ClaimInvalid(w, p) ==
    /\ ~Busy(w)
    /\ p \in queue
    /\ Claimable(p.task) /\ rows[p.task.d].plan # "ok"
    /\ queue' = queue \ {p}
    /\ rows' = [rows EXCEPT ![p.task.d] = MarkedDead(@)]
    /\ UNCHANGED <<taken, schedules, batch, faults>>

\* Identity mismatch, terminal row, retry not due or live claim: the package
\* is consumed and the row left alone.
DropPackage(w, p) ==
    /\ ~Busy(w)
    /\ p \in queue
    /\ ~Claimable(p.task)
    /\ queue' = queue \ {p}
    /\ UNCHANGED <<rows, taken, schedules, batch, faults>>

\* The worker returns from the task after its last transaction: the package is
\* acknowledged, or the worker dies first and the broker keeps it.
Acknowledge(t) == taken' = taken \ {t} /\ UNCHANGED faults
LeaveUnacked(t) ==
    /\ taken' = (taken \ {t}) \cup {[t EXCEPT !.live = FALSE]}
    /\ Fault
Return(t) == Acknowledge(t) \/ LeaveUnacked(t)

Released(r) == [r EXCEPT !.claim = NoWorker, !.claimLeft = 0]
Settled(r, status) == [Released(r) EXCEPT !.status = status, !.retryIn = NoRetry]
Failed(r, delay) == [Released(r) EXCEPT !.status = "failed", !.retryIn = delay]

\* Mutant of Owns: the token is not compared.
OwnsWithoutToken(t) ==
    /\ t \in taken /\ t.live
    /\ rows[t.pkg.task.d].status \notin Terminal

\* The live task t still owns the claim of its open row.
Owns(t) ==
    /\ t \in taken /\ t.live
    /\ rows[t.pkg.task.d].claim = t.w
    /\ rows[t.pkg.task.d].status \notin Terminal

\* 2xx.
FinishSuccess(t) ==
    /\ Owns(t)
    /\ rows' = [rows EXCEPT ![t.pkg.task.d] = Settled(@, "success")]
    /\ Return(t)
    /\ UNCHANGED <<queue, schedules, batch>>

\* 3xx, 4xx other than 429, or a target the transport refuses.
FinishTerminal(t) ==
    /\ Owns(t)
    /\ rows' = [rows EXCEPT ![t.pkg.task.d] = Settled(@, "dead")]
    /\ Return(t)
    /\ UNCHANGED <<queue, schedules, batch>>

\* Mutant of Exhausted: one attempt too many.
ExhaustedTooLate(r) == r.attempt > RetryCount + 1

Exhausted(r) == r.attempt >= RetryCount + 1

\* 429, 5xx or no answer, and no attempt left.
FinishExhausted(t) ==
    /\ Owns(t)
    /\ Exhausted(rows[t.pkg.task.d])
    /\ rows' = [rows EXCEPT ![t.pkg.task.d] = Settled(@, "dead")]
    /\ Return(t)
    /\ UNCHANGED <<queue, schedules, batch>>

\* Retry-After, capped.
ParseRetryAfter(v) == IF v > MaxRetryAfter THEN MaxRetryAfter ELSE v

\* Exponential backoff with twenty percent jitter, at least one.
BackoffSeconds(attempt) ==
    LET raw  == Backoff * 2^(attempt - 1)
        base == IF raw > MaxBackoff THEN MaxBackoff ELSE raw
    IN  {x \in 1..(2 * MaxBackoff) : 8 * base <= 10 * x /\ 10 * x <= 12 * base}

\* The delays _schedule_failed_retry may choose: 0 is an immediate retry.
RetryDelays(attempt) ==
    {ParseRetryAfter(v) : v \in RetryAfters}
        \cup (IF Backoff > 0 THEN BackoffSeconds(attempt) ELSE {0})

RetryTask(t) == [t.pkg.task EXCEPT !.n = rows[t.pkg.task.d].attempt]

\* 429, 5xx or no answer, retried at once: the row is due in the same
\* transaction and the package is published after it, unless the broker fails
\* or the worker dies.
FinishRetryNow(t) ==
    /\ Owns(t)
    /\ ~Exhausted(rows[t.pkg.task.d])
    /\ 0 \in RetryDelays(rows[t.pkg.task.d].attempt)
    /\ rows' = [rows EXCEPT ![t.pkg.task.d] = Failed(@, 0)]
    /\ \/ Publish(RetryTask(t)) /\ Return(t)
       \/ taken' = taken \ {t} /\ Fault /\ UNCHANGED queue
       \/ LeaveUnacked(t) /\ UNCHANGED queue
    /\ UNCHANGED <<schedules, batch>>

\* The same, retried later: the Schedule row commits with the delivery row.
FinishRetryLater(t) ==
    /\ Owns(t)
    /\ ~Exhausted(rows[t.pkg.task.d])
    /\ \E delay \in RetryDelays(rows[t.pkg.task.d].attempt) \ {0} :
         /\ rows' = [rows EXCEPT ![t.pkg.task.d] = Failed(@, delay)]
         /\ schedules' = schedules \cup {[task |-> RetryTask(t), left |-> delay]}
    /\ Return(t)
    /\ UNCHANGED <<queue, batch>>

\* The claim was taken over while the task was sending: no-op.  (A terminal
\* row never carries a claim, so the code's second no-op cannot be reached.)
FinishSuperseded(t) ==
    /\ t \in taken /\ t.live
    /\ rows[t.pkg.task.d].claim # t.w
    /\ Return(t)
    /\ UNCHANGED <<rows, queue, schedules, batch>>

\* The worker dies, or is killed for exceeding the timeout, while it sends.
Crash(t) ==
    /\ t \in taken /\ t.live
    /\ LeaveUnacked(t)
    /\ UNCHANGED <<rows, queue, schedules, batch>>

-----------------------------------------------------------------------------
(* The broker's redelivery, the scheduler and the recovery coordinator *)

\* An unacknowledged package becomes visible again.
Reappear(t) ==
    /\ t \in taken /\ ~t.live /\ t.left = 0
    /\ Publish(t.pkg.task)
    /\ taken' = taken \ {t}
    /\ UNCHANGED <<rows, schedules, batch, faults>>

\* A due ONCE schedule becomes a package.
RunSchedule(s) ==
    /\ s \in schedules /\ s.left = 0
    /\ Publish(s.task)
    /\ schedules' = schedules \ {s}
    /\ UNCHANGED <<rows, taken, batch, faults>>

\* Mutant of StatusDue: new rows are not recovered.
StatusDueFailedOnly(r) == r.status = "failed" /\ r.retryIn = 0

StatusDue(r) == \/ r.status = "pending" /\ r.fresh = 0
                \/ r.status = "failed" /\ r.retryIn = 0
ClaimDue(r) == r.claim = NoWorker \/ r.claimLeft = 0
DispatchDue(r) == r.dispatchLeft = 0
Recoverable(r) == StatusDue(r) /\ ClaimDue(r) /\ DispatchDue(r)

Candidates == {d \in Deliveries : Recoverable(rows[d])}
FirstCandidates ==
    {d \in Candidates : Cardinality({e \in Candidates : e < d}) < BatchSize}

RecoveryAttempt(r) == IF r.attempted THEN r.attempt ELSE r.attempt - 1

\* One transaction leases the first candidates; they are published after it.
RecoverPending ==
    /\ Candidates # {}
    /\ rows' = [d \in Deliveries |->
                  IF d \in FirstCandidates
                  THEN [rows[d] EXCEPT !.dispatchLeft = DispatchLease]
                  ELSE rows[d]]
    /\ batch' = batch \cup {TaskFor(d, RecoveryAttempt(rows[d])) : d \in FirstCandidates}
    /\ UNCHANGED <<queue, taken, schedules, faults>>

\* Publication of a leased row; a failure gives the lease back, unlocked.
PublishRecovered(t) ==
    /\ t \in batch
    /\ batch' = batch \ {t}
    /\ \/ Publish(t) /\ UNCHANGED <<rows, faults>>
       \/ /\ Fault
          /\ rows' = [rows EXCEPT ![t.d].dispatchLeft = 0]
          /\ UNCHANGED queue
    /\ UNCHANGED <<taken, schedules>>

\* The coordinator dies between its commit and the end of its publications.
CoordinatorCrash ==
    /\ batch # {}
    /\ batch' = {}
    /\ Fault
    /\ UNCHANGED <<rows, queue, taken, schedules>>

-----------------------------------------------------------------------------
(* Time *)

Less(x) == IF x > 0 THEN x - 1 ELSE x

Aged(r) == [r EXCEPT !.retryIn = Less(@), !.claimLeft = Less(@),
                     !.fresh = Less(@), !.dispatchLeft = Less(@)]

Elapsed(t) == BrokerRetry - t.left

\* One unit of time passes.  The cluster kills a task before it has run for
\* WorkerTimeout, so time waits for a task that is about to reach it.
Tick ==
    /\ \A t \in taken : t.live => Elapsed(t) + 1 < WorkerTimeout
    /\ rows' = [d \in Deliveries |-> Aged(rows[d])]
    /\ taken' = {[t EXCEPT !.left = Less(@)] : t \in taken}
    /\ schedules' = {[s EXCEPT !.left = Less(@)] : s \in schedules}
    /\ UNCHANGED <<queue, batch, faults>>

-----------------------------------------------------------------------------
Finish(t) == \/ FinishSuccess(t) \/ FinishTerminal(t) \/ FinishExhausted(t)
             \/ FinishRetryNow(t) \/ FinishRetryLater(t) \/ FinishSuperseded(t)

TakePackage(w, p) == ClaimDelivery(w, p) \/ ClaimInvalid(w, p) \/ DropPackage(w, p)

Next ==
    \/ \E d \in Deliveries : SendWebhook(d) \/ SendWebhookTest(d) \/ Detach(d)
    \/ \E s, d \in Deliveries : Redeliver(s, d)
    \/ \E w \in Workers, p \in queue : TakePackage(w, p)
    \/ \E t \in taken : Finish(t) \/ Crash(t) \/ Reappear(t)
    \/ \E s \in schedules : RunSchedule(s)
    \/ RecoverPending
    \/ \E t \in batch : PublishRecovered(t)
    \/ CoordinatorCrash
    \/ Tick

Spec == Init /\ [][Next]_vars

\* Workers poll, tasks end (the transport has a timeout of its own), the
\* scheduler runs, the coordinator runs every minute and time passes.
\* Crashes, failed publications and detachments are never owed.
Fairness ==
    /\ WF_vars(Tick)
    /\ WF_vars(RecoverPending)
    /\ \A d \in Deliveries :
         /\ WF_vars(\E w \in Workers, p \in queue : p.task.d = d /\ TakePackage(w, p))
         /\ WF_vars(\E t \in taken : t.pkg.task.d = d /\ Finish(t))
         /\ WF_vars(\E t \in taken : t.pkg.task.d = d /\ Reappear(t))
         /\ WF_vars(\E s \in schedules : s.task.d = d /\ RunSchedule(s))
         /\ WF_vars(\E t \in batch : t.d = d /\ PublishRecovered(t))

FairSpec == Spec /\ Fairness

-----------------------------------------------------------------------------
(* Properties *)

\* Type correctness of the delivery table, the broker and the coordinator.
TypeOK ==
    /\ rows \in [Deliveries -> Row]
    /\ queue \subseteq Package
    /\ taken \subseteq Taken
    /\ schedules \subseteq [task : Task, left : Nat]
    /\ batch \subseteq Task
    /\ faults \in 0..MaxFaults

\* Duplicate packages are harmless because the claim lock permits only one
\* active send for a delivery (recover_pending_webhook_deliveries).
OneActiveSend ==
    \A t1, t2 \in taken :
        t1.live /\ t2.live /\ t1.pkg.task.d = t2.pkg.task.d => t1 = t2

\* A live task holds the claim of an open row, and the claim cannot expire
\* before the cluster kills the task: its lease is as old as the task.
LiveTaskHoldsClaim ==
    \A t \in taken : t.live =>
        LET r == rows[t.pkg.task.d] IN
        /\ Elapsed(t) < WorkerTimeout
        /\ r.status \in {"pending", "failed"}
        /\ r.claim = t.w
        /\ r.claimLeft = ClaimLease - Elapsed(t)

\* A worker process runs one task at a time.
OneTaskPerWorker ==
    \A t1, t2 \in taken : t1.live /\ t2.live /\ t1.w = t2.w => t1 = t2

\* The inductive invariant behind OneActiveSend.
SendInv == TypeOK /\ LiveTaskHoldsClaim /\ OneTaskPerWorker

\* Settling is final: no late answer, duplicate package or recovery changes
\* the outcome or the attempt count of a successful or dead delivery.
TerminalIsFinal ==
    [][\A d \in Deliveries : rows[d].status \in Terminal =>
          /\ rows'[d].status = rows[d].status
          /\ rows'[d].attempt = rows[d].attempt
          /\ rows'[d].claim = NoWorker]_vars

\* Only an open row carries a claim: settling releases it.
ClaimsAreOpen ==
    \A d \in Deliveries :
        rows[d].claim # NoWorker => rows[d].status \in {"pending", "failed"}

\* While a claim is live, only the worker that holds it changes the status of
\* the row, and it ends its task by doing so: a worker whose claim was taken
\* over cannot settle (the token comparison of _finish_delivery).
OnlyOwnerSettles ==
    [][\A d \in Deliveries :
          /\ rows[d].claim # NoWorker /\ rows[d].claimLeft > 0
          /\ rows'[d].status # rows[d].status
          => \E t \in taken : /\ t.live /\ t.pkg.task.d = d /\ t.w = rows[d].claim
                              /\ ~\E u \in taken' : u.live /\ u.w = t.w]_vars

\* The coordinator never selects a failed row whose next_retry_at is NULL, so
\* such a row survives only through the package of the task that claimed it:
\* the owner or the broker still has it and will offer it again no earlier
\* than the claim expires, or it waits and the claim has expired.
ClaimedRetryKeepsPackage ==
    \A d \in Deliveries :
        rows[d].status = "failed" /\ rows[d].retryIn = NoRetry =>
            \/ \E t \in taken : /\ t.pkg.task.d = d /\ t.left >= rows[d].claimLeft
                                /\ t.live => t.w = rows[d].claim
            \/ \E p \in queue : p.task.d = d /\ rows[d].claimLeft = 0

\* Only faults push the attempt count past the retry budget: every attempt
\* above 1 + retry_count is paid for by a crash.
AttemptBudget ==
    \A d \in Deliveries : rows[d].attempt <= 1 + RetryCount + faults

\* Every delivery is settled in the end, whatever is lost on the way.
EventuallySettled ==
    \A d \in Deliveries :
        rows[d].status = "pending" ~> rows[d].status \in Terminal

\* The contract: an open delivery is one that is neither settled nor absent,
\* and its sender is the live worker that holds its claim.
Outcome(d) == IF rows[d].status \in {"pending", "failed"} THEN "open" ELSE rows[d].status
Sender(d) == IF \E t \in taken : t.live /\ t.pkg.task.d = d THEN rows[d].claim ELSE NoWorker

Contract == INSTANCE DeliveryContract WITH
                outcome <- [d \in Deliveries |-> Outcome(d)],
                sender  <- [d \in Deliveries |-> Sender(d)]

\* Rows, leases, packages and recovery implement the contract.
ImplementsContract == Contract!Spec
=============================================================================
