# Verification of ITAMbox

ITAMbox is an IT asset management web application (Django, PostgreSQL, django-q).
This directory holds TLA+ models of the parts of it whose correctness depends on
the order of things: several people and background workers acting on the same
rows, deliveries that fail half-way, forms that are submitted twice. The models
are checked with TLC on small instances, and what matters most is proved with
TLAPS for every size. Source paths below are relative to `src/itambox/`.

Run a model with `tlc -config <cfg> <module>` and check a proof module with
`tlapm <module>.tla`. `PROJECT.json` lists the runs, the lines each definition
models, the hazards, and the theorems.

## 1. The system

### Components

| Component | State it keeps | Operations | Hard behaviour | Module |
|---|---|---|---|---|
| Webhook delivery (`extras/tasks/webhooks.py`, `extras/services/events.py`) | one row per delivery: status, attempt, claim token and lease, next retry, dispatch lease; packages in the django-q broker; schedules | send, test send, redeliver, claim, settle, retry, recover | at-least-once packages, dying workers, three independent timeouts, lost publications | `WebhookDelivery`, `DeliveryContract` |
| Asset requests (`assets/models/requests.py`, `assets/views/request_views.py`, `assets/services/request_fulfillment.py`, `assets/signals.py`) | status, allocated asset, quantity, group parent | approve, deny, cancel, claim, complete by hand, complete by a checkout, bulk receive | two levels (group and units) changed by different people and by a signal | `AssetRequests` |
| Purchase orders (`procurement/services.py`, `archive_services.py`, `views.py`) | orders, lines, fulfillment links; receive forms and their session entry | approve, order, cancel, reopen, archive, restore, link a request, receive, add, edit and delete lines | partial deliveries, replayed and concurrent receipts, unlocked edits | `Procurement` |
| Asset custody, disposal, repair loans (`assets/services/__init__.py`, `assets/models/asset.py`) | status label, active assignment, active disposal, open loan of a repair | checkout, check-in, bulk check-in, status edit, dispose, cancel a disposal, issue a loaner, complete a repair | some writers lock the asset and some do not | `AssetCustody` |
| Scheduled reports (`extras/tasks/reports.py`) | fence of a firing, summary of the schedule, archive with the ledger of targets and a retry claim | run, compile, store, deliver, retry delivery | overlapping and duplicated runs, a lease that runs out during a send, a ledger written after the summary | `ScheduledReports` |
| License seats (`licenses/services.py`, `licenses/models.py`) | seat count, archived, seat assignments | checkout, kit checkout, quick-add, transfer, check-in, restore, change of the count, archive | capacity checked under the lock by some writers and early or never by others | `LicenseSeats` |
| Custody receipts and hand-off (`compliance/services.py`, `compliance/views.py`) | receipt of a custody period, signing sessions, mail attempts | open, prepare, mail, sign, supersede | three transactions lock the same rows in different orders | `CustodyReceipts` |
| Audit sessions (`compliance/audit_services.py`, `compliance/views_audit.py`) | session, observations, frozen report, place and status of assets | start, edit, scan, basket, close, re-home, flag missing, delete | scans and edits that read the session before it was closed | `AuditSessions` |
| Inventory stock (`inventory/services.py`, `models_stock.py`, `item_archive_services.py`) | pools per location, assignments with or without a source | check out, allocate, update, return, receive, adjust, edit, delete, restore, archive | a sum checked under the lock of one row, soft-deleted pools that are still credited, unlocked edits | `InventoryStock` |
| Kits (`assets/services/__init__.py`) | | one transaction over devices, seats and stock | lock order | the license part, in `LicenseSeats` |
| Reservations | date windows of an asset | | | planned |
| Alerts, subscriptions, grants and roles, identity provisioning, offboarding, tag sequences, CSV import, specifications, change log, REST, GraphQL, UI | | | | not modelled, see section 8 |

### How they interact

* A request is *linked* to a draft order: one line, one fulfillment link per unit,
  and the request and its units move to `procurement`. A receipt credits the links,
  allocates the created assets and moves served units back to `approved`; cancelling
  the order gives its requests back. `Procurement` extends `AssetRequests`, shares
  its variable `requests`, and is shown to implement it.
* Every checkout fires a signal that may complete one open request. In
  `AssetRequests` it is `AutoFulfill`; what a checkout needs from the asset is in
  `AssetCustody`. Requests see of an asset only whether it is free or checked out
  (`CheckoutElsewhere`, `CheckinAsset`).
* A check-in of `AssetCustody` supersedes the pending receipt of the period and its
  open signing sessions in the same transaction; `CustodyReceipts` has that
  transaction lock by lock and sees of the asset only its custody period.
* A receipt of an order line for an accessory, a consumable or a component adds to a
  pool: `ReceiveBegin` to `ReceiveSave` of `InventoryStock`.
* A kit checkout draws seats from several licenses in one transaction
  (`LicenseSeats`), besides devices and stock.
* Webhooks are produced by events of any component and act on none of them.

### What makes each part correct

* **Webhooks.** A receiver gets a delivery from one worker at a time; an outcome
  is final; the number of attempts respects the retry budget; every delivery is
  settled although workers, the broker and the coordinator fail.
* **Requests.** Closed requests stay closed; a group and its units never disagree
  about being open or awaiting procurement.
* **Orders.** Nothing is booked twice; no request is credited with more than its
  share or than what arrived; a waiting unit is always being supplied by some order;
  deliveries are not lost by cancellations.
* **Custody.** An asset is deployed exactly while somebody holds it; a disposed
  asset is in nobody's hands; a repair has one loaner; a late check-in does not take
  an asset away from its new holder.
* **Reports.** An intended fire time runs once; what a retry acts on is the newest
  run; success means that every target got the report.
* **Seats.** A writer that checks under the lock never overfills a license; waits for
  row locks end.
* **Receipts.** The receipt of an ended period is decided or superseded, and stays so;
  a decision and its session agree; mail limits hold across sessions and crashes.
* **Audits.** A scan is in the report or refused; a completed report never changes.
* **Stock.** No unit disappears or is counted twice; promised units are on some shelf;
  an archived item has nothing out.

## 2. Modules

| Module | Role |
|---|---|
| `DeliveryContract` | abstract: what webhook delivery promises (open until settled once, at most one sender, a worker sends one) |
| `WebhookDelivery` | rows, broker, workers, scheduler, coordinator, time; `ImplementsContract` is the refinement |
| `AssetRequests` | requests and groups; abstract view of procurement as `Procure` and `Release` |
| `Procurement` | orders, lines, links, forms, session; `ImplementsRequests` is the refinement |
| `AssetCustody` | assets with their assignment, disposal and loan; operations under way |
| `ScheduledReports` | one schedule: runs, archives, retries |
| `LicenseSeats` | licenses, seats and the transactions on them |
| `CustodyReceipts` | receipts and signing sessions of one asset |
| `AuditSessions` | sessions, observations, reports, assets |
| `InventoryStock` | one item with its pools and assignments |
| `MCWebhook`, `MCProcurement`, `MCCustody`, `MCReports`, `MCSeats`, `MCReceipts`, `MCAudit`, `MCStock` | instances for TLC |
| `WebhookDeliveryProofs`, `ProcurementProofs` (requests and orders), `AssetCustodyProofs`, `ScheduledReportsProofs`, `LicenseSeatsProofs`, `CustodyReceiptsProofs`, `AuditSessionsProofs`, `InventoryStockProofs` | theorems |

An operator that stands directly before a definition under a similar name
(`ClaimableIgnoringLease` before `Claimable`) is a deliberately wrong variant of it.
Each property has one that breaks it; no specification uses them.

### WebhookDelivery

One database transaction is one step. What the code does after the commit (publish
a package, acknowledge it, send the request) is a step of its own or a choice of the
committing step, so a crash can fall between the two. A timestamp `t` of the code is
kept as the time left until `t`; `Tick` lets a unit pass, so that states do not grow
with the clock. Claims are held in the name of the worker instead of a random token:
a worker has one live task, so the name identifies the claim as the token does.
`Taken` is a package handed out and not acknowledged; the broker offers it again
(`Reappear`) when its worker is gone and `BrokerRetry` has passed. `Tick` waits for a
task that is about to reach `WorkerTimeout`, because the cluster kills it then:
that is `Crash`. The response of the receiver is the choice between the `Finish…`
actions. `plan` says whether an execution plan can be derived from the snapshot of
the target; a test send may snapshot a disabled endpoint, and deleting an event or
endpoint changes `ident`, the identity fields a package must match.

### AssetRequests

An operation locks the request it is about and runs in one transaction: one step.
Refused operations are not steps. Approval and denial of a group take the units
that are still pending with them; cancellation takes every unit that is not
cancelled or fulfilled and fails as a whole if the transition table refuses one.
`asset` is `none`, `held` (allocated, in stock) or `out` (allocated, checked out).
Release of the asset pointer and response notes are not kept: no guard reads them.

### Procurement

A service operation locks its order first and is one step. Two things are not under
that lock: the receive form (rendered, submitted, submitted again; step 1 stores the
typed quantities in the session that all tabs share, step 2 books them against the
snapshot in its own form) and the line editor (`ReadForEdit`, `SaveEdit`). A key is
given to a line once, in order; `HandLines` are the keys reserved for hand-made
lines, `Editors` and `Deleters` the lines somebody edits or deletes by hand, which
lets a run choose which of these it is about. Attribution goes to the oldest request
first (`Ahead`, `Attributed`).

### AssetCustody

`checkout_asset`, `dispose_asset`, `cancel_asset_disposal`, the bulk check-in job
and the REST edit lock the asset before they read it: one step. The check-in of a
single asset and the edit form without specification changes read, validate against
committed rows and write when the row lock is free: three steps of a `Clerk`.
Issuing a loaner reads the holder and then locks; completing a repair locks the
repair and the loan but not the unit. `serial` tells one assignment of an asset from
the next. `HoldsAssignment` are the row locks of an open transaction. The isolation
level is PostgreSQL's default, READ COMMITTED. A status label is represented by its
type, every asset has a base location, and reservations, which can only refuse a
checkout, are left out.

### ScheduledReports

A run is a sequence of steps of its own (claim the firing, start, compile, store,
send to each target, write the summary, write the ledger) and keeps in memory what the
code keeps there; `run[e].stamp` is its start time, a counter. `summary` is what the
schedule row says. A retry request opens the page, reads the ledger, takes the claim,
renews it before each target, sends, and completes. `LeaseRunsOut` may happen at any
time, since a send has no upper bound relative to the lease. Tasks and requests may die
between any two steps.

### LicenseSeats, CustodyReceipts, AuditSessions, InventoryStock

These four follow one pattern, because the code does: a request is a transaction on
PostgreSQL under READ COMMITTED that reads, takes row locks one at a time, and commits.
A step that takes a lock is enabled when the row is free; what was read before is
carried in the request and may be stale; a filter in a locking query is evaluated again
when the lock is granted. Writes become visible at the commit, which is one step, so
nothing uncommitted is ever read. `RollBack` is the loss of a connection or the end
PostgreSQL puts to a deadlock. Waiting is modelled, so that deadlocks can be stated as
properties: `DeadlockNeedsTwoKits`, `DeadlockNeedsMailing` and `NoCircularWait` say
which circular waits exist at all.

* **LicenseSeats.** `checked` marks a seat that came to its license through a capacity
  check under the lock. A kit locks its licenses in the order of its rows. The REST
  update carries the version of the row its client saw (the ETag).
* **CustodyReceipts.** One asset; a receipt stands for its custody period. Signing locks
  the receipt and then the session, mailing the session and then the receipt, check-in
  the assignment, the pending receipt and then its open sessions. `mails` are the booked
  attempts and `sent` those handed to the transport.
* **AuditSessions.** `version` stands for `updated_at`, which the generic update compares.
  The report holds for each asset its category at the close.
* **InventoryStock.** Pool rows are live, deleted, archived with the item, or purged. An
  assignment without a source is deducted from the item's availability and from no
  pool. `brought`, `edited` and `bypassed` are history: what each location should own,
  the locations the edit form has overwritten, and whether something was taken without
  a look at the item. All pools belong to the tenant of the item.

## 3. Runs

All passing runs are complete searches. `CHECK_DEADLOCK FALSE` is set because each
of these systems may legitimately come to rest: everything delivered, requests
closed, bounds used up. The type invariants of `WebhookDelivery`, `AssetRequests`,
`AssetCustody`, `ScheduledReports`, `CustodyReceipts` and `AuditSessions` are proved
(section 4) and not repeated in the runs.

| Run | Instance | Shows |
|---|---|---|
| `webhook_crash` | 1 delivery, 2 workers, retries at once and delayed, 2 faults | one active send, a claimed retry keeps its package, attempts within the budget, final outcomes, and the contract: `OneActiveSend`, `ClaimedRetryKeepsPackage`, `AttemptBudget`, `TerminalIsFinal`, `ImplementsContract` |
| `webhook_fencing` | tasks may outlive the lease (timeout 3, lease 2), 1 fault, the event or endpoint may be deleted | `OnlyOwnerSettles` |
| `webhook_liveness` | 2 deliveries, batch of one, redelivery, backoff and immediate retries, 1 fault | `EventuallySettled` |
| `orders_receipts` | a group of two units on one order, two tabs | `GroupInv`, `RequestLifecycle` and `ImplementsRequests` for the requests; `ProcurementTypeOK`, `LinkLedger`, `BooksOnce`, `UnitHasSupply`, `NothingReceivedIsLost` for the orders |
| `orders_edits` | a stock request for two and a hand-made line; one line edited unlocked and deleted by hand | `ApprovalNeedsDelivery`, `AttributionIsKept` |
| `custody_races` | 2 assets, a clerk and a technician | `DisposedNotHeld`, `OneLoanPerRepair`, `LateCheckinSparesNewHolder` |
| `reports` | 2 runs of one firing or by hand, 2 retry workers, e-mail and a channel, 1 edit, 1 crash | a firing is run once, Retry acts on the newest run, success is never claimed wrongly, an overlap of two retries costs one send: `FiredOnce`, `NewestRunIsBound`, `SuccessIsDelivered`, `OverlapIsOneSend` |
| `seats` | 2 licenses, kits that list them in both orders, 2 clerks | `SeatTypeOK`, `CheckedSeatsFit`, `DeadlockNeedsTwoKits` |
| `receipts` | 2 custody periods, 2 sessions, 3 workers, 7 requests | `EndedPeriodIsClosed`, `SessionsAgree`, `MailWithinLimits`, `DeadlockNeedsMailing`, `EvidenceIsFinal` |
| `audit` | 2 sessions, 2 assets, 2 places, 2 workers, 3 requests, 1 edit | `MissingWasNotObserved`, `NoCircularWait`, `CompletedIsFrozen`, `NoLateObservation` |
| `stock` | 2 locations, 3 pool rows, 2 workers, 3 requests, 2 single steps | `StockTypeOK` (no pool below zero), `ShelvesAddUp`, `PromisesCovered`, `ArchivedNothingOut` |

`custody_split_state` (`expect: violation`) is in section 6. In `orders_edits` the
properties `BooksOnce` and `UnitHasSupply` are not stated: an unlocked edit writes back
the quantity it has read, and a deleted line strands its requests.

### Bounds, and why they are enough

* `MaxFaults` counts crashes and lost publications. Two faults cover a crash during
  the recovery from a crash; a further one only repeats a row state with another
  package.
* `MaxCopies = 2` equal packages: with two workers a third copy cannot be claimed at
  the same time. `MaxAttempts` is above what `RetryCount` and `MaxFaults` allow, except
  in `webhook_fencing`, where it stops at the retry budget.
* `ClaimLease`, `WorkerTimeout`, `BrokerRetry` keep the order of the real settings
  (600 <= 600 <= 660 seconds); `webhook_fencing` breaks it on purpose.
* `MaxQty = 2` allows a partial receipt of a quantity of two. Two lines let a
  cancelled order be linked again. Two tabs give each interleaving of two forms.
* `MaxIssues = 2` assignments of an asset: a late check-in sees another holder.
* `reports`: two runs are enough for an older one to end late, two retries for one to
  take the claim of the other; one edit attaches or detaches the channel between a run
  and its retry.
* `seats`: two licenses and two clerks give the smallest circular wait; two inserting
  requests on a license of at most two seats reach the limit.
* `receipts`: limits of two and three let the limit of a receipt be reached through two
  sessions; three workers allow one each of mailing, signing and check-in at a time.
* `audit`: two sessions over the same two assets, with a close and the actions after it
  (three requests) against an edit or deletion.
* `stock`: three requests are a checkout and two returns of it, or a checkout, an
  archive and a receipt; two single steps make a pool and delete or restore it.

### Fairness

`EventuallySettled` assumes weak fairness of: time; the coordinator (a schedule runs
it every minute); and, per delivery, workers taking packages from the queue, a
running task ending (its transport has a timeout), the broker offering an
unacknowledged package again, the scheduler firing due schedules, and the
coordinator's publications. Fairness per delivery says that the broker's queue is not
served for one delivery alone; it is ordered by time. Crashes, failed publications,
deletions and redeliveries are never owed. The other components are driven by people
and promise no progress.

## 4. Proofs

All theorems hold for every value of the constants that satisfies the named
assumptions of the modules; what a theorem assumes beyond them is said here. Hardly
any property is inductive by itself, for the same reason everywhere: a step acts on what
its request has read, or under a lock it has taken, some steps ago. What the
inductive invariants add is what a request may still rely on at each of its steps
(`TasksKnow`, `RequestsKnow`, `RunKnows`, `RetryKnows`, `Knows`).

### Webhook delivery (`WebhookDeliveryProofs`)

* `TypeCorrect`. `SendsAreExclusive` (`OneActiveSend`) assumes
  `WorkerTimeout <= ClaimLease`, which the settings satisfy with equality. That a second
  task cannot claim a row depends on the lease of the first: `SendInv` adds
  `LiveTaskHoldsClaim` (a live task's row is open, claimed by its worker, and the lease
  left is the full lease minus the age of the task, which is below the timeout) and
  `OneTaskPerWorker`. Two live tasks of one row then have the same worker and are the
  same task.
* `DeliveryImplementsContract` (`ImplementsContract`), under the same assumption: the
  refinement maps a row to its outcome and to the live worker that holds its claim. With
  `SendInv` each action is a step of `DeliveryContract` or leaves outcome and sender of
  every delivery alone.
* `AttemptsArePaidFor` (`AttemptBudget`), under the same assumption. `BudgetInv` counts
  where an attempt may come from: every task in the queue, in a schedule, in a batch or
  in a worker's hands carries a retry number within the budget and the faults so far,
  and an open row that was attempted and that nobody is sending has been paid for.
* `SettlingIsFinal` (`TerminalIsFinal`) and `ClaimFences` (`OnlyOwnerSettles`) assume
  nothing about the timeouts: a terminal row carries no claim (`ClaimsAreOpen`), a worker
  has one live task, and the comparison of the token does the rest.
* `RetriesSurvive` (`ClaimedRetryKeepsPackage`) assumes `ClaimLease <= BrokerRetry`
  (600 and 660 seconds) and `Detachable = {}`: while no event or endpoint is deleted a
  package asserts the identity of its row (`IdentInv`), so it can be claimed again when
  it comes back. With deletions the property fails, see section 6.

### Requests and orders (`ProcurementProofs`)

* `RequestsTyped`, `GroupsConsistent`, `LifecycleRespected` from
  `RequestInv == RequestTypeOK /\ GroupInv`, with one lemma per operation. Closing a
  group is safe because the guards look at its open units, and leaving procurement is
  safe because `CompletedParents` looks at the siblings.
* `OrdersImplementRequests` (`ImplementsRequests`): every step of `Procurement` is a
  step of `AssetRequests` or leaves `requests` alone. Releasing units needs to know that
  they are not groups: `LinkInv` says that only units carry live links.
  `OrdersKeepGroupsConsistent` then takes `GroupInv` over.
* `BooksHold`: `BookInv` is the type invariant with what the books rely on: unused keys
  are blank, lines and forms belong to orders, a line that received something belongs to
  a partial or received order, and a line editor that is still open read its line before
  anything arrived. From it, with unlocked edits and deletions by hand:
  `ProcurementTypes`, `DeliveriesSurvive` (`NothingReceivedIsLost`), `CreditStays`
  (`AttributionIsKept`), `ApprovedWhenServed` (`ApprovalNeedsDelivery`).
* `NothingIsBookedTwice` (`BooksOnce`) and `LedgerBalances` (`LinkLedger`) assume
  `Editors = {}`: an unlocked editor writes back the ordered quantity it has read, and
  the properties are then not true (section 3). `BookedIsPast` is the reason why a form
  books once: a form that has booked a line expects less than is recorded by now, so its
  snapshot no longer fits. For the ledger, a receipt is given out to the links in their
  order, each served what the ones ahead of it leave over; `ServedInOrder` says that
  this never gives out more than arrived.
* `UnitsHaveSupply` (`UnitHasSupply`) assumes `Deleters = {}`, since deleting a line by
  hand strands its requests (section 6). `SupplyInv`: a live link is on a live line of an
  order that stands, a request has at most one, and a unit in procurement has one with
  something outstanding.
* Sums. They are `SumFunctionOnSet` of the community modules, a function
  defined by recursion over the subsets of a set. That it is what it should be is
  proved by a smallest counterexample (`SmallestSubset`, from the well-foundedness of
  strict inclusion) instead of an induction rule: existence and uniqueness first, then
  independence of the order (`SumRemove`), comparison, addition and restriction. The
  proofs about stock carry the part of these lemmas they use.

### Custody (`AssetCustodyProofs`)

* `CustodyTyped`, `DisposedStaysFree` (`DisposedNotHeld`), `RepairsHaveOneLoaner`
  (`OneLoanPerRepair`) and `LateCheckinIsHarmless` (`LateCheckinSparesNewHolder`) for any
  number of concurrent clerks and technicians, from
  `CustodyInv == CustodyTypeOK /\ TasksKnow /\ DisposedNotHeld /\ OneLoanPerRepair`.
  `TasksKnow` records what an operation under way may rely on in spite of the missing
  lock (a loan task is for an asset other than the unit; a return task is for the unit
  of its repair).
* `LockedCustodyConsistent` assumes `Clerks = {}` and shows the documented consistency of
  status and assignment: with `custody_split_state`, which refutes it for one clerk, it
  says that the lock is exactly what is missing.

### Scheduled reports (`ScheduledReportsProofs`)

* `ReportTypes`, `RunsOnce` (`FiredOnce`), `BoundToNewest` (`NewestRunIsBound`),
  `SuccessIsTrue` (`SuccessIsDelivered`), `OneLateSend` (`OverlapIsOneSend`), for any
  number of runs, retries and channels. `ReportInv` adds that stamps of runs differ;
  `RunKnows`: the ledger in memory, and from the end of the run the one of the archive,
  calls every target failed that has not got the report (`Covers`), and a run is bound
  only after it has written the summary; `RetryKnows`: a retry works on a run that is
  done, with a ledger that covers the same way although it may be stale, and counts a
  late send only after it lost the claim, so that the next renewal stops it.

### License seats (`LicenseSeatsProofs`)

* `SeatTypes` (`SeatTypeOK`), `SeatsFit` (`CheckedSeatsFit`), `OnlyKitsDeadlock`
  (`DeadlockNeedsTwoKits`). `SeatInv` adds `Reserved`: a license that a request has
  locked and checked has a free place until the commit, whatever the writers
  without a lock do, because they never add a checked seat or change the number of seats.
  Circular waits of any length: one that waits and is waited for owns a license and
  wants another, which only a kit checkout does, and it waits for another one of them.

### Receipts (`CustodyReceiptsProofs`)

* `ReceiptTypes`, `EndedIsClosed` (`EndedPeriodIsClosed`), `SessionsTellTheSame`
  (`SessionsAgree`), `MailIsLimited` (`MailWithinLimits`), `OnlyMailingDeadlocks`
  (`DeadlockNeedsMailing`, circles of any length), `EvidenceStays` (`EvidenceIsFinal`).
  `RequestsKnow` ties each step of a request to the rows it has locked and to what these
  rows said when it had them; `Respects` is the rely side: a step of one request changes
  no row that another one has locked and nothing that is decided. The mail limit
  survives concurrent counting because a count is taken under the lock of the receipt
  and the row is inserted before the lock is released.

### Audits (`AuditSessionsProofs`)

* `AuditTypes`, `ReportIsJust` (`MissingWasNotObserved`), `NoDeadlock` (`NoCircularWait`),
  `CompletedStays` (`CompletedIsFrozen`), `NothingObservedLate` (`NoLateObservation`).
  `AuditInv` says that a request past the lock of its session finds it as it was when it
  was locked, that only live sessions are completed, and that assets are locked in
  ascending order, which is what excludes a circular wait.

### Inventory stock (`InventoryStockProofs`)

* `StockInvariant`, and from it `StockIsTyped` (`StockTypeOK`: without over-allocation no
  pool falls below zero) and `ArchivedItemHasNothingOut` (`ArchivedNothingOut`), for any
  number of locations, pools, requests and workers. `StockInv` ties every request to
  what its locks have shown it (`Knows`), lists the locks it holds (`LocksOf`: only live
  pools, a single one unless the request archives the item, and the item only while it
  is not archived), and says that no two checkouts have the same number. `Respects` is what a
  step leaves to the other requests. An archive finds nothing out under the lock of the
  item, and every checkout holds that lock until it saves.
* `ShelvesAlwaysAddUp` (`ShelvesAddUp`) on top of `StockInv`: every step writes one pool
  row (`AdjustsOneRow`, although `_update_stock` selects by location) or only states, so
  that two sums that differ at one point (`SumOneChanges`) tell what changes, and the
  assignment gives up what the row gains. Returns are not counted twice because an
  assignment is open as long as a request past its lock holds it.
* `PromisesStayCovered` (`PromisesCovered`) needs `Covered`: what a checkout or an update
  has compared with the availability still holds when it saves. Others may only add to
  it meanwhile, since whoever takes units and looks at the item holds the item.

## 5. Only model-checked

* Liveness (`EventuallySettled`) is outside the prover.
* `HeldMeansDeployed` with clerks and the definitions of section 6 are refuted, not
  proved.

## 6. Disagreements between code and documentation

`custody_split_state` shows a behaviour of the code that the documentation excludes: an
unlocked check-in overwrites the status written by a concurrent checkout.
`PROJECT.json` quotes the sentences.

Behaviours of the models that a sentence of the documentation excludes and that are not
kept as runs (the ones with a name are stated as definitions of the modules, and TLC
refutes them when they are added to a configuration):

* webhooks: a worker dies during a retry and the endpoint is deleted: the broker's copy
  of the package is rejected, the coordinator does not select the row (`next_retry_at`
  is NULL, `webhooks.py:1100`), and it is never settled; the docstring at
  `webhooks.py:1090` promises to requeue rows stranded after an expired claim. With
  `Detachable = {1}`, `EventuallySettled` is refuted;
* requests, `PendingCanBeCancelled`: a pending group with a denied unit cannot be
  cancelled (`request_views.py:409`; `docs/usage/asset-requests-and-reservations.md:95`);
* orders, `SubmissionIsItsOwn`: step 2 of a receive form books what another tab typed
  (`procurement/views.py:469`; `docs/usage/contracts-and-purchase-orders.md:291`);
* reports, `RecordedSuccessNotRepeated`: the ledger is read before the claim is taken,
  so a retry repeats what another retry has just delivered and recorded, against the
  docstring at `reports.py:1280`;
* seats, `NeverOverfilled`: two quick-add forms take the last seat (`licenses/forms.py:217`),
  and a seat restored from the recycle bin is not compared with the capacity
  (`licenses/models.py:180`);
* audits, `EvidenceIsKept`: an observation of a completed session can be deleted through
  the REST API, although `compliance/models.py:479` refuses to delete the session as
  evidence;
* stock: a return after the pool of its location was deleted credits the deleted row,
  so the units stay invisible (`docs/models/inventory/accessoryassignment.md:20` promises
  that the quantity is restored); an archive counts blockers before it has the pools, so
  a concurrent receipt or plus button leaves an archived pool with units (the docstring
  of `item_archive_services.py` refuses that); the comment at `inventory/services.py:162`
  says that availability spans the pools of the active tenant, but the managers it uses
  carry no tenant scope.

Behaviours of the models that deserve a look and are not stated as runs:

* webhooks: a duplicate of an earlier package sends a failed row again under the same
  attempt number (`webhooks.py:450`); a delivery whose retry is being sent can be
  redelivered, because the guard looks at the claims of pending rows only
  (`webhooks.py:1162`);
* requests: cancelling its last waiting units one by one leaves a group in procurement
  (`request_views.py:399` does not look at the parent);
* orders: deleting a line strands the requests it was to supply (`views.py:215`); the
  line of a request that was cancelled first survives the cancellation of its order
  (`services.py:599`); step 2 without its session entry makes an order partial although
  nothing arrived (`views.py:382`); a request that has an asset already can be linked and
  then waits for an order that was fully received (`services.py:327`);
* custody: an unlocked write may take a disposed asset out of archived
  (`asset.py:440`); a loaner may go to somebody who no longer holds the failed unit
  (`services/__init__.py:468`); completing a repair takes the unit from whoever got it
  meanwhile (`services/__init__.py:551`); check-in updates the assignment and then the
  asset while disposal locks them the other way round (`services/__init__.py:333`);
* reports: a run that dies between its summary and its ledger leaves an empty ledger,
  one that dies after claiming its firing loses it; a retry that completes with a stale
  `last_status` in memory leaves the summary behind the ledger;
* receipts: a signing session prepared while a check-in is under way stays open on a
  superseded receipt, where it can no longer be used; a hand-off mail booked before the
  receipt was closed is sent after it;
* audits: an asset seen after the close of a session can still be flagged as missing
  from its report; a scan records a place that was read before the lock; `Start` does
  not touch `updated_at`, so a stale REST update puts an active session back to planned;
* stock: a live and a deleted pool at the same location make `get_or_create` fail on two
  rows, and checkouts and returns there fail until one is purged; the edit form writes
  the quantity it has loaded over concurrent checkouts and brings a row back that was
  deleted meanwhile; a receipt makes a live pool under an archived item, whose restore
  then fails on the unique constraint; the minus button does not look at the promised
  units; a bulk checkout locks items in the order of the form.

Besides, the state diagram in `docs/usage/contracts-and-purchase-orders.md` shows
`Partial --> Cancelled`, which `_PURCHASE_ORDER_TRANSITIONS` does not contain;
`NothingReceivedIsLost` depends on that refusal.

## 7. Plan

Done: webhook delivery, requests, purchase orders, custody, scheduled reports, license
seats, custody receipts, audit sessions and inventory stock with their runs; proofs of
every safety property of the runs. In this order next:

1. `Reservations`: windows, overlap, and the refusal of checkouts; kits as a composition
   of stock, seats and custody in one transaction.
2. Offboarding as a composition of the returns; alerts; archiving of locations.

## 8. Not modelled, and why

* Authorization (roles, grants, tenants) decides whether an operation runs. The models
  take every operation as permitted, which includes every more restrictive case; that
  the decision itself is right is not checked.
* The generic REST update of a request's status column or of an order line, soft
  deletion of requests and of asset rows, prices, contracts, attachments.
* Alerts, subscriptions, the software catalogue, identity provisioning, offboarding,
  tag sequences, CSV import, specifications and custom fields, change log, search,
  GraphQL and the user interface: conversion and presentation, or state that none of
  the modelled components reads. `PROJECT.json` gives the reason for each.
* Deadlocks between row locks in `AssetCustody`: PostgreSQL rolls one transaction back;
  that module has the rollback (`Abandon`) and not the wait. The later modules have both.
* The cancellation of open requests by the archive of the item they name; archiving a
  location with its pools, the resolution of grants for a checkout from
  another tenant's pool, the registration of schedules with django-q, and pruning of
  report archives.
