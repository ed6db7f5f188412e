---------------------------- MODULE AssetCustody ----------------------------
(***************************************************************************)
(* Who holds which asset, in ITAMbox: checkout, check-in, status edits,    *)
(* disposal and the repair loans of assets/services/__init__.py, with the  *)
(* validation in assets/models/asset.py that every save goes through.      *)
(*                                                                         *)
(* checkout_asset, dispose_asset, cancel_asset_disposal, the bulk check-in *)
(* job and the REST edit lock the asset row before they read it: one step  *)
(* each.  The check-in of a single asset and the edit form take no lock:   *)
(* they read, validate against what is committed at that moment, and write *)
(* when the row lock is free, so other steps come in between.  Completing  *)
(* a repair locks the repair and the loan, but not the repaired unit.      *)
(*                                                                         *)
(* A status label is its type, and every asset has a base location.        *)
(***************************************************************************)
EXTENDS Naturals

CONSTANTS
    Assets,         \* live assets of one tenant
    Targets,        \* holders, locations and assets something is checked out to
    People,         \* the targets that are holders
    Nobody,         \* no active assignment
    Repairs,        \* maintenances of type repair
    NoRepair,       \* maintenance NULL
    Unit,           \* Unit[r]: the asset under repair
    Clerks,         \* who checks in or edits single assets, without a lock
    Technicians,    \* who issues loaners and completes repairs
    MaxIssues       \* bound: assignments of one asset

ASSUME CustodyAssumption ==
    /\ People \subseteq Targets
    /\ Nobody \notin Targets
    /\ NoRepair \notin Repairs
    /\ Unit \in [Repairs -> Assets]
    /\ Clerks \cap Technicians = {}
    /\ MaxIssues \in Nat

VARIABLES
    assets,     \* the Asset table, each row with its latest assignment
    tasks       \* operations that take more than one step

cvars == <<assets, tasks>>

Statuses == {"pending", "deployable", "deployed", "undeployable", "archived",
             "in_repair", "on_order"}

(* serial numbers the assignments of the asset; holder and loan belong to   *)
(* the latest one while it is active.  disposed: an uncancelled disposal.   *)
Asset == [status : Statuses, disposed : BOOLEAN, holder : Targets \cup {Nobody},
          loan : Repairs \cup {NoRepair}, serial : Nat]

(* An operation under way: what it has read and what it will write.  serial *)
(* is the assignment a check-in closes, 0 if it found none.                 *)
Task == [kind : {"none", "checkin", "edit", "return", "loan"}, validated : BOOLEAN,
         asset : Assets \cup {Nobody}, serial : Nat, status : Statuses,
         repair : Repairs \cup {NoRepair}, target : Targets \cup {Nobody}]

NoTask == [kind |-> "none", validated |-> FALSE, asset |-> Nobody, serial |-> 0,
           status |-> "pending", repair |-> NoRepair, target |-> Nobody]

Users == Clerks \cup Technicians

Held(a) == assets[a].holder # Nobody

-----------------------------------------------------------------------------
(* Validation: Asset.clean(), which runs before every save *)

AllowedTransitions(old) ==
    CASE old = "pending"      -> {"deployable", "undeployable", "archived", "on_order", "in_repair"}
      [] old = "deployable"   -> {"pending", "undeployable", "archived", "deployed", "in_repair"}
      [] old = "deployed"     -> {"deployable", "undeployable", "archived", "pending", "in_repair"}
      [] old = "undeployable" -> {"pending", "deployable", "archived", "in_repair"}
      [] old = "archived"     -> {"pending"}
      [] old = "in_repair"    -> {"deployable", "undeployable", "archived"}
      [] old = "on_order"     -> {"pending", "deployable", "archived"}

ValidTransition(row, new, managed) ==
    \/ row.status = new
    \/ /\ "deployed" \in {row.status, new} => managed
       /\ new \in AllowedTransitions(row.status)
       /\ row.status = "archived" => ~row.disposed

(* The committed row may get the status new; held: an active assignment is  *)
(* left, managed: a check-in takes the asset out of deployed.               *)
Valid(row, new, held, managed) ==
    /\ held <=> new = "deployed"
    /\ ValidTransition(row, new, managed)

IssuableByStatus(row) == row.status = "deployable" /\ row.holder = Nobody

Issuable(row) == /\ row.status = "deployable"
                 /\ row.holder = Nobody
                 /\ ~row.disposed

-----------------------------------------------------------------------------
(* Row locks of the operations under way *)

(* p's transaction has written, or locked, the assignment k of the asset a. *)
HoldsAssignment(p, a, k) ==
    \/ tasks[p].validated /\ tasks[p].asset = a /\ tasks[p].serial = k /\ k # 0
    \/ tasks[p].kind = "return" /\ assets[a].loan = tasks[p].repair /\ assets[a].serial = k

AssignmentFree(a, k) == \A p \in Users : ~HoldsAssignment(p, a, k)

ActiveFree(a) == Held(a) => AssignmentFree(a, assets[a].serial)

RepairFree(r) == \A p \in Users : ~(tasks[p].kind = "return" /\ tasks[p].repair = r)

-----------------------------------------------------------------------------
(* Rows *)

Issued(row, target, r) ==
    [row EXCEPT !.status = "deployed", !.holder = target, !.loan = r, !.serial = @ + 1]

ReturnedOnLoan(row, status) == [row EXCEPT !.status = status, !.holder = Nobody]

Returned(row, status) ==
    [row EXCEPT !.status = status, !.holder = Nobody, !.loan = NoRepair]

(* dispose_asset checks the asset in first. *)
Disposed(row) == [Returned(row, "archived") EXCEPT !.disposed = TRUE]

-----------------------------------------------------------------------------
(* Operations under the lock of the asset *)

Init ==
    /\ assets \in [Assets -> [status : Statuses \ {"deployed"}, disposed : {FALSE},
                              holder : {Nobody}, loan : {NoRepair}, serial : {0}]]
    /\ tasks = [p \in Users |-> NoTask]

CheckoutAsset(a, target) ==
    /\ Issuable(assets[a]) /\ assets[a].serial < MaxIssues
    /\ assets' = [assets EXCEPT ![a] = Issued(@, target, NoRepair)]
    /\ UNCHANGED tasks

(* The bulk job: one asset per transaction. *)
BulkCheckin(a, status) ==
    /\ ActiveFree(a)
    /\ status # "deployed" /\ Valid(assets[a], status, FALSE, assets[a].status = "deployed")
    /\ assets' = [assets EXCEPT ![a] = Returned(@, status)]
    /\ UNCHANGED tasks

(* PATCH, and the edit form when it also changes specifications. *)
EditAsset(a, status) ==
    /\ Valid(assets[a], status, Held(a), FALSE)
    /\ assets' = [assets EXCEPT ![a].status = status]
    /\ UNCHANGED tasks

Disposable(a) ==
    /\ ~assets[a].disposed
    /\ ActiveFree(a)
    /\ ~Held(a) => assets[a].status # "deployed"

DisposeAsset(a) ==
    /\ Disposable(a)
    /\ assets' = [assets EXCEPT ![a] = Disposed(@)]
    /\ UNCHANGED tasks

(* The record is cancelled before the status is validated. *)
CancelDisposal(a) ==
    /\ assets[a].disposed
    /\ Valid([assets[a] EXCEPT !.disposed = FALSE], "pending", Held(a), FALSE)
    /\ assets' = [assets EXCEPT ![a].disposed = FALSE, ![a].status = "pending"]
    /\ UNCHANGED tasks

-----------------------------------------------------------------------------
(* Check-in and edit of a single asset, without a lock *)

(* The active assignment a check-in reads. *)
ActiveSerial(a) == IF Held(a) THEN assets[a].serial ELSE 0

ReadForCheckin(p, a, status) ==
    /\ p \in Clerks /\ tasks[p].kind = "none" /\ status # "deployed"
    /\ tasks' = [tasks EXCEPT ![p] = [NoTask EXCEPT
                    !.kind = "checkin", !.asset = a, !.serial = ActiveSerial(a), !.status = status]]
    /\ UNCHANGED assets

ReadForEdit(p, a, status) ==
    /\ p \in Clerks /\ tasks[p].kind = "none"
    /\ tasks' = [tasks EXCEPT ![p] = [NoTask EXCEPT
                    !.kind = "edit", !.asset = a, !.status = status]]
    /\ UNCHANGED assets

(* The assignment is closed inside the open transaction, then the status is *)
(* validated against the committed rows.                                    *)
Validate(p) ==
    LET t == tasks[p]
        row == assets[t.asset]
        left == row.holder # Nobody /\ row.serial # t.serial
    IN  /\ t.kind \in {"checkin", "edit", "return"} /\ ~t.validated
        /\ t.serial # 0 => AssignmentFree(t.asset, t.serial)
        /\ Valid(row, t.status, left, t.kind # "edit" /\ row.status = "deployed")
        /\ tasks' = [tasks EXCEPT ![p].validated = TRUE]
        /\ UNCHANGED assets

WrittenToAnyAssignment(t) == Returned(assets[t.asset], t.status)

(* The row the task writes: only the assignment it has read is closed. *)
Written(t) ==
    IF t.serial # 0 /\ t.serial = assets[t.asset].serial
    THEN Returned(assets[t.asset], t.status)
    ELSE [assets[t.asset] EXCEPT !.status = t.status]

Write(p) ==
    /\ tasks[p].validated /\ tasks[p].kind \in {"checkin", "edit"}
    /\ assets' = [assets EXCEPT ![tasks[p].asset] = Written(tasks[p])]
    /\ tasks' = [tasks EXCEPT ![p] = NoTask]

(* Refused by a validation, chosen as the victim of a deadlock, or lost     *)
(* with its connection: the transaction is rolled back.                     *)
Abandon(p) ==
    /\ tasks[p].kind # "none"
    /\ tasks' = [tasks EXCEPT ![p] = NoTask]
    /\ UNCHANGED assets

-----------------------------------------------------------------------------
(* Repairs *)

(* issue_repair_loaner reads the holder of the failed unit first ...        *)
ReadHolder(p, r, loaner) ==
    /\ p \in Technicians /\ tasks[p].kind = "none"
    /\ loaner # Unit[r] /\ assets[Unit[r]].holder \in People
    /\ tasks' = [tasks EXCEPT ![p] = [NoTask EXCEPT
                    !.kind = "loan", !.asset = loaner, !.repair = r,
                    !.target = assets[Unit[r]].holder]]
    /\ UNCHANGED assets

LoanOpen(r) == \E a \in Assets : assets[a].loan = r

(* ... and checks the loaner out to that person under the repair's lock. *)
IssueLoaner(p) ==
    LET t == tasks[p]
    IN  /\ t.kind = "loan"
        /\ RepairFree(t.repair) /\ ~LoanOpen(t.repair)
        /\ Issuable(assets[t.asset]) /\ assets[t.asset].serial < MaxIssues
        /\ assets' = [assets EXCEPT ![t.asset] = Issued(@, t.target, t.repair)]
        /\ tasks' = [tasks EXCEPT ![p] = NoTask]

(* complete_repair, outcome "return": the repair and its loan are locked    *)
(* and the unit's assignment is read.                                       *)
StartReturn(p, r) ==
    /\ p \in Technicians /\ tasks[p].kind = "none"
    /\ RepairFree(r) /\ LoanOpen(r)
    /\ \A a \in Assets : assets[a].loan = r => ActiveFree(a)
    /\ tasks' = [tasks EXCEPT ![p] = [NoTask EXCEPT
                    !.kind = "return", !.asset = Unit[r], !.serial = ActiveSerial(Unit[r]),
                    !.status = "deployable", !.repair = r]]
    /\ UNCHANGED assets

(* The loaner is back, the unit is checked in from whoever has it and       *)
(* checked out to the borrower.                                             *)
FinishReturn(p) ==
    LET t == tasks[p]
        unit == Written(t)
    IN  /\ t.validated /\ t.kind = "return"
        /\ Issuable(unit) /\ unit.serial < MaxIssues
        /\ \E loaner \in Assets :
             /\ assets[loaner].loan = t.repair
             /\ assets' = [assets EXCEPT
                    ![loaner] = Returned(@, "deployable"),
                    ![t.asset] = Issued(unit, assets[loaner].holder, NoRepair)]
        /\ tasks' = [tasks EXCEPT ![p] = NoTask]

(* Outcome "replace": the loan becomes an ordinary assignment, and the unit *)
(* may be disposed of.                                                      *)
ReplaceUnit(r) ==
    /\ Technicians # {}
    /\ RepairFree(r)
    /\ \E loaner \in Assets, rows \in {assets, [assets EXCEPT ![Unit[r]] = Disposed(@)]} :
         /\ assets[loaner].loan = r /\ ActiveFree(loaner)
         /\ rows = assets \/ Disposable(Unit[r])
         /\ assets' = [rows EXCEPT ![loaner].loan = NoRepair]
    /\ UNCHANGED tasks

-----------------------------------------------------------------------------
Next ==
    \/ \E a \in Assets, target \in Targets : CheckoutAsset(a, target)
    \/ \E a \in Assets, status \in Statuses : BulkCheckin(a, status) \/ EditAsset(a, status)
    \/ \E a \in Assets : DisposeAsset(a) \/ CancelDisposal(a)
    \/ \E p \in Users, a \in Assets, status \in Statuses :
         ReadForCheckin(p, a, status) \/ ReadForEdit(p, a, status)
    \/ \E p \in Users : Validate(p) \/ Write(p) \/ Abandon(p)
    \/ \E p \in Users, r \in Repairs, loaner \in Assets : ReadHolder(p, r, loaner)
    \/ \E p \in Users, r \in Repairs : StartReturn(p, r)
    \/ \E p \in Users : IssueLoaner(p) \/ FinishReturn(p)
    \/ \E r \in Repairs : ReplaceUnit(r)

Spec == Init /\ [][Next]_cvars

-----------------------------------------------------------------------------
(* Properties *)

(* Every row and every operation under way has its type. *)
CustodyTypeOK == assets \in [Assets -> Asset] /\ tasks \in [Users -> Task]

(* A disposed asset is in nobody's hands, although unlocked check-ins and   *)
(* edits may write an old status over the archived one: checkout_asset      *)
(* looks for the disposal record itself, under the lock.                    *)
DisposedNotHeld == \A a \in Assets : assets[a].disposed => ~Held(a)

(* A repair has at most one open loaner, and it is never the unit itself    *)
(* (_lock_repair_maintenance, unique_open_loan_per_maintenance).            *)
OneLoanPerRepair ==
    \A a, b \in Assets : /\ assets[a].loan # NoRepair /\ assets[a].loan = assets[b].loan => a = b
                         /\ assets[a].loan # NoRepair => Held(a) /\ Unit[assets[a].loan] # a

(* "ITAMbox enforces database-level constraints preventing split-state      *)
(* anomalies": an asset is deployed exactly while somebody holds it.  This  *)
(* is true when every check-in and edit takes the lock of the asset.        *)
HeldMeansDeployed == \A a \in Assets : Held(a) <=> assets[a].status = "deployed"

(* A check-in that comes late closes the assignment it has read and no      *)
(* other: an asset that was handed over meanwhile stays with its holder.    *)
LateCheckinSparesNewHolder ==
    [][\A p \in Clerks :
         LET t == tasks[p] IN
         (t.kind = "checkin" /\ Write(p) /\ t.serial # assets[t.asset].serial)
             => assets'[t.asset].holder = assets[t.asset].holder]_cvars
=============================================================================
