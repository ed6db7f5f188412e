------------------------- MODULE AssetCustodyProofs -------------------------
(***************************************************************************)
(* Proofs about AssetCustody: its state is well typed, a disposed asset is *)
(* in nobody's hands whatever unlocked check-ins and edits write, a repair *)
(* has one loaner, a late check-in spares a new holder, and without        *)
(* unlocked operations an asset is deployed exactly while it is held.      *)
(***************************************************************************)
EXTENDS AssetCustody, TLAPS

(* What an operation under way knows about its asset and its repair. *)
TaskFacts(p) ==
    /\ tasks[p].kind # "none" => tasks[p].asset \in Assets
    /\ tasks[p].kind \in {"checkin", "edit"} => p \in Clerks
    /\ tasks[p].kind \in {"loan", "return"} => tasks[p].repair \in Repairs
    /\ tasks[p].kind = "loan" => /\ tasks[p].target \in Targets
                                 /\ tasks[p].asset # Unit[tasks[p].repair]
    /\ tasks[p].kind = "return" => tasks[p].asset = Unit[tasks[p].repair]
    /\ tasks[p].validated => tasks[p].kind # "none"

TasksKnow == \A p \in Users : TaskFacts(p)

CustodyInv == CustodyTypeOK /\ TasksKnow /\ DisposedNotHeld /\ OneLoanPerRepair

(* Issued and Returned make rows of rows. *)
LEMMA RowTypes ==
    ASSUME NEW row \in Asset
    PROVE  /\ \A target \in Targets, r \in Repairs \cup {NoRepair} : Issued(row, target, r) \in Asset
           /\ \A status \in Statuses : Returned(row, status) \in Asset
           /\ Disposed(row) \in Asset
<1>1. row.serial + 1 \in Nat /\ "deployed" \in Statuses
  BY DEF Asset, Statuses
<1>2. ASSUME NEW target \in Targets, NEW r \in Repairs \cup {NoRepair}
      PROVE  Issued(row, target, r) \in Asset
  BY <1>1 DEF Asset, Issued
<1>3. ASSUME NEW status \in Statuses
      PROVE  Returned(row, status) \in Asset
  BY DEF Asset, Returned
<1>4. Returned(row, "archived") \in Asset
  BY <1>3 DEF Statuses
<1>5. Disposed(row) \in Asset
  BY <1>4 DEF Disposed, Asset
<1> QED
  BY <1>2, <1>3, <1>5

(* A task that stops leaves the facts about the others as they are. *)
LEMMA TaskEnds ==
    ASSUME CustodyInv, NEW p \in Users, tasks' = [tasks EXCEPT ![p] = NoTask]
    PROVE  tasks' \in [Users -> Task] /\ TasksKnow'
BY DEF CustodyInv, CustodyTypeOK, TasksKnow, TaskFacts, NoTask, Task, Statuses

(* A task that starts with its facts keeps everybody's. *)
LEMMA TaskStarts ==
    ASSUME CustodyInv, NEW p \in Users, NEW t \in Task, tasks' = [tasks EXCEPT ![p] = t],
           TaskFacts(p)'
    PROVE  tasks' \in [Users -> Task] /\ TasksKnow'
BY DEF CustodyInv, CustodyTypeOK, TasksKnow, TaskFacts

(* Steps that leave the assets alone. *)
LEMMA TaskSteps ==
    ASSUME CustodyInv, NEW p \in Users,
           \/ \E a \in Assets, status \in Statuses :
                ReadForCheckin(p, a, status) \/ ReadForEdit(p, a, status)
           \/ Validate(p)
           \/ Abandon(p)
           \/ \E r \in Repairs, loaner \in Assets : ReadHolder(p, r, loaner)
           \/ \E r \in Repairs : StartReturn(p, r)
    PROVE  CustodyInv' /\ UNCHANGED assets
<1> USE CustodyAssumption DEF CustodyInv
<1>0. UNCHANGED assets
  BY DEF ReadForCheckin, ReadForEdit, Validate, Abandon, ReadHolder, StartReturn
<1>1. assets' \in [Assets -> Asset] /\ DisposedNotHeld' /\ OneLoanPerRepair'
  BY <1>0 DEF CustodyTypeOK, DisposedNotHeld, OneLoanPerRepair, Held
<1>2. SUFFICES tasks' \in [Users -> Task] /\ TasksKnow'
  BY <1>0, <1>1 DEF CustodyTypeOK
<1>3. CASE \E a \in Assets, status \in Statuses :
              ReadForCheckin(p, a, status) \/ ReadForEdit(p, a, status)
  <2> PICK a \in Assets, status \in Statuses :
              ReadForCheckin(p, a, status) \/ ReadForEdit(p, a, status)
    BY <1>3
  <2>1. assets[a] \in Asset
    BY DEF CustodyTypeOK
  <2>2. ActiveSerial(a) \in Nat
    BY <2>1 DEF ActiveSerial, Asset
  <2> DEFINE c == [NoTask EXCEPT !.kind = "checkin", !.asset = a,
                                 !.serial = ActiveSerial(a), !.status = status]
             e == [NoTask EXCEPT !.kind = "edit", !.asset = a, !.status = status]
  <2>3. c \in Task /\ e \in Task
    BY <2>2 DEF NoTask, Task
  <2>4. p \in Clerks /\ (tasks' = [tasks EXCEPT ![p] = c] \/ tasks' = [tasks EXCEPT ![p] = e])
    BY DEF ReadForCheckin, ReadForEdit
  <2>5. tasks'[p] = c \/ tasks'[p] = e
    BY <2>4 DEF CustodyTypeOK
  <2>6. /\ tasks'[p].kind \in {"checkin", "edit"}
        /\ tasks'[p].asset = a
        /\ ~tasks'[p].validated
    BY <2>5 DEF NoTask
  <2>7. TaskFacts(p)'
    BY <2>4, <2>6 DEF TaskFacts
  <2> QED
    BY <2>3, <2>4, <2>7, TaskStarts
<1>4. CASE Validate(p)
  <2> DEFINE t == [tasks[p] EXCEPT !.validated = TRUE]
  <2>1. tasks[p] \in Task /\ tasks[p].kind # "none" /\ tasks' = [tasks EXCEPT ![p] = t]
    BY <1>4 DEF Validate, CustodyTypeOK
  <2>2. t \in Task
    BY <2>1 DEF Task
  <2>3. TaskFacts(p)'
    BY <2>1 DEF TaskFacts, TasksKnow, CustodyTypeOK, Task
  <2> QED
    BY <2>1, <2>2, <2>3, TaskStarts
<1>5. CASE Abandon(p)
  BY <1>5, TaskEnds DEF Abandon
<1>6. CASE \E r \in Repairs, loaner \in Assets : ReadHolder(p, r, loaner)
  <2> PICK r \in Repairs, loaner \in Assets : ReadHolder(p, r, loaner)
    BY <1>6
  <2> DEFINE t == [NoTask EXCEPT !.kind = "loan", !.asset = loaner, !.repair = r,
                                 !.target = assets[Unit[r]].holder]
  <2>1. t \in Task
    BY DEF ReadHolder, NoTask, Task, Statuses
  <2>2. tasks' = [tasks EXCEPT ![p] = t]
    BY DEF ReadHolder
  <2>3. tasks'[p] = t /\ assets[Unit[r]].holder \in Targets /\ loaner # Unit[r]
    BY <2>2 DEF CustodyTypeOK, ReadHolder
  <2>4. /\ t.kind = "loan" /\ t.asset = loaner /\ t.repair = r
        /\ t.target = assets[Unit[r]].holder
        /\ ~t.validated
    BY DEF NoTask
  <2>5. TaskFacts(p)'
    BY <2>3, <2>4 DEF TaskFacts
  <2> QED
    BY <2>1, <2>2, <2>5, TaskStarts
<1>7. CASE \E r \in Repairs : StartReturn(p, r)
  <2> PICK r \in Repairs : StartReturn(p, r)
    BY <1>7
  <2>0. ActiveSerial(Unit[r]) \in Nat
    BY DEF ActiveSerial, Asset, CustodyTypeOK
  <2> DEFINE t == [NoTask EXCEPT !.kind = "return", !.asset = Unit[r],
                        !.serial = ActiveSerial(Unit[r]), !.status = "deployable", !.repair = r]
  <2>1. t \in Task
    BY <2>0 DEF NoTask, Task, Statuses
  <2>2. tasks' = [tasks EXCEPT ![p] = t]
    BY DEF StartReturn
  <2>3. tasks'[p] = t
    BY <2>2 DEF CustodyTypeOK
  <2>4. t.kind = "return" /\ t.asset = Unit[r] /\ t.repair = r /\ ~t.validated
    BY DEF NoTask
  <2>5. TaskFacts(p)'
    BY <2>3, <2>4, CustodyAssumption DEF TaskFacts
  <2> QED
    BY <2>1, <2>2, <2>5, TaskStarts
<1> QED
  BY <1>3, <1>4, <1>5, <1>6, <1>7

(* The steps that change one row: it keeps its type, is not held when it is *)
(* disposed of, and carries a loan only while it is held, for a repair of   *)
(* another unit that had no loaner yet.                                     *)
RowFacts(a, row) ==
    /\ row \in Asset
    /\ row.disposed => row.holder = Nobody
    /\ row.loan # NoRepair => /\ row.holder # Nobody /\ Unit[row.loan] # a
                              /\ row.loan = assets[a].loan \/ ~LoanOpen(row.loan)

LEMMA OneRowChanges ==
    ASSUME CustodyInv, NEW a \in Assets, NEW row, RowFacts(a, row),
           assets' = [assets EXCEPT ![a] = row]
    PROVE  assets' \in [Assets -> Asset] /\ DisposedNotHeld' /\ OneLoanPerRepair'
<1> USE DEF CustodyInv, RowFacts
<1>1. assets' \in [Assets -> Asset]
  BY DEF CustodyTypeOK
<1>2. DisposedNotHeld'
  BY DEF CustodyTypeOK, DisposedNotHeld, Held
<1>3. OneLoanPerRepair'
  BY DEF CustodyTypeOK, OneLoanPerRepair, Held, LoanOpen
<1> QED
  BY <1>1, <1>2, <1>3

(* A row in the table has these facts. *)
LEMMA TableRows ==
    ASSUME CustodyInv, NEW a \in Assets
    PROVE  RowFacts(a, assets[a])
BY DEF CustodyInv, RowFacts, CustodyTypeOK, DisposedNotHeld, OneLoanPerRepair, Held

(* Checking in, disposing and changing the status of a row keep them, and   *)
(* so does handing out an issuable one.                                     *)
LEMMA RowsStaySound ==
    ASSUME CustodyInv, NEW a \in Assets, NEW row, RowFacts(a, row)
    PROVE  /\ \A status \in Statuses : /\ RowFacts(a, Returned(row, status))
                                       /\ RowFacts(a, [row EXCEPT !.status = status])
           /\ RowFacts(a, Disposed(row))
           /\ RowFacts(a, [row EXCEPT !.disposed = FALSE, !.status = "pending"])
           /\ Issuable(row) => \A target \in Targets :
                  /\ RowFacts(a, Issued(row, target, NoRepair))
                  /\ \A r \in Repairs : Unit[r] # a /\ ~LoanOpen(r)
                                            => RowFacts(a, Issued(row, target, r))
<1>0. row \in Asset
  BY DEF RowFacts
<1>1. ASSUME NEW status \in Statuses
      PROVE  RowFacts(a, Returned(row, status)) /\ RowFacts(a, [row EXCEPT !.status = status])
  <2>1. [row EXCEPT !.status = status] \in Asset
    BY <1>0 DEF Asset
  <2> QED
    BY <1>0, <2>1, RowTypes DEF RowFacts, Returned, Asset
<1>2. RowFacts(a, Disposed(row))
  <2>1. Disposed(row).holder = Nobody /\ Disposed(row).loan = NoRepair
    BY <1>0 DEF Disposed, Returned, Asset
  <2> QED
    BY <1>0, <2>1, RowTypes DEF RowFacts
<1>3. RowFacts(a, [row EXCEPT !.disposed = FALSE, !.status = "pending"])
  <2>1. [row EXCEPT !.disposed = FALSE, !.status = "pending"] \in Asset
    BY <1>0 DEF Asset, Statuses
  <2> QED
    BY <1>0, <2>1 DEF RowFacts, Asset
<1>4. ASSUME Issuable(row), NEW target \in Targets, NEW r \in Repairs \cup {NoRepair},
             r # NoRepair => Unit[r] # a /\ ~LoanOpen(r)
      PROVE  RowFacts(a, Issued(row, target, r))
  <2>1. Issued(row, target, r) \in Asset
    BY <1>0, RowTypes
  <2>2. ~Issued(row, target, r).disposed
    BY <1>0, <1>4 DEF Issuable, Issued, Asset
  <2>3. Issued(row, target, r).loan = r /\ Issued(row, target, r).holder = target
    BY <1>0 DEF Issued, Asset
  <2> QED
    BY <1>4, <2>1, <2>2, <2>3, CustodyAssumption DEF RowFacts
<1> QED
  BY <1>1, <1>2, <1>3, <1>4

(* Steps in which several rows change and no loan begins. *)
LEMMA LoansOnlyEnd ==
    ASSUME CustodyInv, assets' \in [Assets -> Asset],
           \A a \in Assets : /\ assets'[a].disposed => assets'[a].holder = Nobody
                             /\ assets'[a].loan # NoRepair => /\ assets'[a].holder # Nobody
                                                              /\ assets'[a].loan = assets[a].loan
    PROVE  DisposedNotHeld' /\ OneLoanPerRepair'
BY DEF CustodyInv, DisposedNotHeld, OneLoanPerRepair, Held

(* Steps on one asset that leave the operations under way alone. *)
LEMMA LockedSteps ==
    ASSUME CustodyInv, NEW a \in Assets,
           \/ \E target \in Targets : CheckoutAsset(a, target)
           \/ \E status \in Statuses : BulkCheckin(a, status) \/ EditAsset(a, status)
           \/ DisposeAsset(a)
           \/ CancelDisposal(a)
    PROVE  CustodyInv'
<1>0. assets[a] \in Asset /\ RowFacts(a, assets[a]) /\ tasks' = tasks
  BY TableRows DEF RowFacts, CheckoutAsset, BulkCheckin, EditAsset, DisposeAsset, CancelDisposal
<1>1. \E row : RowFacts(a, row) /\ assets' = [assets EXCEPT ![a] = row]
  <2>1. CASE \E target \in Targets : CheckoutAsset(a, target)
    BY <1>0, <2>1, RowsStaySound DEF CheckoutAsset
  <2>2. CASE \E status \in Statuses : BulkCheckin(a, status)
    BY <1>0, <2>2, RowsStaySound DEF BulkCheckin
  <2>3. CASE \E status \in Statuses : EditAsset(a, status)
    <3> PICK status \in Statuses : EditAsset(a, status)
      BY <2>3
    <3>1. assets' = [assets EXCEPT ![a] = [assets[a] EXCEPT !.status = status]]
      BY DEF EditAsset
    <3> QED
      BY <1>0, <3>1, RowsStaySound
  <2>4. CASE DisposeAsset(a)
    BY <1>0, <2>4, RowsStaySound DEF DisposeAsset
  <2>5. CASE CancelDisposal(a)
    <3>1. assets' = [assets EXCEPT ![a] =
                        [assets[a] EXCEPT !.disposed = FALSE, !.status = "pending"]]
      BY <2>5 DEF CancelDisposal, CustodyInv, CustodyTypeOK
    <3> QED
      BY <1>0, <3>1, RowsStaySound
  <2> QED
    BY <2>1, <2>2, <2>3, <2>4, <2>5
<1>2. assets' \in [Assets -> Asset] /\ DisposedNotHeld' /\ OneLoanPerRepair'
  BY <1>1, OneRowChanges
<1> QED
  BY <1>0, <1>2 DEF CustodyInv, CustodyTypeOK, TasksKnow, TaskFacts

(* The row an unlocked operation writes. *)
LEMMA WrittenRow ==
    ASSUME CustodyInv, NEW p \in Users, tasks[p].kind # "none"
    PROVE  /\ tasks[p].asset \in Assets
           /\ RowFacts(tasks[p].asset, Written(tasks[p]))
<1>1. tasks[p].asset \in Assets /\ tasks[p].status \in Statuses
  BY DEF CustodyInv, TasksKnow, TaskFacts, CustodyTypeOK, Task
<1> QED
  BY <1>1, TableRows, RowsStaySound DEF Written

LEMMA WriteStep ==
    ASSUME CustodyInv, NEW p \in Users, Write(p)
    PROVE  CustodyInv'
<1>1. assets' \in [Assets -> Asset] /\ DisposedNotHeld' /\ OneLoanPerRepair'
  BY WrittenRow, OneRowChanges DEF Write
<1>2. tasks' \in [Users -> Task] /\ TasksKnow'
  BY TaskEnds DEF Write
<1> QED
  BY <1>1, <1>2 DEF CustodyInv, CustodyTypeOK

LEMMA IssueLoanerStep ==
    ASSUME CustodyInv, NEW p \in Users, IssueLoaner(p)
    PROVE  CustodyInv'
<1>1. /\ tasks[p].asset \in Assets /\ tasks[p].target \in Targets /\ tasks[p].repair \in Repairs
      /\ Unit[tasks[p].repair] # tasks[p].asset /\ ~LoanOpen(tasks[p].repair)
      /\ Issuable(assets[tasks[p].asset])
      /\ assets' = [assets EXCEPT ![tasks[p].asset] =
                       Issued(assets[tasks[p].asset], tasks[p].target, tasks[p].repair)]
      /\ tasks' = [tasks EXCEPT ![p] = NoTask]
  BY DEF IssueLoaner, CustodyInv, TasksKnow, TaskFacts
<1>2. RowFacts(tasks[p].asset, Issued(assets[tasks[p].asset], tasks[p].target, tasks[p].repair))
  BY <1>1, TableRows, RowsStaySound
<1>3. assets' \in [Assets -> Asset] /\ DisposedNotHeld' /\ OneLoanPerRepair'
  BY <1>1, <1>2, OneRowChanges
<1> QED
  BY <1>1, <1>3, TaskEnds DEF CustodyInv, CustodyTypeOK

LEMMA FinishReturnStep ==
    ASSUME CustodyInv, NEW p \in Users, FinishReturn(p)
    PROVE  CustodyInv'
<1> DEFINE unit == tasks[p].asset
<1>1. PICK loaner \in Assets :
        /\ assets[loaner].loan = tasks[p].repair
        /\ assets' = [assets EXCEPT
                ![loaner] = Returned(assets[loaner], "deployable"),
                ![unit] = Issued(Written(tasks[p]), assets[loaner].holder, NoRepair)]
  BY DEF FinishReturn
<1>2. /\ tasks[p].repair \in Repairs /\ unit = Unit[tasks[p].repair] /\ unit \in Assets
      /\ Issuable(Written(tasks[p])) /\ tasks' = [tasks EXCEPT ![p] = NoTask]
      /\ RowFacts(unit, Written(tasks[p]))
  BY WrittenRow DEF FinishReturn, CustodyInv, TasksKnow, TaskFacts
<1>3. /\ loaner # unit /\ assets[loaner].holder \in Targets
      /\ assets \in [Assets -> Asset]
  BY <1>1, <1>2, CustodyAssumption
     DEF CustodyInv, OneLoanPerRepair, Held, CustodyTypeOK, Asset
<1>4. RowFacts(unit, Issued(Written(tasks[p]), assets[loaner].holder, NoRepair))
  BY <1>2, <1>3, RowsStaySound
<1>5. RowFacts(loaner, Returned(assets[loaner], "deployable"))
  BY TableRows, RowsStaySound DEF Statuses
<1>6. assets' \in [Assets -> Asset]
  BY <1>1, <1>3, <1>4, <1>5 DEF RowFacts
<1>7. ASSUME NEW a \in Assets
      PROVE  /\ assets'[a].disposed => assets'[a].holder = Nobody
             /\ assets'[a].loan # NoRepair => /\ assets'[a].holder # Nobody
                                              /\ assets'[a].loan = assets[a].loan
  <2>1. CASE a = unit
    <3>1. assets'[a] = Issued(Written(tasks[p]), assets[loaner].holder, NoRepair)
      BY <1>1, <1>2, <1>3, <2>1
    <3>2. assets'[a].loan = NoRepair
      BY <1>2, <3>1 DEF Issued, RowFacts, Asset
    <3> QED
      BY <1>4, <2>1, <3>1, <3>2 DEF RowFacts
  <2>2. CASE a = loaner
    <3>1. assets'[a] = Returned(assets[loaner], "deployable")
      BY <1>1, <1>3, <2>2
    <3>2. assets'[a].loan = NoRepair
      BY <1>3, <3>1 DEF Returned, Asset
    <3> QED
      BY <1>5, <2>2, <3>1, <3>2 DEF RowFacts
  <2>3. CASE a # unit /\ a # loaner
    BY <1>1, <1>3, <2>3, TableRows DEF RowFacts
  <2> QED
    BY <2>1, <2>2, <2>3
<1>8. DisposedNotHeld' /\ OneLoanPerRepair'
  BY <1>6, <1>7, LoansOnlyEnd
<1> QED
  BY <1>2, <1>6, <1>8, TaskEnds DEF CustodyInv, CustodyTypeOK

LEMMA ReplaceStep ==
    ASSUME CustodyInv, NEW r \in Repairs, ReplaceUnit(r)
    PROVE  CustodyInv'
<1>1. PICK loaner \in Assets, rows \in {assets, [assets EXCEPT ![Unit[r]] = Disposed(@)]} :
        /\ assets[loaner].loan = r
        /\ assets' = [rows EXCEPT ![loaner].loan = NoRepair]
  BY DEF ReplaceUnit
<1>2. Unit[r] \in Assets /\ Unit[r] # loaner /\ assets \in [Assets -> Asset] /\ tasks' = tasks
  BY <1>1, CustodyAssumption DEF CustodyInv, OneLoanPerRepair, CustodyTypeOK, ReplaceUnit
<1>3. RowFacts(Unit[r], Disposed(assets[Unit[r]])) /\ Disposed(assets[Unit[r]]).loan = NoRepair
  <2>1. Disposed(assets[Unit[r]]).loan = NoRepair
    BY <1>2 DEF Disposed, Returned, Asset
  <2> QED
    BY <1>2, <2>1, TableRows, RowsStaySound
<1>4. rows \in [Assets -> Asset]
  BY <1>1, <1>2, <1>3 DEF RowFacts
<1>5. \A a \in Assets : /\ RowFacts(a, rows[a])
                        /\ rows[a].loan # NoRepair => rows[a].loan = assets[a].loan
  BY <1>1, <1>2, <1>3, TableRows
<1>6. assets' \in [Assets -> Asset]
  BY <1>1, <1>4 DEF Asset
<1>7. ASSUME NEW a \in Assets
      PROVE  /\ assets'[a].disposed => assets'[a].holder = Nobody
             /\ assets'[a].loan # NoRepair => /\ assets'[a].holder # Nobody
                                              /\ assets'[a].loan = assets[a].loan
  BY <1>1, <1>4, <1>5 DEF RowFacts, Asset
<1>8. DisposedNotHeld' /\ OneLoanPerRepair'
  BY <1>6, <1>7, LoansOnlyEnd
<1> QED
  BY <1>2, <1>6, <1>8 DEF CustodyInv, CustodyTypeOK, TasksKnow, TaskFacts

(* The invariant holds in every reachable state. *)
LEMMA CustodyInvHolds == Spec => []CustodyInv
<1>1. Init => CustodyInv
  <2> SUFFICES ASSUME Init PROVE CustodyInv
    OBVIOUS
  <2>1. CustodyTypeOK
    <3> DEFINE New == [status : Statuses \ {"deployed"}, disposed : {FALSE},
                       holder : {Nobody}, loan : {NoRepair}, serial : {0}]
    <3>0. ASSUME NEW row \in New PROVE row \in Asset
      <4>0. row.disposed \in {FALSE}
        OBVIOUS
      <4>1. /\ row.status \in Statuses /\ row.holder = Nobody
            /\ row.loan = NoRepair /\ row.serial \in Nat
        OBVIOUS
      <4>2. row = [status |-> row.status, disposed |-> row.disposed, holder |-> row.holder,
                   loan |-> row.loan, serial |-> row.serial]
        OBVIOUS
      <4> QED
        BY <4>0, <4>1, <4>2 DEF Asset
    <3>1. assets \in [Assets -> Asset]
      <4>1. assets \in [Assets -> New]
        BY DEF Init
      <4> HIDE DEF New
      <4> QED
        BY <3>0, <4>1
    <3>2. NoTask \in Task
      BY DEF NoTask, Task, Statuses
    <3> QED
      BY <3>1, <3>2 DEF Init, CustodyTypeOK
  <2>2. TasksKnow
    BY DEF Init, TasksKnow, TaskFacts, NoTask
  <2>3. DisposedNotHeld /\ OneLoanPerRepair
    BY DEF Init, DisposedNotHeld, OneLoanPerRepair, Held
  <2> QED
    BY <2>1, <2>2, <2>3 DEF CustodyInv
<1>2. CustodyInv /\ [Next]_cvars => CustodyInv'
  <2> SUFFICES ASSUME CustodyInv, [Next]_cvars PROVE CustodyInv'
    OBVIOUS
  <2>1. CASE UNCHANGED cvars
    BY <2>1 DEF cvars, CustodyInv, CustodyTypeOK, TasksKnow, TaskFacts, DisposedNotHeld,
                OneLoanPerRepair, Held
  <2>2. CASE Next
    BY <2>2, TaskSteps, LockedSteps, WriteStep, IssueLoanerStep, FinishReturnStep, ReplaceStep
       DEF Next
  <2> QED
    BY <2>1, <2>2
<1> QED
  BY <1>1, <1>2, PTL DEF Spec

(* Every row and every operation under way has its type, through checkouts, *)
(* unlocked writes and repairs alike.                                       *)
THEOREM CustodyTyped == Spec => []CustodyTypeOK
<1>1. CustodyInv => CustodyTypeOK
  BY DEF CustodyInv
<1> QED
  BY <1>1, CustodyInvHolds, PTL

(* A disposed asset is in nobody's hands, with any number of unlocked       *)
(* check-ins and edits under way.                                           *)
THEOREM DisposedStaysFree == Spec => []DisposedNotHeld
<1>1. CustodyInv => DisposedNotHeld
  BY DEF CustodyInv
<1> QED
  BY <1>1, CustodyInvHolds, PTL

(* Issuing, returning and replacing leave a repair with at most one loaner. *)
THEOREM RepairsHaveOneLoaner == Spec => []OneLoanPerRepair
<1>1. CustodyInv => OneLoanPerRepair
  BY DEF CustodyInv
<1> QED
  BY <1>1, CustodyInvHolds, PTL

(* An asset is deployed exactly while it is held, as long as nobody checks  *)
(* in or edits a single asset without its lock: checkouts, bulk check-ins,  *)
(* REST edits, disposals and repairs, whose own unlocked check-in is        *)
(* followed by a locked checkout, keep the two in step.                     *)
THEOREM LockedCustodyConsistent ==
    ASSUME Clerks = {}
    PROVE  Spec => []HeldMeansDeployed
<1>1. Init => HeldMeansDeployed
  BY DEF Init, HeldMeansDeployed, Held
<1>2. CustodyInv /\ HeldMeansDeployed /\ [Next]_cvars => HeldMeansDeployed'
  <2> SUFFICES ASSUME CustodyInv, HeldMeansDeployed, [Next]_cvars PROVE HeldMeansDeployed'
    OBVIOUS
  <2> USE DEF HeldMeansDeployed, Held
  <2>0. assets \in [Assets -> Asset]
    BY DEF CustodyInv, CustodyTypeOK
  <2>1. CASE UNCHANGED assets
    BY <2>1
  <2>2. ASSUME NEW a \in Assets, NEW target \in Targets, CheckoutAsset(a, target)
        PROVE  HeldMeansDeployed'
    BY <2>0, <2>2, CustodyAssumption DEF CheckoutAsset, Issued, Asset
  <2>3. ASSUME NEW a \in Assets, NEW status \in Statuses, BulkCheckin(a, status)
        PROVE  HeldMeansDeployed'
    BY <2>0, <2>3 DEF BulkCheckin, Returned, Asset
  <2>4. ASSUME NEW a \in Assets, NEW status \in Statuses, EditAsset(a, status)
        PROVE  HeldMeansDeployed'
    BY <2>0, <2>4 DEF EditAsset, Valid, Asset
  <2>5. ASSUME NEW a \in Assets, DisposeAsset(a)
        PROVE  HeldMeansDeployed'
    BY <2>0, <2>5 DEF DisposeAsset, Disposed, Returned, Asset
  <2>6. ASSUME NEW a \in Assets, CancelDisposal(a)
        PROVE  HeldMeansDeployed'
    BY <2>0, <2>6 DEF CancelDisposal, Valid, Asset
  <2>7. ASSUME NEW p \in Users, Write(p)
        PROVE  FALSE
    BY <2>7 DEF Write, CustodyInv, TasksKnow, TaskFacts
  <2>8. ASSUME NEW p \in Users, IssueLoaner(p)
        PROVE  HeldMeansDeployed'
    <3>1. tasks[p].asset \in Assets /\ tasks[p].target \in Targets
      BY <2>8 DEF IssueLoaner, CustodyInv, TasksKnow, TaskFacts
    <3> QED
      BY <2>0, <2>8, <3>1, CustodyAssumption DEF IssueLoaner, Issued, Asset
  <2>9. ASSUME NEW p \in Users, FinishReturn(p)
        PROVE  HeldMeansDeployed'
    <3> DEFINE unit == tasks[p].asset
    <3>1. PICK loaner \in Assets :
            /\ assets[loaner].loan = tasks[p].repair
            /\ assets' = [assets EXCEPT
                    ![loaner] = Returned(assets[loaner], "deployable"),
                    ![unit] = Issued(Written(tasks[p]), assets[loaner].holder, NoRepair)]
      BY <2>9 DEF FinishReturn
    <3>2. unit \in Assets /\ Written(tasks[p]) \in Asset /\ tasks[p].repair \in Repairs
      BY <2>9, WrittenRow DEF FinishReturn, RowFacts, CustodyInv, TasksKnow, TaskFacts
    <3>3. assets[loaner].holder # Nobody
      BY <3>1, <3>2, CustodyAssumption DEF CustodyInv, OneLoanPerRepair
    <3>4. assets'[unit].status = "deployed" /\ assets'[unit].holder # Nobody
      BY <2>0, <3>1, <3>2, <3>3 DEF Issued, Asset
    <3>5. loaner # unit => /\ assets'[loaner].status = "deployable"
                           /\ assets'[loaner].holder = Nobody
      BY <2>0, <3>1, <3>2 DEF Returned, Asset
    <3>6. \A a \in Assets : a # unit /\ a # loaner => assets'[a] = assets[a]
      BY <2>0, <3>1
    <3> QED
      BY <3>4, <3>5, <3>6
  <2>10. ASSUME NEW r \in Repairs, ReplaceUnit(r)
         PROVE  HeldMeansDeployed'
    <3>1. PICK loaner \in Assets, rows \in {assets, [assets EXCEPT ![Unit[r]] = Disposed(@)]} :
            assets' = [rows EXCEPT ![loaner].loan = NoRepair]
      BY <2>10 DEF ReplaceUnit
    <3>2. Disposed(assets[Unit[r]]) \in Asset
      BY <2>0, RowTypes, CustodyAssumption
    <3>3. rows \in [Assets -> Asset]
      BY <2>0, <3>1, <3>2
    <3>4. \A a \in Assets : rows[a].holder # Nobody <=> rows[a].status = "deployed"
      <4>1. CASE rows = assets
        BY <2>0, <4>1
      <4>2. CASE rows = [assets EXCEPT ![Unit[r]] = Disposed(@)]
        <5>1. \A row \in Asset : Disposed(row).holder = Nobody /\ Disposed(row).status = "archived"
          BY DEF Disposed, Returned, Asset
        <5> QED
          BY <2>0, <4>2, <5>1, CustodyAssumption
      <4> QED
        BY <3>1, <4>1, <4>2
    <3>5. \A a \in Assets : /\ assets'[a].holder = rows[a].holder
                            /\ assets'[a].status = rows[a].status
      BY <3>1, <3>3 DEF Asset
    <3> QED
      BY <3>4, <3>5
  <2>11. CASE Next
    BY <2>1, <2>2, <2>3, <2>4, <2>5, <2>6, <2>7, <2>8, <2>9, <2>10, <2>11, TaskSteps DEF Next
  <2> QED
    BY <2>1, <2>11 DEF cvars
<1> QED
  BY <1>1, <1>2, CustodyInvHolds, PTL DEF Spec

(* A check-in that writes after the asset was handed over changes its      *)
(* status and leaves it with the new holder, for any number of concurrent  *)
(* clerks and technicians: of the assignment only the one that was read is *)
(* closed.                                                                 *)
THEOREM LateCheckinIsHarmless == Spec => LateCheckinSparesNewHolder
<1> DEFINE Spares == \A p \in Clerks :
              LET t == tasks[p] IN
              (t.kind = "checkin" /\ Write(p) /\ t.serial # assets[t.asset].serial)
                  => assets'[t.asset].holder = assets[t.asset].holder
<1>1. CustodyInv => Spares
  <2> SUFFICES ASSUME CustodyInv, NEW p \in Clerks, tasks[p].kind = "checkin", Write(p),
                      tasks[p].serial # assets[tasks[p].asset].serial
               PROVE  assets'[tasks[p].asset].holder = assets[tasks[p].asset].holder
    OBVIOUS
  <2> DEFINE a == tasks[p].asset
  <2>1. a \in Assets /\ assets \in [Assets -> Asset]
    BY DEF CustodyInv, CustodyTypeOK, TasksKnow, TaskFacts, Users
  <2>2. assets'[a] = [assets[a] EXCEPT !.status = tasks[p].status]
    BY <2>1 DEF Write, Written
  <2> QED
    BY <2>1, <2>2 DEF Asset
<1> QED
  BY <1>1, CustodyInvHolds, PTL DEF LateCheckinSparesNewHolder
=============================================================================
