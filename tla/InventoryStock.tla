--------------------------- MODULE InventoryStock ---------------------------
(***************************************************************************)
(* The stock of one inventory item (an accessory, a consumable or a        *)
(* component): pool rows per location, assignments that draw on a pool or  *)
(* on the item alone, and everybody who changes them.  A checkout locks    *)
(* the item and then the pool, a return the assignment and then the pool,  *)
(* an update the assignment and then the item; a receipt and the plus and  *)
(* minus buttons lock the pool, the edit form locks nothing.  Pools are    *)
(* soft-deleted, restored and purged on their own, and archived with the   *)
(* item.                                                                   *)
(*                                                                         *)
(* Transactions run on PostgreSQL under READ COMMITTED.  Tenants, grants   *)
(* and permissions decide who is refused before anything is written, with  *)
(* one exception that is kept: a checkout under a grant is not compared    *)
(* with the availability of the item.                                      *)
(***************************************************************************)
EXTENDS Integers, FiniteSets, Functions

CONSTANTS
    Locations,
    NoLocation,   \* an assignment that draws on the item alone
    Workers,      \* web workers, each with one request at a time
    Nobody,
    Overallocate, \* allow_overallocate of the item
    MaxRequests,  \* bound: requests of the workers
    MaxRows,      \* bound: pool rows
    MaxQty,       \* bound: quantity of a request
    MaxEdits      \* bound: single steps on pools and on the archived item

ASSUME StockConstants ==
    /\ IsFiniteSet(Locations) /\ NoLocation \notin Locations
    /\ Nobody \notin Workers
    /\ Overallocate \in BOOLEAN
    /\ MaxRequests \in Nat /\ MaxRows \in Nat /\ MaxQty \in Nat /\ MaxEdits \in Nat

VARIABLES
    archived,   \* the item is archived
    pool,       \* stock rows, in the order of their keys
    out,        \* assignments, named by the request that makes them
    lock,       \* the transaction that holds each row
    tx,         \* what each request is doing
    served,     \* requests so far
    edits,      \* single steps so far
    brought,    \* history: units brought to each location, less those written off
    edited,     \* history: locations whose pool was overwritten by the edit form
    bypassed    \* history: something was taken without looking at the availability

vars == <<archived, pool, out, lock, tx, served, edits, brought, edited, bypassed>>

Rows == 1 .. MaxRows
Requests == 1 .. MaxRequests
Quantities == 1 .. MaxQty
Sources == Locations \cup {NoLocation}

Item == <<"item", 0>>
Pool(r) == <<"pool", r>>
Assignment(a) == <<"assignment", a>>
Lockable == {Item} \cup {Pool(r) : r \in Rows} \cup {Assignment(a) : a \in Requests}

Operations == {"checkout", "return", "update", "receive", "archive", "edit"}
Steps == {"assignment", "item", "pool", "check", "save", "list", "stock"}

Request == [op : Operations, step : Steps, at : Sources, qty : 0 .. MaxQty,
            n : 0 .. MaxRequests, granted : BOOLEAN, row : 0 .. MaxRows,
            todo : SUBSET Rows]

Idle == [op |-> "idle"]

(* Without over-allocation no pool falls below zero. *)
StockTypeOK ==
    /\ archived \in BOOLEAN
    /\ pool \in [Rows -> [state : {"none", "live", "deleted", "archived", "purged"},
                           at : Sources, qty : Int]]
    /\ ~Overallocate => \A r \in Rows : pool[r].qty >= 0
    /\ out \in [Requests -> [state : {"none", "open", "returned"},
                             from : Sources, qty : 0 .. MaxQty]]
    /\ lock \in [Lockable -> Workers \cup {Nobody}]
    /\ tx \in [Workers -> Request \cup {Idle}]
    /\ served \in 0 .. MaxRequests /\ edits \in 0 .. MaxEdits
    /\ brought \in [Locations -> Int]
    /\ edited \subseteq Locations /\ bypassed \in BOOLEAN

Init ==
    /\ archived = FALSE
    /\ pool = [r \in Rows |-> [state |-> "none", at |-> NoLocation, qty |-> 0]]
    /\ out = [a \in Requests |-> [state |-> "none", from |-> NoLocation, qty |-> 0]]
    /\ lock = [x \in Lockable |-> Nobody]
    /\ tx = [w \in Workers |-> Idle]
    /\ served = 0 /\ edits = 0
    /\ brought = [l \in Locations |-> 0]
    /\ edited = {} /\ bypassed = FALSE
-----------------------------------------------------------------------------
(* The rows of a location: all of them, and the one that is not deleted. *)
RowsAt(l) == {r \in Rows : /\ pool[r].state \in {"live", "deleted", "archived"}
                           /\ pool[r].at = l}
LiveAt(l) == {r \in RowsAt(l) : pool[r].state = "live"}
LiveRows == {r \in Rows : pool[r].state = "live"}

Open == {a \in Requests : out[a].state = "open"}
Shelved(S) == SumFunctionOnSet([r \in Rows |-> pool[r].qty], S)
Lent(S) == SumFunctionOnSet([a \in Requests |-> out[a].qty], S)

(* Assignments without a source are not deducted from any pool. *)
Available == Shelved(LiveRows) - Lent({a \in Open : out[a].from = NoLocation})

(* Row x can be locked by w. *)
FreeFor(w, x) == lock[x] \in {w, Nobody}

(* Commit or rollback: the locks of w are gone and its request is answered. *)
End(w) ==
    /\ lock' = [x \in Lockable |-> IF lock[x] = w THEN Nobody ELSE lock[x]]
    /\ tx' = [tx EXCEPT ![w] = Idle]

Refuse(w) ==
    /\ End(w)
    /\ UNCHANGED <<archived, pool, out, served, edits, brought, edited, bypassed>>

Goto(w, step) == tx' = [tx EXCEPT ![w].step = step]

LockAndGoto(w, x, step) ==
    /\ FreeFor(w, x)
    /\ lock' = [lock EXCEPT ![x] = w]
    /\ Goto(w, step)

Serve(w, request) ==
    /\ tx[w] = Idle
    /\ served < MaxRequests
    /\ served' = served + 1
    /\ tx' = [tx EXCEPT ![w] = request]
    /\ UNCHANGED <<archived, pool, out, lock, edits, brought, edited, bypassed>>

Asks(op, step, at, qty, n) ==
    [op |-> op, step |-> step, at |-> at, qty |-> qty, n |-> n,
     granted |-> FALSE, row |-> 0, todo |-> {}]

Doing(w, op, step) == tx[w] # Idle /\ tx[w].op = op /\ tx[w].step = step
-----------------------------------------------------------------------------
(* checkout_inventory_item from a location or from none, and                *)
(* create_component_allocation, which has no source.                        *)
CheckoutBegin(w, l, q, granted) ==
    /\ granted => l # NoLocation
    /\ Serve(w, [Asks("checkout", "item", l, q, served + 1)
                    EXCEPT !.granted = granted])

ReturnBegin(w, a) ==
    /\ out[a].state = "open"
    /\ Serve(w, Asks("return", "assignment", out[a].from, out[a].qty, a))

(* update_component_allocation changes the quantity and nothing else. *)
UpdateBegin(w, a, q) ==
    /\ out[a].state = "open"
    /\ Serve(w, Asks("update", "assignment", out[a].from, q, a))

(* receive_purchase_order, for a line of this item *)
ReceiveBegin(w, l, q) == Serve(w, Asks("receive", "pool", l, q, 0))

ArchiveBegin(w) == ~archived /\ Serve(w, Asks("archive", "item", NoLocation, 0, 0))

(* The edit form loads the row without a lock. *)
EditBegin(w, r) ==
    /\ pool[r].state = "live"
    /\ Serve(w, [Asks("edit", "save", pool[r].at, 0, 0) EXCEPT !.row = r])
-----------------------------------------------------------------------------
StillOpenUnchecked(a) == TRUE

(* The live filter is evaluated again when the lock is granted. *)
StillOpen(a) == out[a].state = "open"

TakeAssignment(w) ==
    /\ tx[w] # Idle /\ tx[w].step = "assignment"
    /\ FreeFor(w, Assignment(tx[w].n))
    /\ IF ~StillOpen(tx[w].n) THEN Refuse(w)
       ELSE /\ LockAndGoto(w, Assignment(tx[w].n),
                    IF tx[w].op = "update" THEN "item"
                    ELSE IF tx[w].at = NoLocation THEN "save" ELSE "pool")
            /\ UNCHANGED <<archived, pool, out, served, edits, brought, edited,
                           bypassed>>

BlockersWithoutAssignments == \E r \in LiveRows : pool[r].qty > 0

(* What an archived item may not have.  Kit rows that list it block it too; *)
(* they come and go.                                                        *)
Blockers == Open # {} \/ \E r \in LiveRows : pool[r].qty > 0

(* Under its lock an archived item is refused; archiving looks for blockers *)
(* now, before it has any pool.                                             *)
TakeItem(w) ==
    /\ tx[w] # Idle /\ tx[w].step = "item"
    /\ FreeFor(w, Item)
    /\ IF archived \/ (tx[w].op = "archive" /\ Blockers) THEN Refuse(w)
       ELSE /\ LockAndGoto(w, Item,
                    IF tx[w].op = "archive" THEN "list"
                    ELSE IF tx[w].op = "update" \/ tx[w].at = NoLocation
                    THEN "check" ELSE "pool")
            /\ UNCHANGED <<archived, pool, out, served, edits, brought, edited,
                           bypassed>>

(* The live pool of the location is locked, if there is one. *)
TakePool(w) ==
    /\ tx[w] # Idle /\ tx[w].step = "pool"
    /\ tx[w].op = "receive" => LiveAt(tx[w].at) # {}
    /\ LET next == IF tx[w].op = "checkout" THEN "check" ELSE "save" IN
       IF LiveAt(tx[w].at) = {}
       THEN Goto(w, next) /\ UNCHANGED lock
       ELSE \E r \in LiveAt(tx[w].at) : LockAndGoto(w, Pool(r), next)
    /\ UNCHANGED <<archived, pool, out, served, edits, brought, edited, bypassed>>

(* The pool that is locked, or nothing. *)
Selected(w) == Shelved({r \in LiveAt(tx[w].at) : lock[Pool(r)] = w})

EnoughOnTheShelf(w) ==
    \/ Overallocate
    \/ tx[w].op = "update"
    \/ /\ tx[w].op = "checkout"
       /\ tx[w].at # NoLocation => Selected(w) >= tx[w].qty

Enough(w) ==
    \/ Overallocate
    \/ tx[w].op = "update" /\ Available >= tx[w].qty - out[tx[w].n].qty
    \/ tx[w].op = "update" /\ tx[w].qty <= out[tx[w].n].qty
    \/ /\ tx[w].op = "checkout"
       /\ tx[w].granted \/ Available >= tx[w].qty
       /\ tx[w].at # NoLocation => Selected(w) >= tx[w].qty

Check(w) ==
    /\ tx[w] # Idle /\ tx[w].step = "check"
    /\ IF Enough(w)
       THEN /\ Goto(w, "save")
            /\ UNCHANGED <<archived, pool, out, lock, served, edits, brought,
                           edited, bypassed>>
       ELSE Refuse(w)
-----------------------------------------------------------------------------
Unused == {r \in Rows : pool[r].state = "none"}

NewPool(l, q) ==
    \E r \in Unused :
        /\ \A s \in Unused : r <= s
        /\ pool' = [pool EXCEPT ![r] = [state |-> "live", at |-> l, qty |-> q]]

AdjustableUnlessClashing(l, diff) == Cardinality(RowsAt(l)) <= 1

(* _update_stock: get_or_create over all rows of the location, deleted ones *)
(* included.  It fails on more than one row and on too little stock.        *)
Adjustable(l, diff) ==
    /\ Cardinality(RowsAt(l)) <= 1
    /\ diff < 0 /\ ~Overallocate => Shelved(RowsAt(l)) + diff >= 0

Adjusted(w, l, diff) ==
    IF RowsAt(l) = {} THEN FreeFor(w, Item) /\ NewPool(l, diff)
    ELSE pool' = [r \in Rows |-> IF r \in RowsAt(l)
                                 THEN [pool[r] EXCEPT !.qty = @ + diff] ELSE pool[r]]

(* The assignment and its pool are saved together, or not at all. *)
SaveWith(w, diff, row, bypass) ==
    LET l == tx[w].at IN
    /\ l # NoLocation => \A r \in RowsAt(l) : FreeFor(w, Pool(r))
    /\ IF l # NoLocation /\ ~Adjustable(l, diff) THEN Refuse(w)
       ELSE /\ IF l = NoLocation THEN UNCHANGED pool ELSE Adjusted(w, l, diff)
            /\ out' = [out EXCEPT ![tx[w].n] = row]
            /\ bypassed' = (bypassed \/ bypass)
            /\ End(w)
            /\ UNCHANGED <<archived, served, edits, brought, edited>>

CheckoutSave(w) ==
    /\ Doing(w, "checkout", "save")
    /\ SaveWith(w, -tx[w].qty,
                [state |-> "open", from |-> tx[w].at, qty |-> tx[w].qty],
                tx[w].granted)

ReturnSave(w) ==
    /\ Doing(w, "return", "save")
    /\ SaveWith(w, out[tx[w].n].qty, [out[tx[w].n] EXCEPT !.state = "returned"], FALSE)

(* The old quantity is put back and the new one deducted. *)
UpdateSave(w) ==
    /\ Doing(w, "update", "save")
    /\ SaveWith(w, out[tx[w].n].qty - tx[w].qty,
                [out[tx[w].n] EXCEPT !.qty = tx[w].qty], FALSE)
-----------------------------------------------------------------------------
(* A receipt makes the pool if there is none, *)
ReceiveNew(w) ==
    /\ Doing(w, "receive", "pool")
    /\ LiveAt(tx[w].at) = {}
    /\ FreeFor(w, Item)
    /\ NewPool(tx[w].at, tx[w].qty)
    /\ brought' = [brought EXCEPT ![tx[w].at] = @ + tx[w].qty]
    /\ End(w)
    /\ UNCHANGED <<archived, out, served, edits, edited, bypassed>>

(* or adds to the one it has locked. *)
ReceiveSave(w) ==
    /\ Doing(w, "receive", "save")
    /\ pool' = [r \in Rows |-> IF lock[Pool(r)] = w
                               THEN [pool[r] EXCEPT !.qty = @ + tx[w].qty] ELSE pool[r]]
    /\ brought' = [brought EXCEPT ![tx[w].at] = @ + tx[w].qty]
    /\ End(w)
    /\ UNCHANGED <<archived, out, served, edits, edited, bypassed>>

(* The edit form writes every column of the row it loaded, deleted_at too:  *)
(* a row that was deleted since comes back.                                 *)
EditSave(w) ==
    /\ Doing(w, "edit", "save")
    /\ LET r == tx[w].row IN
       /\ FreeFor(w, Pool(r))
       /\ \E l \in Locations, q \in 0 .. MaxQty :
             IF LiveAt(l) \ {r} # {} THEN Refuse(w)
             ELSE /\ pool' = [pool EXCEPT ![r] = [state |-> "live", at |-> l, qty |-> q]]
                  /\ edited' = edited \cup {l, pool[r].at}
                  /\ bypassed' = TRUE
                  /\ End(w)
                  /\ UNCHANGED <<archived, out, served, edits, brought>>
-----------------------------------------------------------------------------
(* _archive_item: the pools are listed, *)
ArchiveList(w) ==
    /\ Doing(w, "archive", "list")
    /\ tx' = [tx EXCEPT ![w].step = "stock", ![w].todo = LiveRows]
    /\ UNCHANGED <<archived, pool, out, lock, served, edits, brought, edited, bypassed>>

(* locked in the order of their keys unless they were deleted meanwhile,    *)
ArchiveStock(w) ==
    /\ Doing(w, "archive", "stock")
    /\ \E r \in tx[w].todo :
          /\ \A s \in tx[w].todo : r <= s
          /\ FreeFor(w, Pool(r))
          /\ lock' = IF r \in LiveRows THEN [lock EXCEPT ![Pool(r)] = w] ELSE lock
          /\ tx' = [tx EXCEPT ![w].todo = @ \ {r}]
    /\ UNCHANGED <<archived, pool, out, served, edits, brought, edited, bypassed>>

(* and archived with the item, whatever they hold by now.  Open requests    *)
(* for the item and its subscriptions end with it; they are not part of     *)
(* this module.                                                             *)
ArchiveCommit(w) ==
    /\ Doing(w, "archive", "stock")
    /\ tx[w].todo = {}
    /\ pool' = [r \in Rows |-> IF lock[Pool(r)] = w
                               THEN [pool[r] EXCEPT !.state = "archived"] ELSE pool[r]]
    /\ archived' = TRUE
    /\ End(w)
    /\ UNCHANGED <<out, served, edits, brought, edited, bypassed>>

Edits ==
    /\ edits < MaxEdits
    /\ edits' = edits + 1
    /\ UNCHANGED <<out, lock, tx, served, edited>>

(* _restore_item brings back the pools that were archived with the item. *)
RestoreItem ==
    LET back == {r \in Rows : pool[r].state = "archived"} IN
    /\ archived
    /\ lock[Item] = Nobody
    /\ \A r \in back : lock[Pool(r)] = Nobody /\ LiveAt(pool[r].at) = {}
    /\ archived' = FALSE
    /\ pool' = [r \in Rows |-> IF r \in back
                               THEN [pool[r] EXCEPT !.state = "live"] ELSE pool[r]]
    /\ Edits
    /\ UNCHANGED <<brought, bypassed>>

(* StockCreateModalView; one live row per location. *)
CreatePool(l, q) ==
    /\ LiveAt(l) = {}
    /\ lock[Item] = Nobody
    /\ NewPool(l, q)
    /\ brought' = [brought EXCEPT ![l] = @ + q]
    /\ Edits
    /\ UNCHANGED <<archived, bypassed>>

(* The plus and minus buttons of a pool. *)
AdjustPool(r, diff) ==
    /\ pool[r].state = "live"
    /\ lock[Pool(r)] = Nobody
    /\ diff < 0 => pool[r].qty > 0
    /\ pool' = [pool EXCEPT ![r].qty = @ + diff]
    /\ brought' = [brought EXCEPT ![pool[r].at] = @ + diff]
    /\ bypassed' = (bypassed \/ diff < 0)
    /\ Edits
    /\ UNCHANGED archived

(* A pool goes to the recycle bin whatever it holds, *)
DeletePool(r) ==
    /\ pool[r].state = "live"
    /\ lock[Pool(r)] = Nobody
    /\ pool' = [pool EXCEPT ![r].state = "deleted"]
    /\ bypassed' = TRUE
    /\ Edits
    /\ UNCHANGED <<archived, brought>>

(* comes back unless the location has a new one, *)
RestorePool(r) ==
    /\ pool[r].state \in {"deleted", "archived"}
    /\ lock[Pool(r)] = Nobody
    /\ LiveAt(pool[r].at) = {}
    /\ pool' = [pool EXCEPT ![r].state = "live"]
    /\ Edits
    /\ UNCHANGED <<archived, brought, bypassed>>

(* or is purged with what it holds. *)
PurgePool(r) ==
    /\ pool[r].state \in {"deleted", "archived"}
    /\ lock[Pool(r)] = Nobody
    /\ pool' = [pool EXCEPT ![r].state = "purged", ![r].qty = 0]
    /\ brought' = [brought EXCEPT ![pool[r].at] = @ - pool[r].qty]
    /\ Edits
    /\ UNCHANGED <<archived, bypassed>>

(* The connection is lost, or PostgreSQL ends a deadlock. *)
RollBack(w) == tx[w] # Idle /\ Refuse(w)
-----------------------------------------------------------------------------
Begin(w) ==
    \/ \E l \in Sources, q \in Quantities, granted \in BOOLEAN :
          CheckoutBegin(w, l, q, granted)
    \/ \E a \in Requests : ReturnBegin(w, a) \/ \E q \in Quantities : UpdateBegin(w, a, q)
    \/ \E l \in Locations, q \in Quantities : ReceiveBegin(w, l, q)
    \/ ArchiveBegin(w)
    \/ \E r \in Rows : EditBegin(w, r)

Proceed(w) ==
    \/ TakeAssignment(w) \/ TakeItem(w) \/ TakePool(w) \/ Check(w)
    \/ CheckoutSave(w) \/ ReturnSave(w) \/ UpdateSave(w)
    \/ ReceiveNew(w) \/ ReceiveSave(w) \/ EditSave(w)
    \/ ArchiveList(w) \/ ArchiveStock(w) \/ ArchiveCommit(w)

Next ==
    \/ \E w \in Workers : Begin(w) \/ Proceed(w) \/ RollBack(w)
    \/ RestoreItem
    \/ \E l \in Locations, q \in 0 .. MaxQty : CreatePool(l, q)
    \/ \E r \in Rows : \/ \E diff \in {-1, 1} : AdjustPool(r, diff)
                       \/ DeletePool(r) \/ RestorePool(r) \/ PurgePool(r)

Spec == Init /\ [][Next]_vars
-----------------------------------------------------------------------------
(* What is on the shelves of a location, in the bin or not, and what was    *)
(* lent from it adds up to what was brought there: no checkout, return,     *)
(* change of a quantity, receipt or adjustment is lost or counted twice,    *)
(* two returns of the same assignment included.  The edit form overwrites   *)
(* quantities and is exempt.                                                *)
ShelvesAddUp ==
    \A l \in Locations \ edited :
        Shelved(RowsAt(l)) + Lent({a \in Open : out[a].from = l}) = brought[l]

(* Units promised to assignments without a source are still on some shelf,  *)
(* however checkouts, allocations and updates interleave, as long as nobody *)
(* takes units without looking at the item: by hand, by deleting a pool, or *)
(* under a grant.                                                           *)
PromisesCovered == ~bypassed /\ ~Overallocate => Available >= 0

(* "REFUSE while a live assignment draws on the item": an archived item has *)
(* nothing out, although a checkout may have begun before it was archived.  *)
ArchivedNothingOut == archived => Open = {}
=============================================================================
