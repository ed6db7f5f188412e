------------------------ MODULE InventoryStockProofs ------------------------
(***************************************************************************)
(* Proofs about InventoryStock, for any number of locations, pools,        *)
(* requests and workers.                                                   *)
(*                                                                         *)
(* Part 1: what a request relies on at each of its steps and the locks it  *)
(* holds, kept by every step of the others (Respects) and its own.         *)
(*                                                                         *)
(* Part 2: StockInv is inductive.  No pool falls below zero without        *)
(* over-allocation, and an archived item has nothing out.                  *)
(*                                                                         *)
(* Part 3: the shelves add up to what was brought to them.                 *)
(*                                                                         *)
(* Part 4: what is promised without a source is on some shelf, because a   *)
(* checkout and an update hold the item between look and save.             *)
(***************************************************************************)
EXTENDS InventoryStock, FiniteSetTheorems, TLAPS

-----------------------------------------------------------------------------
(* Part 1: what requests rely on *)

Assigned(w, a) == lock[Assignment(a)] = w /\ out[a].state = "open"

(* A checkout has a number of its own; from the lock of the item on it has  *)
(* the item.                                                                *)
CheckoutKnows(w) ==
    /\ tx[w].step \in {"item", "pool", "check", "save"}
    /\ tx[w].n \in Requests /\ tx[w].n <= served /\ out[tx[w].n].state = "none"
    /\ tx[w].step # "item" => lock[Item] = w
    /\ tx[w].step = "pool" => tx[w].at # NoLocation

(* A return and an update know where their assignment comes from, and from  *)
(* its lock on that it is open.                                             *)
ReturnKnows(w) ==
    /\ tx[w].step \in {"assignment", "pool", "save"}
    /\ tx[w].n \in Requests /\ out[tx[w].n].state # "none" /\ tx[w].at = out[tx[w].n].from
    /\ tx[w].step # "assignment" => Assigned(w, tx[w].n)
    /\ tx[w].step = "pool" => tx[w].at # NoLocation

UpdateKnows(w) ==
    /\ tx[w].step \in {"assignment", "item", "check", "save"}
    /\ tx[w].n \in Requests /\ out[tx[w].n].state # "none" /\ tx[w].at = out[tx[w].n].from
    /\ tx[w].step # "assignment" => Assigned(w, tx[w].n)
    /\ tx[w].step \in {"check", "save"} => lock[Item] = w

ReceiveKnows(w) ==
    /\ tx[w].step \in {"pool", "save"} /\ tx[w].at \in Locations
    /\ tx[w].step = "save" => \E r \in Rows : lock[Pool(r)] = w

EditKnows(w) ==
    tx[w].step = "save" /\ tx[w].row \in Rows /\ pool[tx[w].row].state # "none"

(* An archive has the item since it found nothing out. *)
ArchiveKnows(w) ==
    /\ tx[w].step \in {"item", "list", "stock"}
    /\ tx[w].step # "item" => lock[Item] = w /\ Open = {}

Knows(w) == tx[w] # Idle =>
    /\ tx[w].op = "checkout" => CheckoutKnows(w)
    /\ tx[w].op = "return" => ReturnKnows(w)
    /\ tx[w].op = "update" => UpdateKnows(w)
    /\ tx[w].op = "receive" => ReceiveKnows(w)
    /\ tx[w].op = "edit" => EditKnows(w)
    /\ tx[w].op = "archive" => ArchiveKnows(w)

(* The locks of a worker are those its request has taken so far: the item   *)
(* while it is not archived, its assignment, and live pools, one pool at    *)
(* the place of the request unless it archives the item.                    *)
HasItem(w) ==
    /\ tx[w] # Idle /\ tx[w].op \in {"checkout", "update", "archive"}
    /\ tx[w].step \notin {"assignment", "item"} /\ ~archived

HasAssignment(w, a) ==
    /\ tx[w] # Idle /\ tx[w].op \in {"return", "update"}
    /\ tx[w].step # "assignment" /\ tx[w].n = a

HasPool(w, r) ==
    /\ tx[w] # Idle /\ pool[r].state = "live"
    /\ \/ tx[w].op = "archive" /\ tx[w].step = "stock"
       \/ /\ tx[w].op \in {"checkout", "return", "receive"}
          /\ tx[w].step \in {"check", "save"} /\ tx[w].at = pool[r].at
          /\ \A s \in Rows : lock[Pool(s)] = w => s = r

LocksOf(w) ==
    /\ lock[Item] = w => HasItem(w)
    /\ \A a \in Requests : lock[Assignment(a)] = w => HasAssignment(w, a)
    /\ \A r \in Rows : lock[Pool(r)] = w => HasPool(w, r)

(* Requests are numbered, and no two checkouts have the same number. *)
Numbered ==
    /\ \A a \in Requests : out[a].state # "none" => a <= served
    /\ \A v, w \in Workers :
          v # w /\ tx[v] # Idle /\ tx[w] # Idle
              /\ tx[v].op = "checkout" /\ tx[w].op = "checkout" => tx[v].n # tx[w].n

PoolsHavePlace == \A r \in Rows : pool[r].state # "none" => pool[r].at \in Locations

StockInv ==
    /\ StockTypeOK
    /\ \A w \in Workers : Knows(w) /\ LocksOf(w)
    /\ Numbered /\ PoolsHavePlace /\ ArchivedNothingOut

-----------------------------------------------------------------------------
PoolRow == [state : {"none", "live", "deleted", "archived", "purged"},
            at : Sources, qty : Int]
OutRow == [state : {"none", "open", "returned"}, from : Sources, qty : 0 .. MaxQty]

LEMMA LockNames ==
    /\ Item \in Lockable
    /\ \A r \in Rows : Pool(r) \in Lockable /\ Pool(r) # Item
    /\ \A a \in Requests : Assignment(a) \in Lockable /\ Assignment(a) # Item
    /\ \A r \in Rows, a \in Requests : Pool(r) # Assignment(a)
    /\ \A r, s \in Rows : Pool(r) = Pool(s) => r = s
    /\ \A a, b \in Requests : Assignment(a) = Assignment(b) => a = b
BY DEF Lockable, Item, Pool, Assignment

LEMMA IdleIsNoRequest == Idle \notin Request
<1>1. Idle.op = "idle" /\ "idle" \notin Operations
  BY DEF Idle, Operations
<1> QED BY <1>1 DEF Request

LEMMA RequestRow ==
    ASSUME StockTypeOK, NEW w \in Workers, tx[w] # Idle
    PROVE  /\ tx[w] \in Request
           /\ tx[w].op \in Operations /\ tx[w].step \in Steps /\ tx[w].at \in Sources
           /\ tx[w].qty \in 0 .. MaxQty /\ tx[w].n \in 0 .. MaxRequests
           /\ tx[w].row \in 0 .. MaxRows /\ tx[w].todo \in SUBSET Rows
<1>1. tx[w] \in Request
  BY DEF StockTypeOK
<1> QED BY <1>1 DEF Request

(* Going to a step changes nothing else of the request. *)
LEMMA GotoRow ==
    ASSUME StockTypeOK, NEW w \in Workers, tx[w] # Idle, NEW step \in Steps, Goto(w, step)
    PROVE  /\ tx' \in [Workers -> Request \cup {Idle}]
           /\ \A v \in Workers : v # w => tx'[v] = tx[v]
           /\ tx'[w] # Idle /\ tx'[w].step = step
           /\ tx'[w].op = tx[w].op /\ tx'[w].at = tx[w].at /\ tx'[w].qty = tx[w].qty
           /\ tx'[w].n = tx[w].n /\ tx'[w].row = tx[w].row /\ tx'[w].granted = tx[w].granted
<1>1. tx[w] \in Request
  BY RequestRow
<1> DEFINE new == [tx[w] EXCEPT !.step = step]
<1>2. new \in Request
  BY <1>1 DEF Request
<1>3. /\ new.step = step /\ new.op = tx[w].op /\ new.at = tx[w].at /\ new.qty = tx[w].qty
      /\ new.n = tx[w].n /\ new.row = tx[w].row /\ new.granted = tx[w].granted
  BY <1>1 DEF Request
<1>4. tx' = [tx EXCEPT ![w] = new] /\ tx \in [Workers -> Request \cup {Idle}]
  BY DEF Goto, StockTypeOK
<1> HIDE DEF new
<1>5. tx'[w] = new
  BY <1>4
<1> QED BY <1>2, <1>3, <1>4, <1>5, IdleIsNoRequest

(* A lock that is taken, and the end of a transaction. *)
LEMMA LockTaken ==
    ASSUME StockTypeOK, NEW w \in Workers, NEW x \in Lockable, FreeFor(w, x),
           lock' = [lock EXCEPT ![x] = w]
    PROVE  /\ lock' \in [Lockable -> Workers \cup {Nobody}]
           /\ lock'[x] = w
           /\ \A y \in Lockable : y # x => lock'[y] = lock[y]
           /\ \A v \in Workers, y \in Lockable : v # w => (lock'[y] = v <=> lock[y] = v)
BY StockConstants DEF StockTypeOK, FreeFor

LEMMA EndFacts ==
    ASSUME StockTypeOK, NEW w \in Workers, End(w)
    PROVE  /\ lock' \in [Lockable -> Workers \cup {Nobody}]
           /\ tx' \in [Workers -> Request \cup {Idle}]
           /\ tx'[w] = Idle
           /\ \A v \in Workers : v # w => tx'[v] = tx[v]
           /\ \A x \in Lockable : lock'[x] # w
           /\ \A v \in Workers, y \in Lockable : v # w => (lock'[y] = v <=> lock[y] = v)
BY StockConstants DEF StockTypeOK, End

-----------------------------------------------------------------------------
(* What a step of w leaves to the others.  Single steps are those of        *)
(* Nobody.                                                                  *)
OthersStay(w) ==
    /\ \A v \in Workers : v # w => tx'[v] = tx[v]
    /\ \A v \in Workers, x \in Lockable : v # w => (lock'[x] = v <=> lock[x] = v)

RowStays(w, a) ==
    \/ out'[a] = out[a]
    \/ /\ w \in Workers /\ tx[w] # Idle /\ tx[w].op = "checkout" /\ a = tx[w].n
       /\ lock[Item] = w /\ out[a].state = "none" /\ out'[a].state # "none"
    \/ /\ Assigned(w, a) /\ out'[a].state # "none" /\ out'[a].from = out[a].from

PoolStays(w, r) ==
    /\ pool[r].state # "none" => pool'[r].state # "none"
    /\ \/ pool'[r].state = pool[r].state /\ pool'[r].at = pool[r].at
       \/ lock[Pool(r)] \in {w, Nobody}

Respects(w) ==
    /\ OthersStay(w)
    /\ served' \in 0 .. MaxRequests /\ served <= served'
    /\ \A a \in Requests : RowStays(w, a)
    /\ \A r \in Rows : PoolStays(w, r)
    /\ archived' = archived \/ lock[Item] \in {w, Nobody}

LEMMA OthersKnow ==
    ASSUME StockInv, NEW w \in Workers \cup {Nobody}, Respects(w),
           NEW v \in Workers, v # w
    PROVE  Knows(v)' /\ LocksOf(v)'
<1> USE DEF StockInv
<1>1. tx'[v] = tx[v] /\ Knows(v) /\ LocksOf(v) /\ v # Nobody
  BY StockConstants DEF Respects, OthersStay
<1>2. \A x \in Lockable : lock'[x] = v <=> lock[x] = v
  BY DEF Respects, OthersStay
<1>3. \A a \in Requests : Assigned(v, a) => Assigned(v, a)' /\ out'[a] = out[a]
  BY <1>2, LockNames DEF Respects, RowStays, Assigned
<1>4. \A a \in Requests : out[a].state # "none" => out'[a].state # "none" /\ out'[a].from = out[a].from
  BY DEF Respects, RowStays
<1>5. lock[Item] = v => archived' = archived /\ Open' = Open \cap Open'
  <2>1. ASSUME lock[Item] = v, NEW a \in Requests, out'[a].state = "open" PROVE out[a].state = "open"
    BY <1>1, <2>1 DEF Respects, RowStays, Assigned
  <2> QED BY <1>1, <2>1 DEF Respects, Open
<1>6. \A r \in Rows : lock[Pool(r)] = v => pool'[r].state = pool[r].state /\ pool'[r].at = pool[r].at
  BY <1>1 DEF Respects, PoolStays
<1>7. LocksOf(v)'
  <2>1. (lock[Item] = v => HasItem(v))'
    BY <1>1, <1>2, <1>5, LockNames DEF LocksOf, HasItem
  <2>2. ASSUME NEW a \in Requests PROVE (lock[Assignment(a)] = v => HasAssignment(v, a))'
    BY <1>1, <1>2, LockNames DEF LocksOf, HasAssignment
  <2>3. ASSUME NEW r \in Rows PROVE (lock[Pool(r)] = v => HasPool(v, r))'
    BY <1>1, <1>2, <1>6, LockNames DEF LocksOf, HasPool
  <2> QED BY <2>1, <2>2, <2>3 DEF LocksOf
<1>8. Knows(v)'
  <2> SUFFICES ASSUME tx[v] # Idle PROVE Knows(v)'
    BY <1>1 DEF Knows
  <2>1. tx[v].op = "checkout" => CheckoutKnows(v)'
    <3> SUFFICES ASSUME tx[v].op = "checkout" PROVE CheckoutKnows(v)'
      OBVIOUS
    <3>1. CheckoutKnows(v)
      BY <1>1 DEF Knows
    <3>2. tx[v].n <= served'
      BY <3>1 DEF CheckoutKnows, Respects, StockTypeOK, Requests
    <3>3. out'[tx[v].n].state = "none"
      <4>1. w \in Workers /\ tx[w] # Idle /\ tx[w].op = "checkout" => tx[w].n # tx[v].n
        BY DEF Numbered
      <4> QED BY <3>1, <4>1 DEF CheckoutKnows, Respects, RowStays, Assigned
    <3> QED BY <1>1, <1>2, <3>1, <3>2, <3>3, LockNames DEF CheckoutKnows
  <2>2. tx[v].op = "return" => ReturnKnows(v)'
    BY <1>1, <1>3, <1>4 DEF Knows, ReturnKnows
  <2>3. tx[v].op = "update" => UpdateKnows(v)'
    BY <1>1, <1>2, <1>3, <1>4, LockNames DEF Knows, UpdateKnows
  <2>4. tx[v].op = "receive" => ReceiveKnows(v)'
    BY <1>1, <1>2, LockNames DEF Knows, ReceiveKnows
  <2>5. tx[v].op = "edit" => EditKnows(v)'
    BY <1>1 DEF Knows, EditKnows, Respects, PoolStays
  <2>6. tx[v].op = "archive" => ArchiveKnows(v)'
    BY <1>1, <1>2, <1>5, LockNames DEF Knows, ArchiveKnows
  <2> QED BY <1>1, <2>1, <2>2, <2>3, <2>4, <2>5, <2>6 DEF Knows
<1> QED BY <1>7, <1>8

(* The rest of the tables. *)
Tables == <<archived, pool, out, served, edits, brought, edited, bypassed>>

(* A step that moves the request of w on or takes a lock for it. *)
LEMMA MovesOn ==
    ASSUME StockInv, NEW w \in Workers, tx[w] # Idle, UNCHANGED Tables, OthersStay(w),
           tx' \in [Workers -> Request \cup {Idle}],
           lock' \in [Lockable -> Workers \cup {Nobody}],
           tx'[w] # Idle, tx'[w].op = tx[w].op, tx'[w].n = tx[w].n,
           Knows(w)', LocksOf(w)'
    PROVE  StockInv'
<1> USE DEF Tables
<1>1. StockTypeOK'
  BY DEF StockInv, StockTypeOK
<1>2. Respects(w)
  <2>1. served' \in 0 .. MaxRequests /\ served <= served'
    BY DEF StockInv, StockTypeOK
  <2> QED BY <2>1 DEF Respects, RowStays, PoolStays
<1>3. \A v \in Workers : Knows(v)' /\ LocksOf(v)'
  BY <1>2, OthersKnow
<1>4. Numbered'
  <2>1. \A v \in Workers : /\ tx'[v] # Idle <=> tx[v] # Idle
                            /\ tx'[v].op = tx[v].op /\ tx'[v].n = tx[v].n
    BY DEF OthersStay
  <2> QED BY <2>1 DEF StockInv, Numbered
<1>5. PoolsHavePlace' /\ ArchivedNothingOut'
  BY DEF StockInv, PoolsHavePlace, ArchivedNothingOut, Open
<1> QED BY <1>1, <1>3, <1>4, <1>5 DEF StockInv

(* The end of a transaction, with what it writes. *)
LEMMA Ends ==
    ASSUME StockInv, NEW w \in Workers, tx[w] # Idle, End(w), served' = served,
           \A a \in Requests : RowStays(w, a),
           \A r \in Rows : PoolStays(w, r),
           archived' = archived \/ lock[Item] = w,
           StockTypeOK', PoolsHavePlace', ArchivedNothingOut'
    PROVE  StockInv'
<1>0. StockTypeOK
  BY DEF StockInv
<1>1. /\ tx'[w] = Idle /\ OthersStay(w)
      /\ \A x \in Lockable : lock'[x] # w
  BY <1>0, EndFacts DEF OthersStay
<1>2. Respects(w)
  <2>1. served' \in 0 .. MaxRequests /\ served <= served'
    BY DEF StockInv, StockTypeOK
  <2> QED BY <1>1, <2>1 DEF Respects
<1>3. Knows(w)' /\ LocksOf(w)'
  BY <1>1, LockNames DEF Knows, LocksOf
<1>4. \A v \in Workers : Knows(v)' /\ LocksOf(v)'
  BY <1>2, <1>3, OthersKnow
<1>5. Numbered'
  <2>1. ASSUME NEW a \in Requests, out'[a].state # "none" PROVE a <= served'
    <3>1. RowStays(w, a)
      OBVIOUS
    <3>2. tx[w].op = "checkout" => tx[w].n <= served
      BY DEF StockInv, Knows, CheckoutKnows
    <3> QED BY <2>1, <3>1, <3>2 DEF RowStays, Assigned, StockInv, Numbered
  <2>2. ASSUME NEW u \in Workers, NEW v \in Workers, u # v, tx'[u] # Idle, tx'[v] # Idle,
               tx'[u].op = "checkout", tx'[v].op = "checkout"
        PROVE  tx'[u].n # tx'[v].n
    BY <1>1, <2>2 DEF OthersStay, StockInv, Numbered
  <2> QED BY <2>1, <2>2 DEF Numbered
<1> QED BY <1>4, <1>5 DEF StockInv

LEMMA RefuseKeeps ==
    ASSUME StockInv, NEW w \in Workers, tx[w] # Idle, Refuse(w)
    PROVE  StockInv'
<1>1. End(w) /\ UNCHANGED Tables
  BY DEF Refuse, Tables
<1>2. /\ lock' \in [Lockable -> Workers \cup {Nobody}]
      /\ tx' \in [Workers -> Request \cup {Idle}]
  BY <1>1, EndFacts DEF StockInv
<1>3. StockTypeOK' /\ PoolsHavePlace' /\ ArchivedNothingOut'
  BY <1>1, <1>2 DEF Tables, StockInv, StockTypeOK, PoolsHavePlace, ArchivedNothingOut, Open
<1> QED BY <1>1, <1>3, Ends DEF Tables, RowStays, PoolStays

-----------------------------------------------------------------------------
(* A request begins. *)

Asked(op, step, at, qty, n, granted, row) ==
    [op |-> op, step |-> step, at |-> at, qty |-> qty, n |-> n,
     granted |-> granted, row |-> row, todo |-> {}]

LEMMA AskedRow ==
    ASSUME NEW op \in Operations, NEW step \in Steps, NEW at \in Sources,
           NEW qty \in 0 .. MaxQty, NEW n \in 0 .. MaxRequests, NEW granted \in BOOLEAN,
           NEW row \in 0 .. MaxRows
    PROVE  Asked(op, step, at, qty, n, granted, row) \in Request
BY DEF Asked, Request

(* A new request holds nothing and relies on nothing but what it has read.  *)
LEMMA ServeKeeps ==
    ASSUME StockInv, NEW w \in Workers, NEW q \in Request, Serve(w, q),
           q.op = "checkout" => q.step = "item" /\ q.n = served + 1,
           q.op \in {"return", "update"} =>
              /\ q.step = "assignment" /\ q.n \in Requests
              /\ out[q.n].state = "open" /\ q.at = out[q.n].from,
           q.op = "receive" => q.step = "pool" /\ q.at \in Locations,
           q.op = "edit" => q.step = "save" /\ q.row \in Rows /\ pool[q.row].state # "none",
           q.op = "archive" => q.step = "item"
    PROVE  StockInv'
<1>1. /\ tx[w] = Idle /\ served < MaxRequests /\ served' = served + 1
      /\ tx' = [tx EXCEPT ![w] = q]
      /\ UNCHANGED <<archived, pool, out, lock, edits, brought, edited, bypassed>>
  BY DEF Serve
<1>2. served \in 0 .. MaxRequests /\ MaxRequests \in Nat /\ tx \in [Workers -> Request \cup {Idle}]
  BY StockConstants DEF StockInv, StockTypeOK
<1>3. served' \in 0 .. MaxRequests /\ served <= served' /\ served + 1 \in Requests
  BY <1>1, <1>2 DEF Requests
<1>4. tx'[w] = q /\ q # Idle /\ (\A v \in Workers : v # w => tx'[v] = tx[v])
  BY <1>1, <1>2, IdleIsNoRequest
<1>5. StockTypeOK'
  <2>1. tx' \in [Workers -> Request \cup {Idle}]
    BY <1>1, <1>2
  <2> QED BY <1>1, <1>3, <2>1 DEF StockInv, StockTypeOK
<1>6. Respects(w)
  BY <1>1, <1>3, <1>4 DEF Respects, OthersStay, RowStays, PoolStays
<1>7. \A x \in Lockable : lock[x] = w =>
          /\ x # Item /\ (\A a \in Requests : x # Assignment(a)) /\ (\A r \in Rows : x # Pool(r))
  BY <1>1 DEF StockInv, LocksOf, HasItem, HasAssignment, HasPool
<1>8. LocksOf(w)'
  BY <1>1, <1>7, LockNames DEF LocksOf
<1>9. out[served + 1].state = "none"
  BY <1>2, <1>3 DEF StockInv, Numbered
<1>10. Knows(w)'
  <2>1. q.op = "checkout" => CheckoutKnows(w)'
    BY <1>1, <1>3, <1>4, <1>9 DEF CheckoutKnows
  <2>2. q.op = "return" => ReturnKnows(w)'
    BY <1>1, <1>4 DEF ReturnKnows
  <2>3. q.op = "update" => UpdateKnows(w)'
    BY <1>1, <1>4 DEF UpdateKnows
  <2>4. q.op = "receive" => ReceiveKnows(w)'
    BY <1>4 DEF ReceiveKnows
  <2>5. q.op = "edit" => EditKnows(w)'
    BY <1>1, <1>4 DEF EditKnows
  <2>6. q.op = "archive" => ArchiveKnows(w)'
    BY <1>4 DEF ArchiveKnows
  <2> QED BY <1>4, <2>1, <2>2, <2>3, <2>4, <2>5, <2>6 DEF Knows
<1>11. \A v \in Workers : Knows(v)' /\ LocksOf(v)'
  BY <1>6, <1>8, <1>10, OthersKnow
<1>12. Numbered'
  <2>1. \A a \in Requests : out'[a].state # "none" => a <= served'
    BY <1>1, <1>2 DEF StockInv, Numbered, Requests
  <2>2. \A v \in Workers : tx[v] # Idle /\ tx[v].op = "checkout" => tx[v].n # served + 1
    BY <1>2 DEF StockInv, Knows, CheckoutKnows, Requests
  <2>3. \A u, v \in Workers :
          u # v /\ tx'[u] # Idle /\ tx'[v] # Idle
              /\ tx'[u].op = "checkout" /\ tx'[v].op = "checkout" => tx'[u].n # tx'[v].n
    BY <1>4, <2>2 DEF StockInv, Numbered
  <2> QED BY <2>1, <2>3 DEF Numbered
<1>13. PoolsHavePlace' /\ ArchivedNothingOut'
  BY <1>1 DEF StockInv, PoolsHavePlace, ArchivedNothingOut, Open
<1> QED BY <1>5, <1>11, <1>12, <1>13 DEF StockInv

LEMMA BeginKeeps ==
    ASSUME StockInv, NEW w \in Workers, Begin(w)
    PROVE  StockInv'
<1>0. /\ served < MaxRequests => served + 1 \in 0 .. MaxRequests
      /\ Quantities \subseteq 0 .. MaxQty /\ Requests \subseteq 0 .. MaxRequests
      /\ Rows \subseteq 0 .. MaxRows /\ 0 \in 0 .. MaxQty /\ 0 \in 0 .. MaxRequests /\ 0 \in 0 .. MaxRows
  BY StockConstants DEF StockInv, StockTypeOK, Quantities, Requests, Rows
<1>a. /\ {"checkout", "return", "update", "receive", "archive", "edit"} \subseteq Operations
       /\ {"assignment", "item", "pool", "save"} \subseteq Steps
       /\ Locations \subseteq Sources /\ NoLocation \in Sources
       /\ FALSE \in BOOLEAN
  BY DEF Operations, Steps, Sources
<1>1. ASSUME NEW l \in Sources, NEW q \in Quantities, NEW granted \in BOOLEAN,
             CheckoutBegin(w, l, q, granted)
      PROVE  StockInv'
  <2> DEFINE new == [Asks("checkout", "item", l, q, served + 1) EXCEPT !.granted = granted]
  <2>1. new = Asked("checkout", "item", l, q, served + 1, granted, 0)
    BY DEF Asks, Asked
  <2>2. Serve(w, new)
    BY <1>1 DEF CheckoutBegin
  <2> HIDE DEF new
  <2>3. new \in Request
    <3>1. served + 1 \in 0 .. MaxRequests
      BY <1>0, <2>2 DEF Serve
    <3> QED BY <1>0, <1>a, <2>1, <3>1, AskedRow
  <2>4. new.op = "checkout" /\ new.step = "item" /\ new.n = served + 1
    BY <2>1 DEF Asked
  <2> QED BY <2>2, <2>3, <2>4, ServeKeeps
<1>2. ASSUME NEW a \in Requests, NEW op \in {"return", "update"}, NEW q \in 0 .. MaxQty,
             out[a].state = "open", Serve(w, Asks(op, "assignment", out[a].from, q, a))
      PROVE  StockInv'
  <2> DEFINE new == Asks(op, "assignment", out[a].from, q, a)
  <2>1. new = Asked(op, "assignment", out[a].from, q, a, FALSE, 0)
    BY DEF Asks, Asked
  <2>2. Serve(w, new)
    BY <1>2
  <2>3. out[a].from \in Sources
    BY DEF StockInv, StockTypeOK
  <2> HIDE DEF new
  <2>4. new \in Request
    BY <1>0, <1>a, <2>1, <2>3, AskedRow
  <2>5. new.op = op /\ new.step = "assignment" /\ new.n = a /\ new.at = out[a].from
    BY <2>1 DEF Asked
  <2> QED BY <1>2, <2>2, <2>4, <2>5, ServeKeeps
<1>3. ASSUME NEW a \in Requests, ReturnBegin(w, a) \/ \E q \in Quantities : UpdateBegin(w, a, q)
      PROVE  StockInv'
  <2>1. out[a].qty \in 0 .. MaxQty
    BY DEF StockInv, StockTypeOK
  <2> QED BY <1>0, <1>2, <1>3, <2>1 DEF ReturnBegin, UpdateBegin
<1>4. ASSUME NEW l \in Locations, NEW q \in Quantities, ReceiveBegin(w, l, q)
      PROVE  StockInv'
  <2> DEFINE new == Asks("receive", "pool", l, q, 0)
  <2>1. new = Asked("receive", "pool", l, q, 0, FALSE, 0)
    BY DEF Asks, Asked
  <2>2. Serve(w, new)
    BY <1>4 DEF ReceiveBegin
  <2> HIDE DEF new
  <2>3. new \in Request
    BY <1>0, <1>a, <2>1, AskedRow
  <2>4. new.op = "receive" /\ new.step = "pool" /\ new.at = l
    BY <2>1 DEF Asked
  <2> QED BY <2>2, <2>3, <2>4, ServeKeeps
<1>5. ASSUME ArchiveBegin(w) PROVE StockInv'
  <2> DEFINE new == Asks("archive", "item", NoLocation, 0, 0)
  <2>1. new = Asked("archive", "item", NoLocation, 0, 0, FALSE, 0)
    BY DEF Asks, Asked
  <2>2. Serve(w, new)
    BY <1>5 DEF ArchiveBegin
  <2> HIDE DEF new
  <2>3. new \in Request
    BY <1>0, <1>a, <2>1, AskedRow
  <2>4. new.op = "archive" /\ new.step = "item"
    BY <2>1 DEF Asked
  <2> QED BY <2>2, <2>3, <2>4, ServeKeeps
<1>6. ASSUME NEW r \in Rows, EditBegin(w, r) PROVE StockInv'
  <2> DEFINE new == [Asks("edit", "save", pool[r].at, 0, 0) EXCEPT !.row = r]
  <2>1. Serve(w, new) /\ pool[r].state = "live"
    BY <1>6 DEF EditBegin
  <2>2. pool[r].at \in Sources
    BY DEF StockInv, StockTypeOK
  <2>3. new \in Request
    BY <1>0, <1>a, <2>2 DEF Asks, Request
  <2>4. new.op = "edit" /\ new.step = "save" /\ new.row = r
    BY DEF Asks
  <2> HIDE DEF new
  <2> QED BY <2>1, <2>3, <2>4, ServeKeeps
<1> QED BY <1>1, <1>3, <1>4, <1>5, <1>6 DEF Begin

-----------------------------------------------------------------------------
(* A request takes its locks. *)

LEMMA TakeAssignmentKeeps ==
    ASSUME StockInv, NEW w \in Workers, TakeAssignment(w)
    PROVE  StockInv'
<1>0. StockTypeOK /\ Knows(w) /\ LocksOf(w)
  BY DEF StockInv
<1>1. tx[w] # Idle /\ tx[w].step = "assignment"
  BY DEF TakeAssignment
<1>2. CASE Refuse(w)
  BY <1>1, <1>2, RefuseKeeps
<1>3. CASE ~Refuse(w)
  <2> DEFINE n == tx[w].n
             next == IF tx[w].op = "update" THEN "item"
                     ELSE IF tx[w].at = NoLocation THEN "save" ELSE "pool"
  <2>1. /\ out[n].state = "open" /\ FreeFor(w, Assignment(n))
        /\ lock' = [lock EXCEPT ![Assignment(n)] = w] /\ Goto(w, next)
        /\ UNCHANGED Tables
    BY <1>3 DEF TakeAssignment, StillOpen, LockAndGoto, Tables
  <2>2. /\ tx[w].op \in {"return", "update"} /\ n \in Requests /\ out[n].state # "none"
        /\ tx[w].at = out[n].from
    BY <1>0, <1>1, RequestRow
       DEF Operations, Knows, CheckoutKnows, ReturnKnows, UpdateKnows, ReceiveKnows, EditKnows, ArchiveKnows
  <2>3. next \in Steps
    BY DEF Steps
  <2>4. Assignment(n) \in Lockable
    BY <2>2, LockNames
  <2>5. /\ lock' \in [Lockable -> Workers \cup {Nobody}] /\ lock'[Assignment(n)] = w
        /\ \A y \in Lockable : y # Assignment(n) => lock'[y] = lock[y]
        /\ \A v \in Workers, y \in Lockable : v # w => (lock'[y] = v <=> lock[y] = v)
    BY <1>0, <2>1, <2>4, LockTaken
  <2>6. /\ tx' \in [Workers -> Request \cup {Idle}]
        /\ \A v \in Workers : v # w => tx'[v] = tx[v]
        /\ tx'[w] # Idle /\ tx'[w].step = next
        /\ tx'[w].op = tx[w].op /\ tx'[w].at = tx[w].at /\ tx'[w].n = n
    BY <1>0, <1>1, <2>1, <2>3, GotoRow
  <2>7. OthersStay(w)
    BY <2>5, <2>6 DEF OthersStay
  <2>8. /\ lock'[Assignment(n)] = w /\ out'[n].state = "open"
        /\ out' = out /\ pool' = pool /\ archived' = archived
    BY <2>1, <2>5 DEF Tables
  <2>9. Knows(w)'
    BY <2>2, <2>6, <2>8 DEF Knows, ReturnKnows, UpdateKnows, Assigned
  <2>10. LocksOf(w)'
    <3>1. lock[Item] # w /\ (\A r \in Rows : lock[Pool(r)] # w)
      BY <1>0, <1>1, <2>2 DEF LocksOf, HasItem, HasPool
    <3>2. lock'[Item] # w /\ (\A r \in Rows : lock'[Pool(r)] # w)
      BY <2>2, <2>5, <3>1, LockNames
    <3>3. \A a \in Requests : lock'[Assignment(a)] = w => a = n
      BY <1>0, <1>1, <2>2, <2>5, LockNames DEF LocksOf, HasAssignment
    <3> QED BY <2>2, <2>6, <3>2, <3>3 DEF LocksOf, HasAssignment
  <2> HIDE DEF n, next
  <2> QED BY <1>1, <2>1, <2>5, <2>6, <2>7, <2>9, <2>10, MovesOn DEF n
<1> QED BY <1>2, <1>3

LEMMA TakeItemKeeps ==
    ASSUME StockInv, NEW w \in Workers, TakeItem(w)
    PROVE  StockInv'
<1>0. StockTypeOK /\ Knows(w) /\ LocksOf(w)
  BY DEF StockInv
<1>1. tx[w] # Idle /\ tx[w].step = "item"
  BY DEF TakeItem
<1>2. CASE Refuse(w)
  BY <1>1, <1>2, RefuseKeeps
<1>3. CASE ~Refuse(w)
  <2> DEFINE next == IF tx[w].op = "archive" THEN "list"
                     ELSE IF tx[w].op = "update" \/ tx[w].at = NoLocation
                     THEN "check" ELSE "pool"
  <2>1. /\ ~archived /\ (tx[w].op = "archive" => Open = {}) /\ FreeFor(w, Item)
        /\ lock' = [lock EXCEPT ![Item] = w] /\ Goto(w, next)
        /\ UNCHANGED Tables
    BY <1>3 DEF TakeItem, Blockers, LockAndGoto, Tables
  <2>2. tx[w].op \in {"checkout", "update", "archive"}
    BY <1>0, <1>1, RequestRow
       DEF Operations, Knows, CheckoutKnows, ReturnKnows, UpdateKnows, ReceiveKnows, EditKnows, ArchiveKnows
  <2>3. next \in Steps
    BY DEF Steps
  <2>5. /\ lock' \in [Lockable -> Workers \cup {Nobody}] /\ lock'[Item] = w
        /\ \A y \in Lockable : y # Item => lock'[y] = lock[y]
        /\ \A v \in Workers, y \in Lockable : v # w => (lock'[y] = v <=> lock[y] = v)
    BY <1>0, <2>1, LockNames, LockTaken
  <2>6. /\ tx' \in [Workers -> Request \cup {Idle}]
        /\ \A v \in Workers : v # w => tx'[v] = tx[v]
        /\ tx'[w] # Idle /\ tx'[w].step = next
        /\ tx'[w].op = tx[w].op /\ tx'[w].at = tx[w].at /\ tx'[w].n = tx[w].n
    BY <1>0, <1>1, <2>1, <2>3, GotoRow
  <2>7. OthersStay(w)
    BY <2>5, <2>6 DEF OthersStay
  <2>8. /\ out' = out /\ pool' = pool /\ archived' = archived /\ served' = served
        /\ Open' = Open
    BY <2>1 DEF Tables, Open
  <2>9. Knows(w)'
    <3>1. CASE tx[w].op = "checkout"
      BY <1>0, <1>1, <2>5, <2>6, <2>8, <3>1 DEF Knows, CheckoutKnows
    <3>2. CASE tx[w].op = "update"
      <4>1. tx[w].n \in Requests /\ Assigned(w, tx[w].n)
        BY <1>0, <1>1, <3>2 DEF Knows, UpdateKnows
      <4>2. lock'[Assignment(tx[w].n)] = w
        BY <2>5, <4>1, LockNames DEF Assigned
      <4> QED BY <1>0, <1>1, <2>5, <2>6, <2>8, <3>2, <4>1, <4>2 DEF Knows, UpdateKnows, Assigned
    <3>3. CASE tx[w].op = "archive"
      BY <2>1, <2>5, <2>6, <2>8, <3>3 DEF Knows, ArchiveKnows
    <3> QED BY <2>2, <3>1, <3>2, <3>3
  <2>10. LocksOf(w)'
    <3>1. \A r \in Rows : lock[Pool(r)] # w
      BY <1>0, <1>1 DEF LocksOf, HasPool
    <3>2. \A r \in Rows : lock'[Pool(r)] # w
      BY <2>5, <3>1, LockNames
    <3>3. \A a \in Requests : lock'[Assignment(a)] = w => HasAssignment(w, a)'
      BY <1>0, <1>1, <2>2, <2>5, <2>6, LockNames DEF LocksOf, HasAssignment
    <3>4. HasItem(w)'
      BY <2>1, <2>2, <2>6, <2>8 DEF HasItem
    <3> QED BY <3>2, <3>3, <3>4 DEF LocksOf
  <2> HIDE DEF next
  <2> QED BY <1>1, <2>1, <2>5, <2>6, <2>7, <2>9, <2>10, MovesOn
<1> QED BY <1>2, <1>3

LEMMA TakePoolKeeps ==
    ASSUME StockInv, NEW w \in Workers, TakePool(w)
    PROVE  StockInv'
<1>0. StockTypeOK /\ Knows(w) /\ LocksOf(w)
  BY DEF StockInv
<1>1. tx[w] # Idle /\ tx[w].step = "pool"
  BY DEF TakePool
<1> DEFINE next == IF tx[w].op = "checkout" THEN "check" ELSE "save"
<1>2. /\ tx[w].op = "receive" => LiveAt(tx[w].at) # {}
      /\ UNCHANGED Tables /\ Goto(w, next)
      /\ \/ LiveAt(tx[w].at) = {} /\ UNCHANGED lock
         \/ \E r \in LiveAt(tx[w].at) : FreeFor(w, Pool(r)) /\ lock' = [lock EXCEPT ![Pool(r)] = w]
  BY DEF TakePool, Tables, LockAndGoto
<1>3. tx[w].op \in {"checkout", "return", "receive"}
  BY <1>0, <1>1, RequestRow
     DEF Operations, Knows, CheckoutKnows, ReturnKnows, UpdateKnows, ReceiveKnows, EditKnows, ArchiveKnows
<1>4. next \in {"check", "save"} /\ next \in Steps
  BY DEF Steps
<1>5. /\ tx' \in [Workers -> Request \cup {Idle}]
      /\ \A v \in Workers : v # w => tx'[v] = tx[v]
      /\ tx'[w] # Idle /\ tx'[w].step = next
      /\ tx'[w].op = tx[w].op /\ tx'[w].at = tx[w].at /\ tx'[w].n = tx[w].n
  BY <1>0, <1>1, <1>2, <1>4, GotoRow
<1>6. /\ out' = out /\ pool' = pool /\ archived' = archived /\ served' = served
  BY <1>2 DEF Tables
<1>7. \A r \in Rows : lock[Pool(r)] # w
  BY <1>0, <1>1, <1>3 DEF LocksOf, HasPool
(* At most one pool is locked, and it is live at the place of the request. *)
<1>8. /\ lock' \in [Lockable -> Workers \cup {Nobody}]
      /\ lock'[Item] = lock[Item]
      /\ \A a \in Requests : lock'[Assignment(a)] = lock[Assignment(a)]
      /\ \A v \in Workers, y \in Lockable : v # w => (lock'[y] = v <=> lock[y] = v)
      /\ tx[w].op = "receive" => \E r \in Rows : lock'[Pool(r)] = w
      /\ \A r \in Rows : lock'[Pool(r)] = w =>
            /\ pool[r].state = "live" /\ pool[r].at = tx[w].at
            /\ \A s \in Rows : lock'[Pool(s)] = w => s = r
  <2>1. CASE LiveAt(tx[w].at) = {} /\ UNCHANGED lock
    BY <1>0, <1>2, <1>7, <2>1 DEF StockTypeOK
  <2>2. CASE \E r \in LiveAt(tx[w].at) : FreeFor(w, Pool(r)) /\ lock' = [lock EXCEPT ![Pool(r)] = w]
    <3> PICK r \in LiveAt(tx[w].at) : FreeFor(w, Pool(r)) /\ lock' = [lock EXCEPT ![Pool(r)] = w]
      BY <2>2
    <3>1. r \in Rows /\ pool[r].state = "live" /\ pool[r].at = tx[w].at
      BY DEF LiveAt, RowsAt
    <3>2. Pool(r) \in Lockable
      BY <3>1, LockNames
    <3>3. /\ lock' \in [Lockable -> Workers \cup {Nobody}] /\ lock'[Pool(r)] = w
          /\ \A y \in Lockable : y # Pool(r) => lock'[y] = lock[y]
          /\ \A v \in Workers, y \in Lockable : v # w => (lock'[y] = v <=> lock[y] = v)
      BY <1>0, <3>2, LockTaken
    <3>4. \A s \in Rows : lock'[Pool(s)] = w => s = r
      BY <1>7, <3>1, <3>3, LockNames
    <3> QED BY <3>1, <3>3, <3>4, LockNames
  <2> QED BY <1>2, <2>1, <2>2
<1>9. OthersStay(w)
  BY <1>5, <1>8 DEF OthersStay
<1>10. Knows(w)'
  BY <1>0, <1>1, <1>3, <1>4, <1>5, <1>6, <1>8
     DEF Knows, CheckoutKnows, ReturnKnows, ReceiveKnows, Assigned
<1>11. LocksOf(w)'
  <2>1. lock'[Item] = w => HasItem(w)'
    BY <1>0, <1>4, <1>5, <1>6, <1>8 DEF LocksOf, HasItem
  <2>2. \A a \in Requests : lock'[Assignment(a)] = w => HasAssignment(w, a)'
    BY <1>0, <1>4, <1>5, <1>8 DEF LocksOf, HasAssignment
  <2>3. \A r \in Rows : lock'[Pool(r)] = w => HasPool(w, r)'
    BY <1>3, <1>4, <1>5, <1>6, <1>8 DEF HasPool
  <2> QED BY <2>1, <2>2, <2>3 DEF LocksOf
<1> HIDE DEF next
<1> QED BY <1>1, <1>2, <1>5, <1>8, <1>9, <1>10, <1>11, MovesOn

LEMMA CheckKeeps ==
    ASSUME StockInv, NEW w \in Workers, Check(w)
    PROVE  StockInv'
<1>0. StockTypeOK /\ Knows(w) /\ LocksOf(w)
  BY DEF StockInv
<1>1. tx[w] # Idle /\ tx[w].step = "check"
  BY DEF Check
<1>2. CASE Refuse(w)
  BY <1>1, <1>2, RefuseKeeps
<1>3. CASE ~Refuse(w)
  <2>1. Goto(w, "save") /\ UNCHANGED Tables /\ UNCHANGED lock
    BY <1>3 DEF Check, Tables
  <2>2. tx[w].op \in {"checkout", "update"}
    BY <1>0, <1>1, RequestRow
       DEF Operations, Knows, CheckoutKnows, ReturnKnows, UpdateKnows, ReceiveKnows, EditKnows, ArchiveKnows
  <2>3. "save" \in Steps
    BY DEF Steps
  <2>4. /\ tx' \in [Workers -> Request \cup {Idle}]
        /\ \A v \in Workers : v # w => tx'[v] = tx[v]
        /\ tx'[w] # Idle /\ tx'[w].step = "save"
        /\ tx'[w].op = tx[w].op /\ tx'[w].at = tx[w].at /\ tx'[w].n = tx[w].n
    BY <1>0, <1>1, <2>1, <2>3, GotoRow
  <2>5. OthersStay(w) /\ lock' \in [Lockable -> Workers \cup {Nobody}]
    BY <1>0, <2>1, <2>4 DEF OthersStay, StockTypeOK
  <2>6. out' = out /\ pool' = pool /\ archived' = archived /\ served' = served
    BY <2>1 DEF Tables
  <2>7. Knows(w)'
    BY <1>0, <1>1, <2>1, <2>2, <2>4, <2>6 DEF Knows, CheckoutKnows, UpdateKnows, Assigned
  <2>8. LocksOf(w)'
    BY <1>0, <1>1, <2>1, <2>2, <2>4, <2>6 DEF LocksOf, HasItem, HasAssignment, HasPool
  <2> QED BY <1>1, <2>1, <2>4, <2>5, <2>7, <2>8, MovesOn
<1> QED BY <1>2, <1>3

(* An archive lists the pools and takes them one by one. *)
LEMMA ArchiveMoves ==
    ASSUME StockInv, NEW w \in Workers, ArchiveList(w) \/ ArchiveStock(w)
    PROVE  StockInv'
<1>0. StockTypeOK /\ Knows(w) /\ LocksOf(w)
  BY DEF StockInv
<1>1. /\ tx[w] # Idle /\ tx[w].op = "archive" /\ tx[w].step \in {"list", "stock"}
      /\ UNCHANGED Tables
  BY DEF ArchiveList, ArchiveStock, Doing, Tables
<1>2. \E todo \in SUBSET Rows : tx' = [tx EXCEPT ![w].step = "stock", ![w].todo = todo]
  <2>1. CASE ArchiveList(w)
    <3>1. LiveRows \in SUBSET Rows /\ tx' = [tx EXCEPT ![w].step = "stock", ![w].todo = LiveRows]
      BY <2>1 DEF ArchiveList, LiveRows
    <3> QED BY <3>1
  <2>2. CASE ArchiveStock(w)
    <3>1. PICK r \in tx[w].todo : tx' = [tx EXCEPT ![w].todo = @ \ {r}]
      BY <2>2 DEF ArchiveStock
    <3>2. tx[w].todo \ {r} \in SUBSET Rows /\ tx[w].step = "stock" /\ tx[w] \in Request
      BY <1>0, <1>1, <2>2, RequestRow DEF ArchiveStock, Doing
    <3>3. tx[w] = [tx[w] EXCEPT !.step = "stock"]
      BY <3>2 DEF Request
    <3>4. [tx[w] EXCEPT !.todo = @ \ {r}] = [tx[w] EXCEPT !.step = "stock", !.todo = tx[w].todo \ {r}]
      BY <3>2 DEF Request
    <3>5. tx' = [tx EXCEPT ![w].step = "stock", ![w].todo = tx[w].todo \ {r}]
      BY <1>0, <3>1, <3>4 DEF StockTypeOK
    <3> QED BY <3>2, <3>5
  <2> QED BY <2>1, <2>2
<1>3. /\ tx' \in [Workers -> Request \cup {Idle}]
      /\ \A v \in Workers : v # w => tx'[v] = tx[v]
      /\ tx'[w] # Idle /\ tx'[w].step = "stock" /\ tx'[w].op = tx[w].op /\ tx'[w].n = tx[w].n
  <2> PICK todo \in SUBSET Rows : tx' = [tx EXCEPT ![w].step = "stock", ![w].todo = todo]
    BY <1>2
  <2> DEFINE new == [tx[w] EXCEPT !.step = "stock", !.todo = todo]
  <2>1. tx[w] \in Request /\ "stock" \in Steps
    BY <1>0, <1>1, RequestRow DEF Steps
  <2>2. new \in Request /\ new.step = "stock" /\ new.op = tx[w].op /\ new.n = tx[w].n
    BY <2>1 DEF Request
  <2>3. tx' = [tx EXCEPT ![w] = new] /\ tx \in [Workers -> Request \cup {Idle}]
    BY <1>0 DEF StockTypeOK
  <2> HIDE DEF new
  <2>4. tx'[w] = new
    BY <2>3
  <2> QED BY <2>2, <2>3, <2>4, IdleIsNoRequest
<1>4. /\ lock' \in [Lockable -> Workers \cup {Nobody}]
      /\ lock'[Item] = lock[Item]
      /\ \A a \in Requests : lock'[Assignment(a)] = lock[Assignment(a)]
      /\ \A v \in Workers, y \in Lockable : v # w => (lock'[y] = v <=> lock[y] = v)
      /\ \A r \in Rows : lock'[Pool(r)] = w => lock[Pool(r)] = w \/ pool[r].state = "live"
  <2>1. CASE lock' = lock
    BY <1>0, <2>1 DEF StockTypeOK
  <2>2. CASE \E r \in LiveRows : FreeFor(w, Pool(r)) /\ lock' = [lock EXCEPT ![Pool(r)] = w]
    <3> PICK r \in LiveRows : FreeFor(w, Pool(r)) /\ lock' = [lock EXCEPT ![Pool(r)] = w]
      BY <2>2
    <3>1. r \in Rows /\ pool[r].state = "live" /\ Pool(r) \in Lockable
      BY LockNames DEF LiveRows
    <3>2. /\ lock' \in [Lockable -> Workers \cup {Nobody}] /\ lock'[Pool(r)] = w
          /\ \A y \in Lockable : y # Pool(r) => lock'[y] = lock[y]
          /\ \A v \in Workers, y \in Lockable : v # w => (lock'[y] = v <=> lock[y] = v)
      BY <1>0, <3>1, LockTaken
    <3> QED BY <3>1, <3>2, LockNames
  <2>3. lock' = lock \/ \E r \in LiveRows : FreeFor(w, Pool(r)) /\ lock' = [lock EXCEPT ![Pool(r)] = w]
    BY DEF ArchiveList, ArchiveStock
  <2> QED BY <2>1, <2>2, <2>3
<1>5. OthersStay(w)
  BY <1>3, <1>4 DEF OthersStay
<1>6. out' = out /\ pool' = pool /\ archived' = archived /\ Open' = Open
  BY <1>1 DEF Tables, Open
<1>7. Knows(w)'
  BY <1>0, <1>1, <1>3, <1>4, <1>6 DEF Knows, ArchiveKnows
<1>8. LocksOf(w)'
  <2>1. lock'[Item] = w => HasItem(w)'
    BY <1>0, <1>1, <1>3, <1>4, <1>6 DEF LocksOf, HasItem
  <2>2. \A a \in Requests : lock'[Assignment(a)] # w
    BY <1>0, <1>1, <1>4 DEF LocksOf, HasAssignment
  <2>3. \A r \in Rows : lock'[Pool(r)] = w => HasPool(w, r)'
    BY <1>0, <1>1, <1>3, <1>4, <1>6 DEF LocksOf, HasPool
  <2> QED BY <2>1, <2>2, <2>3 DEF LocksOf
<1> QED BY <1>1, <1>3, <1>4, <1>5, <1>7, <1>8, MovesOn

-----------------------------------------------------------------------------
(* Sums over finite sets.  SumFunctionOnSet of the community modules is a   *)
(* recursive function on the subsets of a set; induction is over the        *)
(* subsets of a finite set, by a smallest counterexample.                   *)

(* A set of subsets of a finite set that is not empty has a smallest one.   *)
LEMMA SmallestSubset ==
    ASSUME NEW U, IsFiniteSet(U), NEW T, T \subseteq SUBSET U, T # {}
    PROVE  \E x \in T : \A y \in T : y \subseteq x => y = x
  <1>1. IsWellFoundedOn(StrictSubsetOrdering(U), FiniteSubsetsOf(U))
    BY FS_StrictSubsetOrderingWellFounded
  <1>2. FiniteSubsetsOf(U) = SUBSET U
    BY FS_FiniteSubsetsOfFinite
  <1>3. PICK x \in T : \A y \in T : ~ (<<y, x>> \in StrictSubsetOrdering(U))
    BY <1>1, <1>2, WFMin
  <1>4. ASSUME NEW y \in T, y \subseteq x, y # x PROVE FALSE
    <2>1. <<y, x>> \in (SUBSET U) \X (SUBSET U)
      OBVIOUS
    <2>2. <<y, x>> \in StrictSubsetOrdering(U)
      BY <2>1, <1>4 DEF StrictSubsetOrdering
    <2> QED BY <2>2, <1>3
  <1> QED BY <1>3, <1>4

Any(s) == CHOOSE x \in s : TRUE

LEMMA AnyIsIn == ASSUME NEW s, s # {} PROVE Any(s) \in s
  BY DEF Any

IsSum(g, f, u) ==
    /\ g \in [SUBSET u -> Int]
    /\ \A s \in SUBSET u : g[s] = IF s = {} THEN 0 ELSE f[Any(s)] + g[s \ {Any(s)}]

LEMMA OneSum ==
    ASSUME NEW f, NEW u, NEW v, IsFiniteSet(u), NEW g, NEW h, IsSum(g, f, u), IsSum(h, f, v)
    PROVE  \A s \in SUBSET (u \cap v) : g[s] = h[s]
  <1> DEFINE T == {s \in SUBSET (u \cap v) : g[s] # h[s]}
  <1> SUFFICES ASSUME T # {} PROVE FALSE
    OBVIOUS
  <1>1. PICK s \in T : \A y \in T : y \subseteq s => y = s
    <2>1. T \subseteq SUBSET u
      OBVIOUS
    <2> HIDE DEF T
    <2> QED BY <2>1, SmallestSubset
  <1>2. s # {}
    BY DEF IsSum
  <1>3. Any(s) \in s
    BY <1>2, AnyIsIn
  <1>4. s \ {Any(s)} \notin T
    BY <1>1, <1>3
  <1>5. g[s \ {Any(s)}] = h[s \ {Any(s)}]
    BY <1>4
  <1>6. g[s] = h[s]
    BY <1>2, <1>5 DEF IsSum
  <1> QED BY <1>6

LEMMA SumExists ==
    ASSUME NEW U, IsFiniteSet(U), NEW f \in [U -> Int]
    PROVE  \A u \in SUBSET U : \E g : IsSum(g, f, u)
  <1> DEFINE T == {u \in SUBSET U : \A g : ~IsSum(g, f, u)}
  <1> SUFFICES ASSUME T # {} PROVE FALSE
    OBVIOUS
  <1>1. PICK t \in T : \A y \in T : y \subseteq t => y = t
    <2>1. T \subseteq SUBSET U
      OBVIOUS
    <2> HIDE DEF T
    <2> QED BY <2>1, SmallestSubset
  <1> DEFINE H(s) == CHOOSE g : IsSum(g, f, s)
  <1>2. ASSUME NEW s \in SUBSET t, s # t PROVE IsSum(H(s), f, s)
    <2>1. s \notin T
      BY <1>1, <1>2
    <2>2. \E g : IsSum(g, f, s)
      BY <2>1
    <2> QED BY <2>2
  <1>3. ASSUME NEW s \in SUBSET t, s # t, s # {}
        PROVE  /\ H(s)[s] = f[Any(s)] + H(s \ {Any(s)})[s \ {Any(s)}]
    <2>1. Any(s) \in s
      BY <1>3, AnyIsIn
    <2>2. s \ {Any(s)} \in SUBSET t /\ s \ {Any(s)} # t
      BY <2>1
    <2>3. IsFiniteSet(s)
      BY FS_Subset
    <2> HIDE DEF H
    <2>4. H(s)[s \ {Any(s)}] = H(s \ {Any(s)})[s \ {Any(s)}]
      <3>1. IsSum(H(s), f, s) /\ IsSum(H(s \ {Any(s)}), f, s \ {Any(s)})
        BY <1>2, <1>3, <2>2
      <3>2. \A r \in SUBSET (s \cap (s \ {Any(s)})) : H(s)[r] = H(s \ {Any(s)})[r]
        <4> DEFINE v == s \ {Any(s)}
        <4> HIDE DEF v
        <4>1. IsSum(H(v), f, v)
          BY <3>1 DEF v
        <4>2. \A r \in SUBSET (s \cap v) : H(s)[r] = H(v)[r]
          BY <2>3, <3>1, <4>1, OneSum
        <4> QED BY <4>2 DEF v
      <3>3. s \ {Any(s)} \in SUBSET (s \cap (s \ {Any(s)}))
        OBVIOUS
      <3> QED BY <3>2, <3>3
    <2>5. H(s)[s] = f[Any(s)] + H(s)[s \ {Any(s)}]
      BY <1>2, <1>3 DEF IsSum
    <2> QED BY <2>4, <2>5
  <1>4. ASSUME NEW s \in SUBSET t, s # t PROVE H(s)[s] \in Int /\ (s = {} => H(s)[s] = 0)
    <2> HIDE DEF H
    <2> QED BY <1>2, <1>4 DEF IsSum
  <1> HIDE DEF H
  <1> DEFINE total == IF t = {} THEN 0 ELSE f[Any(t)] + H(t \ {Any(t)})[t \ {Any(t)}]
             g == [s \in SUBSET t |-> IF s = t THEN total ELSE H(s)[s]]
  <1>5. total \in Int
    <2>1. CASE t = {}
      BY <2>1
    <2>2. CASE t # {}
      <3>1. Any(t) \in t
        BY <2>2, AnyIsIn
      <3>2. t \ {Any(t)} \in SUBSET t /\ t \ {Any(t)} # t
        BY <3>1
      <3> QED BY <3>1, <3>2, <1>4
    <2> QED BY <2>1, <2>2
  <1>6. g \in [SUBSET t -> Int]
    BY <1>4, <1>5
  <1>7. ASSUME NEW s \in SUBSET t
        PROVE  g[s] = IF s = {} THEN 0 ELSE f[Any(s)] + g[s \ {Any(s)}]
    <2>1. CASE s = {}
      BY <2>1, <1>4
    <2>2. CASE s # {}
      <3>1. Any(s) \in s
        BY <2>2, AnyIsIn
      <3>2. s \ {Any(s)} \in SUBSET t /\ s \ {Any(s)} # t
        BY <3>1
      <3>3. g[s \ {Any(s)}] = H(s \ {Any(s)})[s \ {Any(s)}]
        BY <3>2
      <3>4. CASE s = t
        BY <2>2, <3>3, <3>4
      <3>5. CASE s # t
        BY <2>2, <3>3, <3>5, <1>3
      <3> QED BY <3>4, <3>5
    <2> QED BY <2>1, <2>2
  <1>8. IsSum(g, f, t)
    BY <1>6, <1>7 DEF IsSum
  <1> QED BY <1>8

LEMMA SumIsSum ==
    ASSUME NEW U, IsFiniteSet(U), NEW f \in [U -> Int], NEW S \in SUBSET U
    PROVE  \E g : IsSum(g, f, S) /\ SumFunctionOnSet(f, S) = g[S]
  <1>1. PICK g : IsSum(g, f, S)
    BY SumExists
  <1> DEFINE it == CHOOSE iter : iter = [s \in SUBSET S |->
                      IF s = {} THEN 0 ELSE f[CHOOSE x \in s : TRUE] + iter[s \ {CHOOSE x \in s : TRUE}]]
  <1>2. SumFunctionOnSet(f, S) = it[S]
    BY DEF SumFunctionOnSet, FoldFunctionOnSet, MapThenFoldSet
  <1>3. g = [s \in SUBSET S |->
                      IF s = {} THEN 0 ELSE f[CHOOSE x \in s : TRUE] + g[s \ {CHOOSE x \in s : TRUE}]]
    BY <1>1 DEF IsSum, Any
  <1>4. it = [s \in SUBSET S |->
                      IF s = {} THEN 0 ELSE f[CHOOSE x \in s : TRUE] + it[s \ {CHOOSE x \in s : TRUE}]]
    BY <1>3, Zenon
  <1> HIDE DEF it
  <1>5. \A s \in SUBSET S : it[s] = IF s = {} THEN 0 ELSE f[Any(s)] + it[s \ {Any(s)}]
    BY <1>4 DEF Any
  <1>6. \A s \in SUBSET S : it[s] = g[s]
    <2> DEFINE T == {s \in SUBSET S : it[s] # g[s]}
    <2> SUFFICES ASSUME T # {} PROVE FALSE
      OBVIOUS
    <2>1. PICK s \in T : \A y \in T : y \subseteq s => y = s
      <3>1. T \subseteq SUBSET U
        OBVIOUS
      <3> HIDE DEF T
      <3> QED BY <3>1, SmallestSubset
    <2>2. s # {}
      BY <1>1, <1>5 DEF IsSum
    <2>3. Any(s) \in s
      BY <2>2, AnyIsIn
    <2>4. s \ {Any(s)} \notin T
      BY <2>1, <2>3
    <2>5. it[s \ {Any(s)}] = g[s \ {Any(s)}]
      BY <2>4
    <2> QED BY <1>1, <1>5, <2>2, <2>5 DEF IsSum
  <1> QED BY <1>1, <1>2, <1>6
-----------------------------------------------------------------------------
(* One function has all the sums of f over the subsets of U. *)
LEMMA AllSums ==
    ASSUME NEW U, IsFiniteSet(U), NEW f \in [U -> Int]
    PROVE  \E g : IsSum(g, f, U) /\ \A S \in SUBSET U : SumFunctionOnSet(f, S) = g[S]
  <1>1. PICK g : IsSum(g, f, U)
    BY SumExists
  <1>2. ASSUME NEW S \in SUBSET U PROVE SumFunctionOnSet(f, S) = g[S]
    <2>1. PICK h : IsSum(h, f, S) /\ SumFunctionOnSet(f, S) = h[S]
      BY SumIsSum
    <2>2. \A s \in SUBSET (U \cap S) : g[s] = h[s]
      BY <1>1, <2>1, OneSum
    <2> QED BY <2>1, <2>2
  <1> QED BY <1>1, <1>2

LEMMA SumType ==
    ASSUME NEW U, IsFiniteSet(U), NEW f \in [U -> Int], NEW S \in SUBSET U
    PROVE  SumFunctionOnSet(f, S) \in Int
  <1>1. PICK g : IsSum(g, f, U) /\ \A s \in SUBSET U : SumFunctionOnSet(f, s) = g[s]
    BY AllSums
  <1> QED BY <1>1 DEF IsSum

LEMMA SumEmpty ==
    ASSUME NEW U, IsFiniteSet(U), NEW f \in [U -> Int]
    PROVE  SumFunctionOnSet(f, {}) = 0
  <1>1. PICK g : IsSum(g, f, U) /\ \A s \in SUBSET U : SumFunctionOnSet(f, s) = g[s]
    BY AllSums
  <1>2. {} \in SUBSET U
    OBVIOUS
  <1> QED BY <1>1, <1>2 DEF IsSum

(* The order in which the elements are added does not matter. *)
LEMMA SumRemove ==
    ASSUME NEW U, IsFiniteSet(U), NEW f \in [U -> Int], NEW S \in SUBSET U, NEW x \in S
    PROVE  SumFunctionOnSet(f, S) = f[x] + SumFunctionOnSet(f, S \ {x})
  <1>1. PICK g : IsSum(g, f, U) /\ \A s \in SUBSET U : SumFunctionOnSet(f, s) = g[s]
    BY AllSums
  <1> DEFINE T == {s \in SUBSET U : \E y \in s : g[s] # f[y] + g[s \ {y}]}
  <1>2. ASSUME T # {} PROVE FALSE
    <2>1. PICK s \in T : \A y \in T : y \subseteq s => y = s
      <3>1. T \subseteq SUBSET U
        OBVIOUS
      <3> HIDE DEF T
      <3> QED BY <1>2, <3>1, SmallestSubset
    <2>2. PICK y \in s : g[s] # f[y] + g[s \ {y}]
      OBVIOUS
    <2> DEFINE p == Any(s)
    <2>3. p \in s
      BY AnyIsIn
    <2>4. g[s] = f[p] + g[s \ {p}]
      BY <1>1, <2>3 DEF IsSum
    <2> HIDE DEF p
    <2>5. p # y
      BY <2>2, <2>4
    <2>6. /\ s \ {p} \in SUBSET U /\ s \ {p} \notin T
          /\ s \ {y} \in SUBSET U /\ s \ {y} \notin T
      BY <2>1, <2>3
    <2>7. g[s \ {p}] = f[y] + g[(s \ {p}) \ {y}]
      BY <2>5, <2>6
    <2>8. g[s \ {y}] = f[p] + g[(s \ {y}) \ {p}]
      BY <2>3, <2>5, <2>6
    <2>9. (s \ {p}) \ {y} = (s \ {y}) \ {p} /\ (s \ {p}) \ {y} \in SUBSET U
      OBVIOUS
    <2>10. f[p] \in Int /\ f[y] \in Int /\ g[(s \ {p}) \ {y}] \in Int
      BY <1>1, <2>3, <2>9 DEF IsSum
    <2>11. g[s \ {y}] = f[p] + g[(s \ {p}) \ {y}]
      BY <2>8, <2>9
    <2>12. \A a, b, c \in Int : a + (b + c) = b + (a + c)
      OBVIOUS
    <2>13. g[s] = f[y] + g[s \ {y}]
      BY <2>4, <2>7, <2>10, <2>11, <2>12
    <2> QED BY <2>2, <2>13
  <1>3. g[S] = f[x] + g[S \ {x}]
    BY <1>2
  <1> QED BY <1>1, <1>3

(* Two sums, term by term. *)
LEMMA SumLeq ==
    ASSUME NEW U, IsFiniteSet(U), NEW f \in [U -> Int], NEW h \in [U -> Int],
           NEW S \in SUBSET U, \A x \in S : f[x] <= h[x]
    PROVE  SumFunctionOnSet(f, S) <= SumFunctionOnSet(h, S)
  <1> DEFINE F(s) == SumFunctionOnSet(f, s)
             H(s) == SumFunctionOnSet(h, s)
             T == {s \in SUBSET S : ~(F(s) <= H(s))}
  <1>1. F({}) = 0 /\ H({}) = 0
    BY SumEmpty
  <1>2. ASSUME NEW s \in SUBSET S, NEW x \in s
        PROVE  /\ F(s) = f[x] + F(s \ {x}) /\ H(s) = h[x] + H(s \ {x})
               /\ F(s \ {x}) \in Int /\ H(s \ {x}) \in Int
    <2>1. s \in SUBSET U /\ s \ {x} \in SUBSET U
      OBVIOUS
    <2>2. F(s) = f[x] + F(s \ {x}) /\ H(s) = h[x] + H(s \ {x})
      BY <2>1, SumRemove
    <2>3. F(s \ {x}) \in Int /\ H(s \ {x}) \in Int
      BY <2>1, SumType
    <2> QED BY <2>2, <2>3
  <1> HIDE DEF F, H
  <1> SUFFICES ASSUME T # {} PROVE FALSE
    BY DEF F, H
  <1>3. PICK s \in T : \A y \in T : y \subseteq s => y = s
    <2>1. T \subseteq SUBSET U
      OBVIOUS
    <2> HIDE DEF T
    <2> QED BY <2>1, SmallestSubset
  <1>4. PICK x : x \in s
    <2>1. {} \notin T
      BY <1>1
    <2> HIDE DEF T
    <2> QED BY <1>3, <2>1
  <1>5. s \ {x} \notin T
    BY <1>3, <1>4
  <1>6. F(s \ {x}) <= H(s \ {x}) /\ f[x] <= h[x] /\ f[x] \in Int /\ h[x] \in Int
    BY <1>4, <1>5
  <1> QED BY <1>2, <1>3, <1>4, <1>6

LEMMA SumSame ==
    ASSUME NEW U, IsFiniteSet(U), NEW f \in [U -> Int], NEW h \in [U -> Int],
           NEW S \in SUBSET U, \A x \in S : f[x] = h[x]
    PROVE  SumFunctionOnSet(f, S) = SumFunctionOnSet(h, S)
  <1>1. \A x \in S : f[x] <= h[x] /\ h[x] <= f[x]
    OBVIOUS
  <1>2. /\ SumFunctionOnSet(f, S) <= SumFunctionOnSet(h, S)
        /\ SumFunctionOnSet(h, S) <= SumFunctionOnSet(f, S)
    BY <1>1, SumLeq
  <1>3. SumFunctionOnSet(f, S) \in Int /\ SumFunctionOnSet(h, S) \in Int
    BY SumType
  <1> QED BY <1>2, <1>3

(* A sum of nothing but zeros, and one without negative terms. *)
LEMMA SumZero ==
    ASSUME NEW U, IsFiniteSet(U), NEW f \in [U -> Int], NEW S \in SUBSET U,
           \A x \in S : f[x] = 0
    PROVE  SumFunctionOnSet(f, S) = 0
  <1> DEFINE F(s) == SumFunctionOnSet(f, s)
             T == {s \in SUBSET S : F(s) # 0}
  <1>1. F({}) = 0
    BY SumEmpty
  <1>2. ASSUME NEW s \in SUBSET S, NEW x \in s PROVE F(s) = f[x] + F(s \ {x})
    BY SumRemove, s \in SUBSET U
  <1> HIDE DEF F
  <1> SUFFICES ASSUME T # {} PROVE FALSE
    BY DEF F
  <1>3. PICK s \in T : \A y \in T : y \subseteq s => y = s
    <2>1. T \subseteq SUBSET U
      OBVIOUS
    <2> HIDE DEF T
    <2> QED BY <2>1, SmallestSubset
  <1>4. PICK x : x \in s
    <2>1. {} \notin T
      BY <1>1
    <2> HIDE DEF T
    <2> QED BY <1>3, <2>1
  <1>5. s \ {x} \notin T
    BY <1>3, <1>4
  <1> QED BY <1>2, <1>3, <1>4, <1>5

LEMMA SumNat ==
    ASSUME NEW U, IsFiniteSet(U), NEW f \in [U -> Int], NEW S \in SUBSET U,
           \A x \in S : f[x] \in Nat
    PROVE  SumFunctionOnSet(f, S) \in Nat
  <1> DEFINE z == [x \in U |-> 0]
  <1>1. z \in [U -> Int] /\ \A x \in S : z[x] = 0 /\ z[x] <= f[x]
    OBVIOUS
  <1> HIDE DEF z
  <1>2. SumFunctionOnSet(z, S) = 0
    BY <1>1, SumZero
  <1>3. SumFunctionOnSet(z, S) <= SumFunctionOnSet(f, S)
    BY <1>1, SumLeq
  <1> QED BY <1>2, <1>3, SumType

(* Elements that add nothing can be left out. *)
LEMMA SumRestrict ==
    ASSUME NEW U, IsFiniteSet(U), NEW f \in [U -> Int], NEW S \in SUBSET U, NEW V \in SUBSET S,
           \A x \in S : x \notin V => f[x] = 0
    PROVE  SumFunctionOnSet(f, S) = SumFunctionOnSet(f, V)
  <1> DEFINE F(s) == SumFunctionOnSet(f, s)
             T == {s \in SUBSET S : V \subseteq s /\ F(s) # F(V)}
  <1>1. ASSUME NEW s \in SUBSET S, NEW x \in s PROVE F(s) = f[x] + F(s \ {x})
    BY SumRemove, s \in SUBSET U
  <1>2. ASSUME NEW s \in SUBSET S PROVE F(s) \in Int
    BY SumType, s \in SUBSET U
  <1> HIDE DEF F
  <1> SUFFICES ASSUME T # {} PROVE FALSE
    BY DEF F
  <1>3. PICK s \in T : \A y \in T : y \subseteq s => y = s
    <2>1. T \subseteq SUBSET U
      OBVIOUS
    <2> HIDE DEF T
    <2> QED BY <2>1, SmallestSubset
  <1>4. s \in SUBSET S /\ V \subseteq s /\ F(s) # F(V)
    OBVIOUS
  <1>5. PICK x : x \in s /\ x \notin V
    BY <1>4
  <1>6. s \ {x} \notin T
    BY <1>3, <1>5
  <1>7. F(s \ {x}) = F(V)
    BY <1>4, <1>5, <1>6
  <1>8. F(s) = f[x] + F(s \ {x}) /\ f[x] = 0 /\ F(s \ {x}) \in Int
    BY <1>1, <1>2, <1>4, <1>5
  <1> QED BY <1>4, <1>7, <1>8

-----------------------------------------------------------------------------
(* What is on the shelves and what is lent, as sums. *)

Units == [r \in Rows |-> pool[r].qty]
Loans == [a \in Requests |-> out[a].qty]

LEMMA SumsTyped ==
    ASSUME StockTypeOK
    PROVE  /\ IsFiniteSet(Rows) /\ Units \in [Rows -> Int]
           /\ IsFiniteSet(Requests) /\ Loans \in [Requests -> Int]
           /\ \A a \in Requests : out[a].qty \in Nat
<1>1. IsFiniteSet(Rows) /\ IsFiniteSet(Requests)
  BY StockConstants, FS_Interval DEF Rows, Requests
<1>2. Units \in [Rows -> Int]
  BY DEF Units, StockTypeOK
<1>3. \A a \in Requests : out[a].qty \in Nat
  BY StockConstants DEF StockTypeOK
<1>4. Loans \in [Requests -> Int]
  BY <1>3 DEF Loans
<1> QED BY <1>1, <1>2, <1>3, <1>4

LEMMA ShelvedOne ==
    ASSUME StockTypeOK, NEW r \in Rows
    PROVE  Shelved({}) = 0 /\ Shelved({r}) = pool[r].qty
<1>1. IsFiniteSet(Rows) /\ Units \in [Rows -> Int]
  BY SumsTyped
<1>2. Units[r] = pool[r].qty /\ pool[r].qty \in Int
  BY DEF Units, StockTypeOK
<1>3. SumFunctionOnSet(Units, {}) = 0
  BY <1>1, SumEmpty
<1>4. SumFunctionOnSet(Units, {r}) = Units[r] + SumFunctionOnSet(Units, {r} \ {r})
  <2>1. {r} \in SUBSET Rows /\ r \in {r}
    OBVIOUS
  <2> HIDE DEF Units
  <2> QED BY <1>1, <2>1, SumRemove
<1>5. {r} \ {r} = {}
  OBVIOUS
<1>6. SumFunctionOnSet(Units, {r}) = pool[r].qty
  BY <1>2, <1>3, <1>4, <1>5
<1> QED BY <1>3, <1>6 DEF Shelved, Units

(* One pool row becomes new. *)
Becomes(r, new) == pool' = [pool EXCEPT ![r] = new]

(* _update_stock changes one row: it makes the first one of the location,   *)
(* or adds to the only one.                                                 *)
AdjustedTo(l, diff, r, new) ==
    /\ Becomes(r, new) /\ new \in PoolRow /\ new.at = l
    /\ ~Overallocate => new.qty >= 0
    /\ \/ RowsAt(l) = {} /\ pool[r].state = "none" /\ new.state = "live" /\ new.qty = diff
       \/ /\ RowsAt(l) = {r} /\ new.state = pool[r].state /\ new.qty = pool[r].qty + diff

LEMMA AdjustsOneRow ==
    ASSUME StockTypeOK, NEW w, NEW l \in Locations, NEW diff \in Int,
           Adjustable(l, diff), Adjusted(w, l, diff)
    PROVE  \E r \in Rows : \E new : AdjustedTo(l, diff, r, new)
<1>0. pool \in [Rows -> PoolRow] /\ l \in Sources /\ (~Overallocate => \A r \in Rows : pool[r].qty >= 0)
  BY DEF StockTypeOK, PoolRow, Sources
<1>1. RowsAt(l) \subseteq Rows /\ IsFiniteSet(RowsAt(l))
  BY SumsTyped, FS_Subset DEF RowsAt
<1>2. CASE RowsAt(l) = {}
  <2>1. PICK r \in Unused : pool' = [pool EXCEPT ![r] = [state |-> "live", at |-> l, qty |-> diff]]
    BY <1>2 DEF Adjusted, NewPool
  <2> DEFINE new == [state |-> "live", at |-> l, qty |-> diff]
  <2>2. r \in Rows /\ pool[r].state = "none"
    BY DEF Unused
  <2>3. new \in PoolRow /\ new.at = l /\ new.state = "live" /\ new.qty = diff
    BY <1>0 DEF PoolRow
  <2>4. Shelved(RowsAt(l)) = 0
    BY <1>2, <2>2, ShelvedOne
  <2>5. ~Overallocate => diff >= 0
    BY <2>4 DEF Adjustable
  <2>6. Becomes(r, new)
    BY <2>1 DEF Becomes
  <2> HIDE DEF new
  <2> QED BY <1>2, <2>2, <2>3, <2>5, <2>6 DEF AdjustedTo
<1>3. CASE RowsAt(l) # {}
  <2>1. PICK r \in Rows : RowsAt(l) = {r}
    <3>1. Cardinality(RowsAt(l)) \in Nat /\ Cardinality(RowsAt(l)) # 0 /\ Cardinality(RowsAt(l)) <= 1
      BY <1>1, <1>3, FS_CardinalityType, FS_EmptySet DEF Adjustable
    <3>2. Cardinality(RowsAt(l)) = 1
      BY <3>1
    <3>3. \E r : RowsAt(l) = {r}
      BY <1>1, <3>2, FS_Singleton
    <3> QED BY <1>1, <3>3
  <2> DEFINE new == [pool[r] EXCEPT !.qty = @ + diff]
  <2>2. pool[r] \in PoolRow /\ pool[r].at = l
    BY <1>0, <2>1 DEF RowsAt
  <2>3. /\ new \in PoolRow /\ new.at = l /\ new.state = pool[r].state
        /\ new.qty = pool[r].qty + diff
    BY <2>2 DEF PoolRow
  <2>4. Becomes(r, new)
    <3>1. pool' = [s \in Rows |-> IF s \in RowsAt(l) THEN [pool[s] EXCEPT !.qty = @ + diff] ELSE pool[s]]
      BY <1>3 DEF Adjusted
    <3>2. \A s \in Rows : pool'[s] = IF s = r THEN new ELSE pool[s]
      BY <2>1, <3>1
    <3> HIDE DEF new
    <3>3. DOMAIN pool' = Rows /\ pool' = [s \in Rows |-> pool'[s]]
      BY <3>1
    <3>4. [pool EXCEPT ![r] = new] = [s \in Rows |-> IF s = r THEN new ELSE pool[s]]
      BY <1>0
    <3> QED BY <3>2, <3>3, <3>4 DEF Becomes
  <2>5. Shelved(RowsAt(l)) = pool[r].qty /\ pool[r].qty \in Int
    BY <2>1, <2>2, ShelvedOne DEF PoolRow
  <2>6. ~Overallocate => new.qty >= 0
    <3>1. ~Overallocate => pool[r].qty >= 0 /\ (diff < 0 => pool[r].qty + diff >= 0)
      BY <1>0, <2>5 DEF Adjustable
    <3> HIDE DEF new
    <3> QED BY <2>3, <2>5, <3>1
  <2> HIDE DEF new
  <2> QED BY <2>1, <2>3, <2>4, <2>6 DEF AdjustedTo
<1> QED BY <1>2, <1>3

-----------------------------------------------------------------------------
(* The tables are written. *)

(* Only live rows are locked. *)
LEMMA OthersAreFree ==
    ASSUME StockInv, NEW r \in Rows, pool[r].state # "live"
    PROVE  lock[Pool(r)] = Nobody
BY LockNames DEF StockInv, StockTypeOK, LocksOf, HasPool

PoolsFit ==
    /\ pool \in [Rows -> PoolRow]
    /\ ~Overallocate => \A r \in Rows : pool[r].qty >= 0

LEMMA OneRowWritten ==
    ASSUME StockInv, NEW w \in Workers \cup {Nobody}, NEW r \in Rows, NEW new \in PoolRow,
           Becomes(r, new), new.state # "none", new.at \in Locations,
           ~Overallocate => new.qty >= 0,
           \/ new.state = pool[r].state /\ new.at = pool[r].at
           \/ lock[Pool(r)] \in {w, Nobody}
    PROVE  PoolsFit' /\ PoolsHavePlace' /\ \A s \in Rows : PoolStays(w, s)
<1>1. pool \in [Rows -> PoolRow] /\ (~Overallocate => \A s \in Rows : pool[s].qty >= 0)
  BY DEF StockInv, StockTypeOK, PoolRow
<1>2. /\ pool' \in [Rows -> PoolRow] /\ pool'[r] = new
      /\ \A s \in Rows : s # r => pool'[s] = pool[s]
  BY <1>1 DEF Becomes
<1>3. PoolsFit'
  BY <1>1, <1>2 DEF PoolsFit
<1>4. PoolsHavePlace'
  BY <1>2 DEF StockInv, PoolsHavePlace
<1>5. \A s \in Rows : PoolStays(w, s)
  BY <1>2 DEF PoolStays
<1> QED BY <1>3, <1>4, <1>5

(* A transaction ends that writes the pools, but no assignment. *)
LEMMA EndsWithPools ==
    ASSUME StockInv, NEW w \in Workers, tx[w] # Idle, End(w),
           PoolsFit', PoolsHavePlace', \A s \in Rows : PoolStays(w, s),
           UNCHANGED <<out, served, edits>>,
           archived' = archived \/ (lock[Item] = w /\ archived' = TRUE /\ Open = {}),
           brought' \in [Locations -> Int], edited' \subseteq Locations, bypassed' \in BOOLEAN
    PROVE  StockInv'
<1>1. /\ lock' \in [Lockable -> Workers \cup {Nobody}]
      /\ tx' \in [Workers -> Request \cup {Idle}]
  BY EndFacts DEF StockInv
<1>2. StockTypeOK'
  BY <1>1 DEF StockInv, StockTypeOK, PoolsFit, PoolRow
<1>3. ArchivedNothingOut'
  BY DEF StockInv, ArchivedNothingOut, Open
<1> QED BY <1>2, <1>3, Ends DEF RowStays

(* A single step, which finds the rows it changes unlocked. *)
LEMMA SingleStep ==
    ASSUME StockInv, UNCHANGED <<out, lock, tx, served>>,
           PoolsFit', PoolsHavePlace', \A s \in Rows : PoolStays(Nobody, s),
           archived' = archived \/ (lock[Item] = Nobody /\ archived' = FALSE),
           edits' \in 0 .. MaxEdits, brought' \in [Locations -> Int],
           edited' \subseteq Locations, bypassed' \in BOOLEAN
    PROVE  StockInv'
<1>1. StockTypeOK'
  BY DEF StockInv, StockTypeOK, PoolsFit, PoolRow
<1>2. Respects(Nobody)
  <2>1. served' \in 0 .. MaxRequests /\ served <= served'
    BY DEF StockInv, StockTypeOK
  <2> QED BY <2>1 DEF Respects, OthersStay, RowStays
<1>3. \A v \in Workers : Knows(v)' /\ LocksOf(v)'
  BY <1>2, OthersKnow, StockConstants
<1>4. Numbered'
  BY DEF StockInv, Numbered
<1>5. ArchivedNothingOut'
  BY DEF StockInv, ArchivedNothingOut, Open
<1> QED BY <1>1, <1>3, <1>4, <1>5 DEF StockInv

(* What SaveWith writes when it is not refused. *)
SaveWrites(w, diff, row, bypass) ==
    /\ End(w)
    /\ out' = [out EXCEPT ![tx[w].n] = row]
    /\ bypassed' = (bypassed \/ bypass)
    /\ UNCHANGED <<archived, served, edits, brought, edited>>
    /\ \/ tx[w].at = NoLocation /\ pool' = pool
       \/ /\ tx[w].at \in Locations
          /\ \E r \in Rows : \E new : AdjustedTo(tx[w].at, diff, r, new)

LEMMA SaveIsWhole ==
    ASSUME StockInv, NEW w \in Workers, tx[w] # Idle, NEW diff \in Int, NEW row,
           NEW bypass, SaveWith(w, diff, row, bypass), ~Refuse(w)
    PROVE  SaveWrites(w, diff, row, bypass)
<1>1. tx[w].at \in Locations \/ tx[w].at = NoLocation
  BY RequestRow DEF StockInv, Sources
<1>2. /\ End(w) /\ out' = [out EXCEPT ![tx[w].n] = row] /\ bypassed' = (bypassed \/ bypass)
      /\ UNCHANGED <<archived, served, edits, brought, edited>>
  BY DEF SaveWith
<1>3. CASE tx[w].at = NoLocation
  BY <1>2, <1>3 DEF SaveWith, SaveWrites
<1>4. CASE tx[w].at \in Locations
  <2>1. Adjustable(tx[w].at, diff) /\ Adjusted(w, tx[w].at, diff)
    BY <1>4, StockConstants DEF SaveWith
  <2>2. \E r \in Rows : \E new : AdjustedTo(tx[w].at, diff, r, new)
    BY <1>4, <2>1, AdjustsOneRow DEF StockInv
  <2> QED BY <1>2, <1>4, <2>2 DEF SaveWrites
<1> QED BY <1>1, <1>3, <1>4

LEMMA SaveKeeps ==
    ASSUME StockInv, NEW w \in Workers, tx[w] # Idle, NEW diff \in Int, NEW row \in OutRow,
           NEW bypass \in BOOLEAN, SaveWrites(w, diff, row, bypass), tx[w].n \in Requests,
           row.state = "open" => ~archived,
           RowStays(w, tx[w].n)
    PROVE  StockInv'
<1>1. End(w) /\ served' = served /\ archived' = archived
  BY DEF SaveWrites
<1>2. out' \in [Requests -> OutRow] /\ out'[tx[w].n] = row
      /\ \A a \in Requests : a # tx[w].n => out'[a] = out[a]
  BY DEF SaveWrites, StockInv, StockTypeOK, OutRow
<1>3. PoolsFit' /\ PoolsHavePlace' /\ \A s \in Rows : PoolStays(w, s)
  <2>1. CASE pool' = pool
    BY <2>1 DEF StockInv, StockTypeOK, PoolsFit, PoolRow, PoolsHavePlace, PoolStays
  <2>2. CASE \E r \in Rows : \E new : AdjustedTo(tx[w].at, diff, r, new) /\ tx[w].at \in Locations
    <3> PICK r \in Rows : \E new : AdjustedTo(tx[w].at, diff, r, new) /\ tx[w].at \in Locations
      BY <2>2
    <3> PICK new : AdjustedTo(tx[w].at, diff, r, new) /\ tx[w].at \in Locations
      OBVIOUS
    <3>1. /\ Becomes(r, new) /\ new \in PoolRow /\ new.at \in Locations
          /\ ~Overallocate => new.qty >= 0
      BY DEF AdjustedTo
    <3>2. /\ new.state # "none"
          /\ (new.state = pool[r].state /\ new.at = pool[r].at) \/ lock[Pool(r)] \in {w, Nobody}
      <4>1. CASE pool[r].state = "none" /\ new.state = "live"
        BY <4>1, OthersAreFree
      <4>2. CASE RowsAt(tx[w].at) = {r} /\ new.state = pool[r].state
        BY <4>2 DEF AdjustedTo, RowsAt
      <4> QED BY <4>1, <4>2 DEF AdjustedTo
    <3> QED BY <3>1, <3>2, OneRowWritten
  <2> QED BY <2>1, <2>2 DEF SaveWrites
<1>4. StockTypeOK'
  <2>1. /\ lock' \in [Lockable -> Workers \cup {Nobody}]
        /\ tx' \in [Workers -> Request \cup {Idle}]
    BY <1>1, EndFacts DEF StockInv
  <2>2. bypassed' \in BOOLEAN
    BY DEF SaveWrites, StockInv, StockTypeOK
  <2> QED BY <1>2, <1>3, <2>1, <2>2 DEF SaveWrites, StockInv, StockTypeOK, PoolsFit, PoolRow, OutRow
<1>5. ArchivedNothingOut'
  BY <1>1, <1>2 DEF StockInv, ArchivedNothingOut, Open
<1>6. \A a \in Requests : RowStays(w, a)
  BY <1>2 DEF RowStays
<1> QED BY <1>1, <1>3, <1>4, <1>5, <1>6, Ends

(* The three savers, with what they write. *)
LEMMA CheckoutRow ==
    ASSUME StockInv, NEW w \in Workers, Doing(w, "checkout", "save")
    PROVE  /\ tx[w] # Idle /\ tx[w].n \in Requests /\ -tx[w].qty \in Int /\ tx[w].qty \in Nat
           /\ [state |-> "open", from |-> tx[w].at, qty |-> tx[w].qty] \in OutRow
           /\ out[tx[w].n].state = "none" /\ lock[Item] = w /\ ~archived
           /\ tx[w].granted \in BOOLEAN
<1>1. /\ tx[w] \in Request /\ tx[w].qty \in 0 .. MaxQty /\ tx[w].at \in Sources /\ tx[w] # Idle
  BY RequestRow DEF StockInv, Doing
<1>2. tx[w].n \in Requests /\ out[tx[w].n].state = "none" /\ lock[Item] = w /\ ~archived
  BY DEF StockInv, Doing, Knows, CheckoutKnows, LocksOf, HasItem
<1>3. tx[w].granted \in BOOLEAN
  BY <1>1 DEF Request
<1>4. tx[w].qty \in Nat /\ -tx[w].qty \in Int
  BY <1>1, StockConstants
<1>5. [state |-> "open", from |-> tx[w].at, qty |-> tx[w].qty] \in OutRow
  BY <1>1 DEF OutRow
<1> QED BY <1>1, <1>2, <1>3, <1>4, <1>5

LEMMA AssignedRow ==
    ASSUME StockInv, NEW w \in Workers, NEW op \in {"return", "update"}, Doing(w, op, "save")
    PROVE  /\ tx[w] # Idle /\ tx[w].n \in Requests /\ tx[w].qty \in Nat
           /\ out[tx[w].n] \in OutRow /\ out[tx[w].n].qty \in Nat
           /\ out[tx[w].n].from = tx[w].at /\ Assigned(w, tx[w].n)
           /\ op = "update" => lock[Item] = w /\ ~archived
           /\ [out[tx[w].n] EXCEPT !.state = "returned"] \in OutRow
           /\ [out[tx[w].n] EXCEPT !.qty = tx[w].qty] \in OutRow
<1>1. /\ tx[w].qty \in 0 .. MaxQty /\ tx[w] # Idle
  BY RequestRow DEF StockInv, Doing
<1>2. /\ tx[w].n \in Requests /\ out[tx[w].n].from = tx[w].at /\ Assigned(w, tx[w].n)
      /\ op = "update" => lock[Item] = w /\ ~archived
  BY DEF StockInv, Doing, Knows, ReturnKnows, UpdateKnows, LocksOf, HasItem
<1>3. out[tx[w].n] \in OutRow
  BY <1>2 DEF StockInv, StockTypeOK, OutRow
<1>4. tx[w].qty \in Nat /\ out[tx[w].n].qty \in Nat
  BY <1>1, <1>3, StockConstants DEF OutRow
<1>5. /\ [out[tx[w].n] EXCEPT !.state = "returned"] \in OutRow
      /\ [out[tx[w].n] EXCEPT !.qty = tx[w].qty] \in OutRow
  BY <1>1, <1>3 DEF OutRow
<1> QED BY <1>1, <1>2, <1>3, <1>4, <1>5

CheckoutWrites(w) ==
    SaveWrites(w, -tx[w].qty, [state |-> "open", from |-> tx[w].at, qty |-> tx[w].qty],
               tx[w].granted)
ReturnWrites(w) ==
    SaveWrites(w, out[tx[w].n].qty, [out[tx[w].n] EXCEPT !.state = "returned"], FALSE)
UpdateWrites(w) ==
    SaveWrites(w, out[tx[w].n].qty - tx[w].qty, [out[tx[w].n] EXCEPT !.qty = tx[w].qty], FALSE)

LEMMA SaveCases ==
    ASSUME StockInv, NEW w \in Workers
    PROVE  /\ CheckoutSave(w) => Refuse(w) \/ CheckoutWrites(w)
           /\ ReturnSave(w) => Refuse(w) \/ ReturnWrites(w)
           /\ UpdateSave(w) => Refuse(w) \/ UpdateWrites(w)
<1>1. ASSUME CheckoutSave(w), ~Refuse(w) PROVE CheckoutWrites(w)
  <2>1. tx[w] # Idle /\ -tx[w].qty \in Int
    BY <1>1, CheckoutRow DEF CheckoutSave
  <2> QED BY <1>1, <2>1, SaveIsWhole DEF CheckoutSave, CheckoutWrites
<1>2. ASSUME ReturnSave(w), ~Refuse(w) PROVE ReturnWrites(w)
  <2> DEFINE row == [out[tx[w].n] EXCEPT !.state = "returned"]
             diff == out[tx[w].n].qty
  <2>1. tx[w] # Idle /\ diff \in Nat
    BY <1>2, AssignedRow DEF ReturnSave
  <2>2. SaveWith(w, diff, row, FALSE)
    BY <1>2 DEF ReturnSave
  <2>3. SUFFICES SaveWrites(w, diff, row, FALSE)
    BY DEF ReturnWrites
  <2> HIDE DEF row, diff
  <2>4. diff \in Int
    BY <2>1
  <2> QED BY <1>2, <2>1, <2>2, <2>4, SaveIsWhole
<1>3. ASSUME UpdateSave(w), ~Refuse(w) PROVE UpdateWrites(w)
  <2> DEFINE row == [out[tx[w].n] EXCEPT !.qty = tx[w].qty]
             diff == out[tx[w].n].qty - tx[w].qty
  <2>1. tx[w] # Idle /\ out[tx[w].n].qty \in Nat /\ tx[w].qty \in Nat
    BY <1>3, AssignedRow DEF UpdateSave
  <2>2. SaveWith(w, diff, row, FALSE)
    BY <1>3 DEF UpdateSave
  <2>3. SUFFICES SaveWrites(w, diff, row, FALSE)
    BY DEF UpdateWrites
  <2>4. diff \in Int
    BY <2>1
  <2> HIDE DEF row, diff
  <2> QED BY <1>3, <2>1, <2>2, <2>4, SaveIsWhole
<1> QED BY <1>1, <1>2, <1>3

LEMMA SavesKeep ==
    ASSUME StockInv, NEW w \in Workers, CheckoutSave(w) \/ ReturnSave(w) \/ UpdateSave(w)
    PROVE  StockInv'
<1>0. CASE Refuse(w)
  BY <1>0, RefuseKeeps DEF CheckoutSave, ReturnSave, UpdateSave, Doing
<1>1. CASE CheckoutSave(w) /\ CheckoutWrites(w)
  <2> DEFINE row == [state |-> "open", from |-> tx[w].at, qty |-> tx[w].qty]
  <2>1. /\ tx[w] # Idle /\ tx[w].n \in Requests /\ -tx[w].qty \in Int /\ row \in OutRow
        /\ out[tx[w].n].state = "none" /\ lock[Item] = w /\ ~archived /\ tx[w].granted \in BOOLEAN
    BY <1>1, CheckoutRow DEF CheckoutSave
  <2>2. SaveWrites(w, -tx[w].qty, row, tx[w].granted) /\ row.state = "open"
    BY <1>1 DEF CheckoutWrites
  <2> HIDE DEF row
  <2>3. out'[tx[w].n] = row
    BY <2>1, <2>2 DEF SaveWrites, StockInv, StockTypeOK
  <2>4. RowStays(w, tx[w].n)
    BY <1>1, <2>1, <2>2, <2>3 DEF RowStays, CheckoutSave, Doing
  <2> QED BY <2>1, <2>2, <2>4, SaveKeeps
<1>2. CASE ReturnSave(w) /\ ReturnWrites(w)
  <2> DEFINE row == [out[tx[w].n] EXCEPT !.state = "returned"]
  <2>0. Doing(w, "return", "save")
    BY <1>2 DEF ReturnSave
  <2>1. /\ tx[w] # Idle /\ tx[w].n \in Requests /\ out[tx[w].n].qty \in Nat /\ row \in OutRow
        /\ Assigned(w, tx[w].n) /\ out[tx[w].n] \in OutRow
    BY <2>0, AssignedRow
  <2>2. /\ SaveWrites(w, out[tx[w].n].qty, row, FALSE)
        /\ row.state = "returned" /\ row.from = out[tx[w].n].from
    BY <1>2, <2>1 DEF ReturnWrites, OutRow
  <2> HIDE DEF row
  <2>3. out'[tx[w].n] = row
    BY <2>1, <2>2 DEF SaveWrites, StockInv, StockTypeOK
  <2>4. RowStays(w, tx[w].n)
    BY <2>1, <2>2, <2>3 DEF RowStays
  <2>5. out[tx[w].n].qty \in Int /\ ~(row.state = "open")
    BY <2>1, <2>2
  <2> QED BY <2>1, <2>2, <2>4, <2>5, SaveKeeps
<1>3. CASE UpdateSave(w) /\ UpdateWrites(w)
  <2> DEFINE row == [out[tx[w].n] EXCEPT !.qty = tx[w].qty]
             diff == out[tx[w].n].qty - tx[w].qty
  <2>0. /\ tx[w] # Idle /\ tx[w].n \in Requests /\ row \in OutRow
        /\ out[tx[w].n].qty \in Nat /\ tx[w].qty \in Nat
        /\ Assigned(w, tx[w].n) /\ out[tx[w].n] \in OutRow /\ ~archived
    <3>1. Doing(w, "update", "save")
      BY <1>3 DEF UpdateSave
    <3> QED BY <3>1, AssignedRow
  <2>1. /\ tx[w] # Idle /\ tx[w].n \in Requests /\ diff \in Int /\ row \in OutRow
        /\ Assigned(w, tx[w].n) /\ out[tx[w].n] \in OutRow /\ ~archived
    BY <2>0
  <2>2. /\ SaveWrites(w, diff, row, FALSE)
        /\ row.state = out[tx[w].n].state /\ row.from = out[tx[w].n].from
    BY <1>3, <2>1 DEF UpdateWrites, OutRow
  <2> HIDE DEF row, diff
  <2>3. out'[tx[w].n] = row
    BY <2>1, <2>2 DEF SaveWrites, StockInv, StockTypeOK
  <2>4. RowStays(w, tx[w].n)
    BY <2>1, <2>2, <2>3 DEF RowStays, Assigned
  <2> QED BY <2>1, <2>2, <2>4, SaveKeeps
<1> QED BY <1>0, <1>1, <1>2, <1>3, SaveCases

-----------------------------------------------------------------------------
(* Receipts, the edit form and the single steps change one row. *)
NewRow(l, q) == [state |-> "live", at |-> l, qty |-> q]

LEMMA NewPoolRow ==
    ASSUME StockTypeOK, NEW l \in Locations, NEW q \in 0 .. MaxQty, NewPool(l, q)
    PROVE  /\ NewRow(l, q) \in PoolRow
           /\ NewRow(l, q).state = "live" /\ NewRow(l, q).at = l /\ NewRow(l, q).qty = q
           /\ \E r \in Rows : pool[r].state = "none" /\ Becomes(r, NewRow(l, q))
<1>1. NewRow(l, q) \in PoolRow
  BY StockConstants DEF NewRow, PoolRow, Sources
<1>2. NewRow(l, q).state = "live" /\ NewRow(l, q).at = l /\ NewRow(l, q).qty = q
  BY DEF NewRow
<1>3. \E r \in Rows : pool[r].state = "none" /\ Becomes(r, NewRow(l, q))
  BY DEF NewPool, Unused, Becomes, NewRow
<1> QED BY <1>1, <1>2, <1>3

(* A row that is changed in one column. *)
WithQty(r, q) == [pool[r] EXCEPT !.qty = q]
WithState(r, s) == [pool[r] EXCEPT !.state = s]

LEMMA ColumnWritten ==
    ASSUME StockTypeOK, NEW r \in Rows, NEW q \in Int,
           NEW s \in {"none", "live", "deleted", "archived", "purged"}
    PROVE  /\ WithQty(r, q) \in PoolRow /\ WithQty(r, q).state = pool[r].state
           /\ WithQty(r, q).at = pool[r].at /\ WithQty(r, q).qty = q
           /\ WithState(r, s) \in PoolRow /\ WithState(r, s).state = s
           /\ WithState(r, s).at = pool[r].at /\ WithState(r, s).qty = pool[r].qty
           /\ pool[r] \in PoolRow /\ pool[r].qty \in Int /\ pool[r].at \in Sources
<1>1. pool[r] \in PoolRow
  BY DEF StockTypeOK, PoolRow
<1> QED BY <1>1 DEF WithQty, WithState, PoolRow

LEMMA ReceivedRow ==
    ASSUME StockInv, NEW w \in Workers, ReceiveSave(w)
    PROVE  /\ tx[w] # Idle /\ tx[w].at \in Locations /\ tx[w].qty \in Nat
           /\ \E r \in Rows : /\ lock[Pool(r)] = w /\ pool[r].state = "live"
                              /\ pool[r].at = tx[w].at
                              /\ Becomes(r, WithQty(r, pool[r].qty + tx[w].qty))
<1>1. tx[w] # Idle /\ tx[w].op = "receive" /\ tx[w].step = "save" /\ tx[w].qty \in 0 .. MaxQty
  BY RequestRow DEF StockInv, ReceiveSave, Doing
<1>2. tx[w].at \in Locations /\ \E r \in Rows : lock[Pool(r)] = w
  BY <1>1 DEF StockInv, Knows, ReceiveKnows
<1>3. PICK r \in Rows : lock[Pool(r)] = w
  BY <1>2
<1>4. HasPool(w, r)
  BY <1>3 DEF StockInv, LocksOf
<1>5. /\ pool[r].state = "live" /\ pool[r].at = tx[w].at
      /\ \A s \in Rows : lock[Pool(s)] = w <=> s = r
  BY <1>1, <1>3, <1>4 DEF HasPool
<1> DEFINE new == WithQty(r, pool[r].qty + tx[w].qty)
<1>6. Becomes(r, new)
  <2>1. pool' = [s \in Rows |-> IF lock[Pool(s)] = w
                                THEN [pool[s] EXCEPT !.qty = @ + tx[w].qty] ELSE pool[s]]
    BY DEF ReceiveSave
  <2>2. \A s \in Rows : pool'[s] = IF s = r THEN new ELSE pool[s]
    BY <1>5, <2>1 DEF WithQty
  <2> HIDE DEF new
  <2>3. pool' = [s \in Rows |-> pool'[s]]
    BY <2>1
  <2>4. [pool EXCEPT ![r] = new] = [s \in Rows |-> IF s = r THEN new ELSE pool[s]]
    BY DEF StockInv, StockTypeOK
  <2> QED BY <2>2, <2>3, <2>4 DEF Becomes
<1> QED BY <1>1, <1>2, <1>3, <1>5, <1>6, StockConstants

LEMMA ReceivesKeep ==
    ASSUME StockInv, NEW w \in Workers, ReceiveNew(w) \/ ReceiveSave(w)
    PROVE  StockInv'
<1>0. StockTypeOK
  BY DEF StockInv
<1>1. tx[w] # Idle /\ tx[w].op = "receive" /\ tx[w].qty \in 0 .. MaxQty /\ tx[w].at \in Locations
  BY RequestRow DEF StockInv, ReceiveNew, ReceiveSave, Doing, Knows, ReceiveKnows
<1>2. /\ End(w) /\ UNCHANGED <<archived, out, served, edits, edited, bypassed>>
      /\ brought' = [brought EXCEPT ![tx[w].at] = @ + tx[w].qty]
  BY DEF ReceiveNew, ReceiveSave
<1>3. brought' \in [Locations -> Int] /\ edited' \subseteq Locations /\ bypassed' \in BOOLEAN
  <2>1. tx[w].qty \in Int
    BY <1>1, StockConstants
  <2> QED BY <1>0, <1>1, <1>2, <2>1 DEF StockTypeOK
<1>4. PoolsFit' /\ PoolsHavePlace' /\ \A s \in Rows : PoolStays(w, s)
  <2>1. CASE ReceiveNew(w)
    <3>1. PICK r \in Rows : pool[r].state = "none" /\ Becomes(r, NewRow(tx[w].at, tx[w].qty))
      BY <1>0, <1>1, <2>1, NewPoolRow DEF ReceiveNew
    <3> DEFINE new == NewRow(tx[w].at, tx[w].qty)
    <3>2. new \in PoolRow /\ new.state = "live" /\ new.at = tx[w].at /\ new.qty = tx[w].qty
      BY <1>0, <1>1, <2>1, NewPoolRow DEF ReceiveNew
    <3>3. lock[Pool(r)] = Nobody
      BY <3>1, OthersAreFree
    <3>4. Becomes(r, new)
      BY <3>1
    <3> HIDE DEF new
    <3>5. new.qty >= 0
      BY <1>1, <3>2, StockConstants
    <3> QED BY <1>1, <3>2, <3>3, <3>4, <3>5, OneRowWritten
  <2>2. CASE ReceiveSave(w)
    <3>1. PICK r \in Rows : /\ lock[Pool(r)] = w /\ pool[r].state = "live" /\ pool[r].at = tx[w].at
                            /\ Becomes(r, WithQty(r, pool[r].qty + tx[w].qty))
      BY <2>2, ReceivedRow
    <3> DEFINE q == pool[r].qty + tx[w].qty
               new == WithQty(r, q)
    <3>2. pool[r].qty \in Int /\ tx[w].qty \in Nat /\ (~Overallocate => pool[r].qty >= 0)
      BY <1>0, <1>1, StockConstants, ColumnWritten DEF StockTypeOK
    <3>3. q \in Int /\ (~Overallocate => q >= 0)
      BY <3>2
    <3>4. Becomes(r, new)
      BY <3>1
    <3> HIDE DEF q
    <3>5. new \in PoolRow /\ new.state = pool[r].state /\ new.at = pool[r].at /\ new.qty = q
      BY <1>0, <3>3, ColumnWritten
    <3> HIDE DEF new
    <3> QED BY <1>1, <3>1, <3>3, <3>4, <3>5, OneRowWritten
  <2> QED BY <2>1, <2>2
<1> QED BY <1>1, <1>2, <1>3, <1>4, EndsWithPools

(* The edit form names a row that was made, whatever became of it. *)
EditWrites(w, l, q) ==
    /\ tx[w] # Idle /\ tx[w].row \in Rows /\ pool[tx[w].row].state # "none"
    /\ FreeFor(w, Pool(tx[w].row)) /\ LiveAt(l) \ {tx[w].row} = {}
    /\ Becomes(tx[w].row, NewRow(l, q))
    /\ edited' = edited \cup {l, pool[tx[w].row].at}
    /\ bypassed' = TRUE /\ End(w)
    /\ UNCHANGED <<archived, out, served, edits, brought>>

LEMMA EditCases ==
    ASSUME StockInv, NEW w \in Workers, EditSave(w)
    PROVE  /\ tx[w] # Idle
           /\ Refuse(w) \/ \E l \in Locations, q \in 0 .. MaxQty : EditWrites(w, l, q)
<1>1. tx[w] # Idle /\ tx[w].row \in Rows /\ pool[tx[w].row].state # "none"
  BY DEF StockInv, EditSave, Doing, Knows, EditKnows
<1> QED BY <1>1 DEF EditSave, EditWrites, Becomes, NewRow

LEMMA EditKeeps ==
    ASSUME StockInv, NEW w \in Workers, EditSave(w)
    PROVE  StockInv'
<1>0. StockTypeOK /\ tx[w] # Idle
  BY EditCases DEF StockInv
<1>1. CASE Refuse(w)
  BY <1>0, <1>1, RefuseKeeps
<1>2. CASE \E l \in Locations, q \in 0 .. MaxQty : EditWrites(w, l, q)
  <2> PICK l \in Locations, q \in 0 .. MaxQty : EditWrites(w, l, q)
    BY <1>2
  <2> DEFINE r == tx[w].row
             new == NewRow(l, q)
  <2>1. r \in Rows /\ pool[r].state # "none" /\ lock[Pool(r)] \in {w, Nobody} /\ Becomes(r, new)
    BY DEF EditWrites, FreeFor
  <2>2. /\ new \in PoolRow /\ new.state = "live" /\ new.at = l /\ new.qty >= 0
    BY StockConstants DEF NewRow, PoolRow, Sources
  <2>3. edited' \subseteq Locations
    BY <1>0, <2>1 DEF EditWrites, StockInv, StockTypeOK, PoolsHavePlace
  <2> HIDE DEF new, r
  <2>4. PoolsFit' /\ PoolsHavePlace' /\ \A s \in Rows : PoolStays(w, s)
    BY <2>1, <2>2, OneRowWritten
  <2>5. brought' \in [Locations -> Int] /\ bypassed' \in BOOLEAN
    BY <1>0 DEF EditWrites, StockTypeOK
  <2> QED BY <1>0, <2>3, <2>4, <2>5, EndsWithPools DEF EditWrites
<1> QED BY <1>1, <1>2, EditCases

(* Archiving the item and restoring it change the state of many rows. *)
StatesMove(R, s) ==
    pool' = [r \in Rows |-> IF r \in R THEN WithState(r, s) ELSE pool[r]]

LEMMA ManyRowsWritten ==
    ASSUME StockInv, NEW w \in Workers \cup {Nobody}, NEW R \in SUBSET Rows,
           NEW s \in {"live", "archived"}, StatesMove(R, s),
           \A r \in R : pool[r].state # "none" /\ lock[Pool(r)] \in {w, Nobody}
    PROVE  PoolsFit' /\ PoolsHavePlace' /\ \A r \in Rows : PoolStays(w, r)
<1>1. /\ pool \in [Rows -> PoolRow] /\ StockTypeOK
      /\ ~Overallocate => \A r \in Rows : pool[r].qty >= 0
      /\ \A r \in Rows : pool[r].state # "none" => pool[r].at \in Locations
  BY DEF StockInv, StockTypeOK, PoolRow, PoolsHavePlace
<1>2. \A r \in Rows : pool'[r] = IF r \in R THEN WithState(r, s) ELSE pool[r]
  BY DEF StatesMove
<1>3. \A r \in Rows : /\ WithState(r, s) \in PoolRow /\ WithState(r, s).state = s
                      /\ WithState(r, s).at = pool[r].at /\ WithState(r, s).qty = pool[r].qty
  BY <1>1, ColumnWritten
<1>4. PoolsFit'
  <2>1. pool' \in [Rows -> PoolRow]
    BY <1>1, <1>3 DEF StatesMove
  <2>2. \A r \in Rows : pool'[r].qty = pool[r].qty
    BY <1>2, <1>3
  <2> QED BY <1>1, <2>1, <2>2 DEF PoolsFit
<1>5. PoolsHavePlace'
  BY <1>1, <1>2, <1>3 DEF PoolsHavePlace
<1>6. \A r \in Rows : PoolStays(w, r)
  BY <1>2, <1>3 DEF PoolStays
<1> QED BY <1>4, <1>5, <1>6

LEMMA ArchiveCommitFacts ==
    ASSUME StockInv, NEW w \in Workers, ArchiveCommit(w)
    PROVE  /\ tx[w] # Idle /\ lock[Item] = w /\ Open = {} /\ ~archived
           /\ \E R \in SUBSET Rows : /\ StatesMove(R, "archived")
                                     /\ \A r \in R : pool[r].state = "live" /\ lock[Pool(r)] = w
<1>1. tx[w] # Idle /\ lock[Item] = w /\ Open = {} /\ ~archived
  BY DEF StockInv, ArchiveCommit, Doing, Knows, ArchiveKnows, LocksOf, HasItem
<1> DEFINE R == {r \in Rows : lock[Pool(r)] = w}
<1>2. \A r \in R : pool[r].state = "live" /\ lock[Pool(r)] = w
  BY DEF StockInv, LocksOf, HasPool
<1>3. StatesMove(R, "archived")
  BY DEF ArchiveCommit, StatesMove, WithState
<1>4. R \in SUBSET Rows
  OBVIOUS
<1> QED BY <1>1, <1>2, <1>3, <1>4

LEMMA ArchiveCommitKeeps ==
    ASSUME StockInv, NEW w \in Workers, ArchiveCommit(w)
    PROVE  StockInv'
<1>1. tx[w] # Idle /\ lock[Item] = w /\ Open = {}
  BY ArchiveCommitFacts
<1>2. PICK R \in SUBSET Rows : /\ StatesMove(R, "archived")
                               /\ \A r \in R : pool[r].state = "live" /\ lock[Pool(r)] = w
  BY ArchiveCommitFacts
<1>3. PoolsFit' /\ PoolsHavePlace' /\ \A r \in Rows : PoolStays(w, r)
  BY <1>2, ManyRowsWritten
<1>4. brought' \in [Locations -> Int] /\ edited' \subseteq Locations /\ bypassed' \in BOOLEAN
  BY DEF ArchiveCommit, StockInv, StockTypeOK
<1>5. End(w) /\ UNCHANGED <<out, served, edits>> /\ archived' = TRUE
  BY DEF ArchiveCommit
<1> QED BY <1>1, <1>3, <1>4, <1>5, EndsWithPools

(* A single step on one row. *)
LEMMA SingleRow ==
    ASSUME StockInv, Edits, NEW r \in Rows, NEW new \in PoolRow, Becomes(r, new),
           new.state # "none", new.at \in Locations, ~Overallocate => new.qty >= 0,
           lock[Pool(r)] = Nobody, archived' = archived,
           brought' \in [Locations -> Int], bypassed' \in BOOLEAN
    PROVE  StockInv'
<1>1. PoolsFit' /\ PoolsHavePlace' /\ \A s \in Rows : PoolStays(Nobody, s)
  BY OneRowWritten
<1>2. edits' \in 0 .. MaxEdits
  BY StockConstants DEF Edits, StockInv, StockTypeOK
<1>3. UNCHANGED <<out, lock, tx, served, edited>> /\ edited' \subseteq Locations
  BY DEF Edits, StockInv, StockTypeOK
<1> QED BY <1>1, <1>2, <1>3, SingleStep

(* What the single steps write. *)
LEMMA CreatedRow ==
    ASSUME StockInv, NEW l \in Locations, NEW q \in 0 .. MaxQty, CreatePool(l, q)
    PROVE  /\ NewRow(l, q) \in PoolRow
           /\ NewRow(l, q).state = "live" /\ NewRow(l, q).at = l /\ NewRow(l, q).qty = q
           /\ \E r \in Rows : /\ pool[r].state = "none" /\ lock[Pool(r)] = Nobody
                              /\ Becomes(r, NewRow(l, q))
<1>1. StockTypeOK
  BY DEF StockInv
<1> QED BY <1>1, NewPoolRow, OthersAreFree DEF CreatePool

LEMMA AdjustedPool ==
    ASSUME StockInv, NEW r \in Rows, NEW diff \in {-1, 1}, AdjustPool(r, diff)
    PROVE  /\ pool[r].at \in Locations /\ pool[r].qty \in Int /\ diff \in Int
           /\ Becomes(r, WithQty(r, pool[r].qty + diff))
           /\ ~Overallocate => pool[r].qty + diff >= 0
<1>1. pool[r].at \in Locations /\ pool[r].qty \in Int /\ diff \in Int
  BY ColumnWritten DEF StockInv, PoolsHavePlace, AdjustPool
<1>2. Becomes(r, WithQty(r, pool[r].qty + diff))
  BY DEF AdjustPool, Becomes, WithQty
<1>3. ~Overallocate => pool[r].qty >= 0
  BY DEF StockInv, StockTypeOK
<1>4. diff < 0 => pool[r].qty > 0
  BY DEF AdjustPool
<1> QED BY <1>1, <1>2, <1>3, <1>4

(* A purged row is an empty row nobody looks at. *)
PurgedRow(r) == [WithState(r, "purged") EXCEPT !.qty = 0]

LEMMA BinnedRow ==
    ASSUME StockInv, NEW r \in Rows
    PROVE  /\ DeletePool(r) => Becomes(r, WithState(r, "deleted"))
           /\ RestorePool(r) => Becomes(r, WithState(r, "live"))
           /\ PurgePool(r) => Becomes(r, PurgedRow(r))
           /\ PurgedRow(r) \in PoolRow /\ PurgedRow(r).state = "purged"
           /\ PurgedRow(r).at = pool[r].at /\ PurgedRow(r).qty = 0
           /\ DeletePool(r) \/ RestorePool(r) \/ PurgePool(r) =>
                 pool[r].at \in Locations /\ lock[Pool(r)] = Nobody
<1>1. /\ DeletePool(r) => Becomes(r, WithState(r, "deleted"))
      /\ RestorePool(r) => Becomes(r, WithState(r, "live"))
  BY DEF DeletePool, RestorePool, Becomes, WithState
<1>2. PurgePool(r) => Becomes(r, PurgedRow(r))
  BY DEF PurgePool, Becomes, WithState, PurgedRow
<1>3. /\ PurgedRow(r) \in PoolRow /\ PurgedRow(r).state = "purged"
      /\ PurgedRow(r).at = pool[r].at /\ PurgedRow(r).qty = 0
  <2> DEFINE a == WithState(r, "purged")
  <2>1. a \in PoolRow /\ a.state = "purged" /\ a.at = pool[r].at
    BY ColumnWritten DEF StockInv
  <2>2. PurgedRow(r) = [a EXCEPT !.qty = 0]
    BY DEF PurgedRow
  <2> HIDE DEF a
  <2> QED BY <2>1, <2>2 DEF PoolRow
<1>4. DeletePool(r) \/ RestorePool(r) \/ PurgePool(r) =>
          pool[r].at \in Locations /\ lock[Pool(r)] = Nobody
  BY DEF StockInv, PoolsHavePlace, DeletePool, RestorePool, PurgePool
<1> QED BY <1>1, <1>2, <1>3, <1>4

LEMMA SingleStepsKeep ==
    ASSUME StockInv,
           \/ \E l \in Locations, q \in 0 .. MaxQty : CreatePool(l, q)
           \/ \E r \in Rows : \/ \E diff \in {-1, 1} : AdjustPool(r, diff)
                              \/ DeletePool(r) \/ RestorePool(r) \/ PurgePool(r)
    PROVE  StockInv'
<1>0. StockTypeOK /\ brought \in [Locations -> Int] /\ bypassed \in BOOLEAN
  BY DEF StockInv, StockTypeOK
<1>1. ASSUME NEW l \in Locations, NEW q \in 0 .. MaxQty, CreatePool(l, q) PROVE StockInv'
  <2> DEFINE new == NewRow(l, q)
  <2>1. PICK r \in Rows : lock[Pool(r)] = Nobody /\ Becomes(r, new)
    BY <1>1, CreatedRow
  <2>2. new \in PoolRow /\ new.state = "live" /\ new.at = l /\ new.qty = q
    BY <1>1, CreatedRow
  <2>3. q \in Nat
    BY StockConstants
  <2>4. /\ Edits /\ archived' = archived /\ bypassed' = bypassed
        /\ brought' = [brought EXCEPT ![l] = @ + q]
    BY <1>1 DEF CreatePool
  <2>5. brought' \in [Locations -> Int]
    BY <1>0, <2>3, <2>4
  <2> HIDE DEF new
  <2>6. new.qty >= 0
    BY <2>2, <2>3
  <2> QED BY <1>0, <2>1, <2>2, <2>4, <2>5, <2>6, SingleRow
<1>2. ASSUME NEW r \in Rows, NEW diff \in {-1, 1}, AdjustPool(r, diff) PROVE StockInv'
  <2> DEFINE q == pool[r].qty + diff
             new == WithQty(r, q)
  <2>1. /\ pool[r].at \in Locations /\ pool[r].qty \in Int /\ diff \in Int
        /\ ~Overallocate => q >= 0
        /\ Becomes(r, new)
    BY <1>2, AdjustedPool
  <2>2. q \in Int
    BY <2>1
  <2>3. /\ Edits /\ archived' = archived /\ bypassed' \in BOOLEAN /\ lock[Pool(r)] = Nobody
        /\ pool[r].state = "live" /\ brought' = [brought EXCEPT ![pool[r].at] = @ + diff]
    BY <1>0, <1>2 DEF AdjustPool
  <2>4. brought' \in [Locations -> Int]
    BY <1>0, <2>1, <2>3
  <2> HIDE DEF q
  <2>5. new \in PoolRow /\ new.state = pool[r].state /\ new.at = pool[r].at /\ new.qty = q
    BY <1>0, <2>2, ColumnWritten
  <2> HIDE DEF new
  <2> QED BY <2>1, <2>3, <2>4, <2>5, SingleRow
<1>3. ASSUME NEW r \in Rows, DeletePool(r) \/ RestorePool(r) PROVE StockInv'
  <2>1. PICK s \in {"live", "deleted"} : Becomes(r, WithState(r, s))
    BY <1>3, BinnedRow
  <2>2. /\ Edits /\ archived' = archived /\ brought' = brought /\ bypassed' \in BOOLEAN
        /\ pool[r].at \in Locations /\ lock[Pool(r)] = Nobody
    BY <1>0, <1>3, BinnedRow DEF DeletePool, RestorePool
  <2> DEFINE new == WithState(r, s)
  <2>3. new \in PoolRow /\ new.state = s /\ new.at = pool[r].at /\ new.qty = pool[r].qty
    BY <1>0, ColumnWritten
  <2>4. ~Overallocate => pool[r].qty >= 0
    BY <1>0 DEF StockTypeOK
  <2>5. Becomes(r, new)
    BY <2>1
  <2> HIDE DEF new
  <2> QED BY <1>0, <2>2, <2>3, <2>4, <2>5, SingleRow
<1>4. ASSUME NEW r \in Rows, PurgePool(r) PROVE StockInv'
  <2>1. /\ Becomes(r, PurgedRow(r)) /\ PurgedRow(r) \in PoolRow /\ PurgedRow(r).state = "purged"
        /\ PurgedRow(r).at = pool[r].at /\ PurgedRow(r).qty = 0
        /\ pool[r].at \in Locations /\ lock[Pool(r)] = Nobody
    BY <1>4, BinnedRow
  <2>2. /\ Edits /\ archived' = archived /\ bypassed' = bypassed
        /\ brought' = [brought EXCEPT ![pool[r].at] = @ - pool[r].qty]
    BY <1>4 DEF PurgePool
  <2>3. pool[r].qty \in Int
    BY <1>0, ColumnWritten
  <2>4. brought' \in [Locations -> Int]
    BY <1>0, <2>1, <2>2, <2>3
  <2> QED BY <1>0, <2>1, <2>2, <2>4, SingleRow
<1> QED BY <1>1, <1>2, <1>3, <1>4

LEMMA RestoreItemFacts ==
    ASSUME StockInv, RestoreItem
    PROVE  \E R \in SUBSET Rows :
              /\ StatesMove(R, "live")
              /\ \A r \in R : pool[r].state = "archived" /\ lock[Pool(r)] = Nobody
<1> DEFINE R == {r \in Rows : pool[r].state = "archived"}
<1>1. R \in SUBSET Rows /\ \A r \in R : pool[r].state = "archived" /\ lock[Pool(r)] = Nobody
  BY DEF RestoreItem
<1>2. StatesMove(R, "live")
  BY DEF RestoreItem, StatesMove, WithState
<1> QED BY <1>1, <1>2

LEMMA RestoreItemKeeps ==
    ASSUME StockInv, RestoreItem
    PROVE  StockInv'
<1>1. PICK R \in SUBSET Rows : /\ StatesMove(R, "live")
                               /\ \A r \in R : pool[r].state = "archived" /\ lock[Pool(r)] = Nobody
  BY RestoreItemFacts
<1>2. PoolsFit' /\ PoolsHavePlace' /\ \A r \in Rows : PoolStays(Nobody, r)
  BY <1>1, ManyRowsWritten
<1>3. lock[Item] = Nobody /\ archived' = FALSE /\ Edits /\ UNCHANGED <<brought, bypassed>>
  BY DEF RestoreItem
<1>4. edits' \in 0 .. MaxEdits
  BY <1>3, StockConstants DEF Edits, StockInv, StockTypeOK
<1>5. /\ UNCHANGED <<out, lock, tx, served>>
      /\ brought' \in [Locations -> Int] /\ edited' \subseteq Locations /\ bypassed' \in BOOLEAN
  BY <1>3 DEF Edits, StockInv, StockTypeOK
<1> QED BY <1>2, <1>3, <1>4, <1>5, SingleStep

-----------------------------------------------------------------------------
(* Part 2: the invariant *)

LEMMA StockInit == Init => StockInv
<1> SUFFICES ASSUME Init PROVE StockInv
  OBVIOUS
<1>1. StockTypeOK
  <2>0. archived \in BOOLEAN /\ bypassed \in BOOLEAN
    BY DEF Init
  <2>1. /\ lock \in [Lockable -> Workers \cup {Nobody}]
        /\ tx \in [Workers -> Request \cup {Idle}]
        /\ brought \in [Locations -> Int] /\ edited \subseteq Locations
    BY DEF Init
  <2>2. served \in 0 .. MaxRequests /\ edits \in 0 .. MaxEdits
    BY StockConstants DEF Init
  <2>3. pool \in [Rows -> PoolRow] /\ \A r \in Rows : pool[r].qty >= 0
    BY DEF Init, PoolRow, Sources
  <2>4. out \in [Requests -> OutRow]
    BY StockConstants DEF Init, OutRow, Sources
  <2> QED BY <2>0, <2>1, <2>2, <2>3, <2>4 DEF StockTypeOK, PoolRow, OutRow
<1>2. \A w \in Workers : Knows(w)
  BY DEF Init, Knows
<1>3. \A w \in Workers : LocksOf(w)
  BY StockConstants, LockNames DEF Init, LocksOf
<1>4. Numbered /\ PoolsHavePlace /\ ArchivedNothingOut
  BY DEF Init, Numbered, PoolsHavePlace, ArchivedNothingOut
<1> QED BY <1>1, <1>2, <1>3, <1>4 DEF StockInv

LEMMA StockStep == StockInv /\ [Next]_vars => StockInv'
<1> SUFFICES ASSUME StockInv, [Next]_vars PROVE StockInv'
  OBVIOUS
<1>1. CASE UNCHANGED vars
  <2>1. /\ StockTypeOK' = StockTypeOK /\ Numbered' = Numbered
        /\ PoolsHavePlace' = PoolsHavePlace /\ ArchivedNothingOut' = ArchivedNothingOut
    BY <1>1 DEF vars, StockTypeOK, Numbered, PoolsHavePlace, ArchivedNothingOut, Open
  <2>2. \A w \in Workers : LocksOf(w)'
    BY <1>1 DEF vars, StockInv, LocksOf, HasItem, HasAssignment, HasPool
  <2>3. \A w \in Workers : Knows(w)'
    BY <1>1 DEF vars, StockInv, Knows, CheckoutKnows, ReturnKnows, UpdateKnows, ReceiveKnows,
                EditKnows, ArchiveKnows, Assigned, Open
  <2> QED BY <2>1, <2>2, <2>3 DEF StockInv
<1>2. ASSUME NEW w \in Workers, Begin(w) PROVE StockInv'
  BY <1>2, BeginKeeps
<1>3. ASSUME NEW w \in Workers, Proceed(w) PROVE StockInv'
  <2>1. CASE TakeAssignment(w) \/ TakeItem(w) \/ TakePool(w) \/ Check(w)
    BY <2>1, TakeAssignmentKeeps, TakeItemKeeps, TakePoolKeeps, CheckKeeps
  <2>2. CASE CheckoutSave(w) \/ ReturnSave(w) \/ UpdateSave(w)
    BY <2>2, SavesKeep
  <2>3. CASE ReceiveNew(w) \/ ReceiveSave(w) \/ EditSave(w)
    BY <2>3, ReceivesKeep, EditKeeps
  <2>4. CASE ArchiveList(w) \/ ArchiveStock(w) \/ ArchiveCommit(w)
    BY <2>4, ArchiveMoves, ArchiveCommitKeeps
  <2> QED BY <1>3, <2>1, <2>2, <2>3, <2>4 DEF Proceed
<1>4. ASSUME NEW w \in Workers, RollBack(w) PROVE StockInv'
  BY <1>4, RefuseKeeps DEF RollBack
<1>5. CASE RestoreItem
  BY <1>5, RestoreItemKeeps
<1> QED BY <1>1, <1>2, <1>3, <1>4, <1>5, SingleStepsKeep DEF Next

(* Every request knows what its locks have shown it and holds no other      *)
(* locks; no two checkouts have the same number.                            *)
THEOREM StockInvariant == Spec => []StockInv
BY StockInit, StockStep, PTL DEF Spec

(* Every table stays well-formed, and without over-allocation no pool falls *)
(* below zero: _update_stock and the minus button look at the row they      *)
(* change.                                                                  *)
THEOREM StockIsTyped == Spec => []StockTypeOK
<1>1. StockInv => StockTypeOK
  BY DEF StockInv
<1> QED BY <1>1, StockInvariant, PTL

(* An archived item has nothing out: whoever lends it holds the item, so    *)
(* no assignment appears between the look for blockers and the end of       *)
(* _archive_item.                                                           *)
THEOREM ArchivedItemHasNothingOut == Spec => []ArchivedNothingOut
<1>1. StockInv => ArchivedNothingOut
  BY DEF StockInv
<1> QED BY <1>1, StockInvariant, PTL

-----------------------------------------------------------------------------
(* Part 3: the shelves add up *)

At(f, S, x) == IF x \in S THEN f[x] ELSE 0

(* Two sums that differ at one point only. *)
LEMMA SumOneChanges ==
    ASSUME NEW U, IsFiniteSet(U), NEW f \in [U -> Int], NEW g \in [U -> Int], NEW x \in U,
           \A y \in U : y # x => f[y] = g[y],
           NEW S \in SUBSET U, NEW T \in SUBSET U, S \ {x} = T \ {x}
    PROVE  /\ SumFunctionOnSet(f, S) \in Int /\ SumFunctionOnSet(g, T) \in Int
           /\ At(f, S, x) \in Int /\ At(g, T, x) \in Int
           /\ SumFunctionOnSet(g, T) = SumFunctionOnSet(f, S) - At(f, S, x) + At(g, T, x)
<1> DEFINE V == S \ {x}
<1>1. V \in SUBSET U /\ V = T \ {x} /\ x \notin V /\ \A y \in V : f[y] = g[y]
  OBVIOUS
<1>2. SumFunctionOnSet(f, V) = SumFunctionOnSet(g, V) /\ SumFunctionOnSet(f, V) \in Int
  <2> HIDE DEF V
  <2> QED BY <1>1, SumSame, SumType
<1>3. SumFunctionOnSet(f, S) = At(f, S, x) + SumFunctionOnSet(f, V)
  <2>1. CASE x \in S
    BY <2>1, SumRemove DEF At
  <2>2. CASE x \notin S
    BY <1>2, <2>2, S = V DEF At
  <2> QED BY <2>1, <2>2
<1>4. SumFunctionOnSet(g, T) = At(g, T, x) + SumFunctionOnSet(g, V)
  <2>1. CASE x \in T
    BY <1>1, <2>1, SumRemove DEF At
  <2>2. CASE x \notin T
    BY <1>1, <1>2, <2>2, T = V DEF At
  <2> QED BY <2>1, <2>2
<1>5. At(f, S, x) \in Int /\ At(g, T, x) \in Int
  BY DEF At
<1> HIDE DEF V
<1>6. SumFunctionOnSet(f, S) \in Int /\ SumFunctionOnSet(g, T) \in Int
  BY <1>2, <1>3, <1>4, <1>5
<1> QED BY <1>2, <1>3, <1>4, <1>5, <1>6

(* What one row has on the shelf of l, on any shelf, and on loan from l. *)
OnShelf(row, l) ==
    IF row.state \in {"live", "deleted", "archived"} /\ row.at = l THEN row.qty ELSE 0
OnLive(row) == IF row.state = "live" THEN row.qty ELSE 0
OnLoan(row, l) == IF row.state = "open" /\ row.from = l THEN row.qty ELSE 0

LoansFrom(l) == {a \in Open : out[a].from = l}

LEMMA ShelfMoves ==
    ASSUME StockTypeOK, NEW r \in Rows, NEW new \in PoolRow, Becomes(r, new), NEW l
    PROVE  /\ Shelved(RowsAt(l)) \in Int /\ OnShelf(pool[r], l) \in Int /\ OnShelf(new, l) \in Int
           /\ Shelved(RowsAt(l))' = Shelved(RowsAt(l)) - OnShelf(pool[r], l) + OnShelf(new, l)
           /\ Shelved(LiveRows) \in Int /\ OnLive(pool[r]) \in Int /\ OnLive(new) \in Int
           /\ Shelved(LiveRows)' = Shelved(LiveRows) - OnLive(pool[r]) + OnLive(new)
<1>1. IsFiniteSet(Rows) /\ Units \in [Rows -> Int]
  BY SumsTyped
<1>2. pool \in [Rows -> PoolRow] /\ pool[r] \in PoolRow
  BY DEF StockTypeOK, PoolRow
<1>3. /\ pool' \in [Rows -> PoolRow] /\ pool'[r] = new
      /\ \A s \in Rows : s # r => pool'[s] = pool[s]
  BY <1>2 DEF Becomes
<1>4. /\ Units' \in [Rows -> Int] /\ Units'[r] = new.qty /\ Units[r] = pool[r].qty
      /\ \A s \in Rows : s # r => Units[s] = Units'[s]
  BY <1>2, <1>3 DEF Units, PoolRow
<1>5. /\ RowsAt(l) \in SUBSET Rows /\ RowsAt(l)' \in SUBSET Rows
      /\ RowsAt(l) \ {r} = RowsAt(l)' \ {r}
      /\ LiveRows \in SUBSET Rows /\ LiveRows' \in SUBSET Rows
      /\ LiveRows \ {r} = LiveRows' \ {r}
  BY <1>3 DEF RowsAt, LiveRows
<1>6. /\ At(Units, RowsAt(l), r) = OnShelf(pool[r], l)
      /\ At(Units', RowsAt(l)', r) = OnShelf(new, l)
      /\ At(Units, LiveRows, r) = OnLive(pool[r])
      /\ At(Units', LiveRows', r) = OnLive(new)
  BY <1>3, <1>4 DEF At, OnShelf, OnLive, RowsAt, LiveRows
<1>7. /\ Shelved(RowsAt(l)) = SumFunctionOnSet(Units, RowsAt(l))
      /\ Shelved(RowsAt(l))' = SumFunctionOnSet(Units', RowsAt(l)')
      /\ Shelved(LiveRows) = SumFunctionOnSet(Units, LiveRows)
      /\ Shelved(LiveRows)' = SumFunctionOnSet(Units', LiveRows')
  BY DEF Shelved, Units
<1> DEFINE A == RowsAt(l)
           B == RowsAt(l)'
           C == LiveRows
           D == LiveRows'
           f == Units
           g == Units'
<1>8. /\ SumFunctionOnSet(f, A) \in Int
      /\ At(f, A, r) \in Int /\ At(g, B, r) \in Int
      /\ SumFunctionOnSet(g, B) = SumFunctionOnSet(f, A) - At(f, A, r) + At(g, B, r)
  <2>1. /\ f \in [Rows -> Int] /\ g \in [Rows -> Int] /\ A \in SUBSET Rows /\ B \in SUBSET Rows
        /\ A \ {r} = B \ {r} /\ \A s \in Rows : s # r => f[s] = g[s]
    BY <1>1, <1>4, <1>5
  <2> HIDE DEF A, B, f, g
  <2> QED BY <1>1, <2>1, SumOneChanges
<1>9. /\ SumFunctionOnSet(f, C) \in Int
      /\ At(f, C, r) \in Int /\ At(g, D, r) \in Int
      /\ SumFunctionOnSet(g, D) = SumFunctionOnSet(f, C) - At(f, C, r) + At(g, D, r)
  <2>1. /\ f \in [Rows -> Int] /\ g \in [Rows -> Int] /\ C \in SUBSET Rows /\ D \in SUBSET Rows
        /\ C \ {r} = D \ {r} /\ \A s \in Rows : s # r => f[s] = g[s]
    BY <1>1, <1>4, <1>5
  <2> HIDE DEF C, D, f, g
  <2> QED BY <1>1, <2>1, SumOneChanges
<1>10. QED BY <1>6, <1>7, <1>8, <1>9

(* One assignment becomes row. *)
AssignmentBecomes(n, row) == out' = [out EXCEPT ![n] = row]

LEMMA LoanMoves ==
    ASSUME StockTypeOK, NEW n \in Requests, NEW row \in OutRow,
           AssignmentBecomes(n, row), NEW l
    PROVE  /\ Lent(LoansFrom(l)) \in Int /\ OnLoan(out[n], l) \in Int /\ OnLoan(row, l) \in Int
           /\ Lent(LoansFrom(l))' = Lent(LoansFrom(l)) - OnLoan(out[n], l) + OnLoan(row, l)
<1>1. IsFiniteSet(Requests) /\ Loans \in [Requests -> Int]
  BY SumsTyped
<1>2. out \in [Requests -> OutRow] /\ \A x \in OutRow : x.qty \in Int
  BY StockConstants DEF StockTypeOK, OutRow
<1>3. /\ out' \in [Requests -> OutRow] /\ out'[n] = row
      /\ \A a \in Requests : a # n => out'[a] = out[a]
  BY <1>2 DEF AssignmentBecomes
<1>4. /\ Loans' \in [Requests -> Int] /\ Loans'[n] = row.qty /\ Loans[n] = out[n].qty
      /\ \A a \in Requests : a # n => Loans[a] = Loans'[a]
  BY <1>2, <1>3 DEF Loans
<1>5. /\ LoansFrom(l) \in SUBSET Requests /\ LoansFrom(l)' \in SUBSET Requests
      /\ LoansFrom(l) \ {n} = LoansFrom(l)' \ {n}
  BY <1>3 DEF LoansFrom, Open
<1>6. /\ At(Loans, LoansFrom(l), n) = OnLoan(out[n], l)
      /\ At(Loans', LoansFrom(l)', n) = OnLoan(row, l)
  BY <1>3, <1>4 DEF At, OnLoan, LoansFrom, Open
<1>7. /\ Lent(LoansFrom(l)) = SumFunctionOnSet(Loans, LoansFrom(l))
      /\ Lent(LoansFrom(l))' = SumFunctionOnSet(Loans', LoansFrom(l)')
  BY DEF Lent, Loans
<1> DEFINE A == LoansFrom(l)
           B == LoansFrom(l)'
           f == Loans
           g == Loans'
<1>8. /\ SumFunctionOnSet(f, A) \in Int
      /\ At(f, A, n) \in Int /\ At(g, B, n) \in Int
      /\ SumFunctionOnSet(g, B) = SumFunctionOnSet(f, A) - At(f, A, n) + At(g, B, n)
  <2>1. /\ f \in [Requests -> Int] /\ g \in [Requests -> Int]
        /\ A \in SUBSET Requests /\ B \in SUBSET Requests
        /\ A \ {n} = B \ {n} /\ \A s \in Requests : s # n => f[s] = g[s]
    BY <1>1, <1>4, <1>5
  <2> HIDE DEF A, B, f, g
  <2> QED BY <1>1, <2>1, SumOneChanges
<1> QED BY <1>6, <1>7, <1>8

AddsUp(l) == Shelved(RowsAt(l)) + Lent(LoansFrom(l)) = brought[l]

LEMMA ShelvesAddUpParts == ShelvesAddUp <=> \A l \in Locations \ edited : AddsUp(l)
BY DEF ShelvesAddUp, AddsUp, LoansFrom

(* Nothing is written, or states only, between live and archived. *)
LEMMA SameShelves ==
    ASSUME ShelvesAddUp, UNCHANGED <<pool, out, brought, edited>>
    PROVE  ShelvesAddUp'
BY DEF ShelvesAddUp, Shelved, Lent, RowsAt, Open

LEMMA StatesOnly ==
    ASSUME StockTypeOK, ShelvesAddUp, UNCHANGED <<out, brought, edited>>,
           NEW R \in SUBSET Rows, NEW s \in {"live", "archived"}, StatesMove(R, s),
           \A r \in R : pool[r].state \in {"live", "archived"}
    PROVE  ShelvesAddUp'
<1>1. \A r \in Rows : pool'[r] = IF r \in R THEN WithState(r, s) ELSE pool[r]
  BY DEF StatesMove
<1>2. \A r \in Rows : /\ WithState(r, s).state = s
                      /\ WithState(r, s).at = pool[r].at /\ WithState(r, s).qty = pool[r].qty
  BY ColumnWritten
<1>3. [r \in Rows |-> pool[r].qty]' = [r \in Rows |-> pool[r].qty]
  BY <1>1, <1>2
<1>4. \A l \in Locations : RowsAt(l)' = RowsAt(l)
  <2>1. ASSUME NEW l \in Locations, NEW r \in Rows
        PROVE  r \in RowsAt(l)' <=> r \in RowsAt(l)
    BY <1>1, <1>2 DEF RowsAt
  <2>2. \A l \in Locations : RowsAt(l)' \subseteq Rows /\ RowsAt(l) \subseteq Rows
    BY DEF RowsAt
  <2> QED BY <2>1, <2>2
<1>5. \A l \in Locations : Shelved(RowsAt(l))' = Shelved(RowsAt(l))
  BY <1>3, <1>4 DEF Shelved
<1>6. \A l \in Locations : Lent({a \in Open : out[a].from = l})' = Lent({a \in Open : out[a].from = l})
  BY DEF Lent, Open
<1> QED BY <1>5, <1>6 DEF ShelvesAddUp

(* One row is written, and the books follow it. *)
LEMMA RowAddsUp ==
    ASSUME StockTypeOK, ShelvesAddUp, out' = out, edited \subseteq edited',
           NEW r \in Rows, NEW new \in PoolRow, Becomes(r, new),
           \A l \in Locations \ edited' :
               brought'[l] = brought[l] + OnShelf(new, l) - OnShelf(pool[r], l)
    PROVE  ShelvesAddUp'
<1> SUFFICES ASSUME NEW l \in Locations \ edited' PROVE AddsUp(l)'
  BY DEF ShelvesAddUp, AddsUp, LoansFrom
<1>1. AddsUp(l) /\ brought[l] \in Int /\ l \in Locations
  BY ShelvesAddUpParts DEF StockTypeOK
<1>2. /\ Shelved(RowsAt(l)) \in Int /\ OnShelf(pool[r], l) \in Int /\ OnShelf(new, l) \in Int
      /\ Shelved(RowsAt(l))' = Shelved(RowsAt(l)) - OnShelf(pool[r], l) + OnShelf(new, l)
  BY ShelfMoves
<1>3. Lent(LoansFrom(l))' = Lent(LoansFrom(l)) /\ Lent(LoansFrom(l)) \in Int
  <2>1. IsFiniteSet(Requests) /\ Loans \in [Requests -> Int]
    BY SumsTyped
  <2>2. LoansFrom(l) \in SUBSET Requests
    BY DEF LoansFrom, Open
  <2>3. SumFunctionOnSet(Loans, LoansFrom(l)) \in Int
    BY <2>1, <2>2, SumType
  <2> QED BY <2>3 DEF Lent, LoansFrom, Open, Loans
<1>4. brought'[l] = brought[l] + OnShelf(new, l) - OnShelf(pool[r], l)
  OBVIOUS
<1> QED BY <1>1, <1>2, <1>3, <1>4 DEF AddsUp

(* A checkout, a return or an update moves units between the shelf and the  *)
(* assignment.                                                              *)
LEMMA SaveAddsUp ==
    ASSUME StockInv, ShelvesAddUp, NEW w \in Workers, NEW diff \in Int, NEW row \in OutRow,
           NEW bypass, SaveWrites(w, diff, row, bypass), tx[w].n \in Requests,
           \A l \in Locations : OnLoan(row, l) - OnLoan(out[tx[w].n], l) =
                                    IF l = tx[w].at THEN -diff ELSE 0
    PROVE  ShelvesAddUp'
<1>0. StockTypeOK /\ brought' = brought /\ edited' = edited
      /\ out' = [out EXCEPT ![tx[w].n] = row]
  BY DEF StockInv, SaveWrites
<1> SUFFICES ASSUME NEW l \in Locations \ edited' PROVE AddsUp(l)'
  BY DEF ShelvesAddUp, AddsUp, LoansFrom
<1> DEFINE n == tx[w].n
<1>1. AddsUp(l) /\ brought[l] \in Int /\ l \in Locations
  BY <1>0, ShelvesAddUpParts DEF StockTypeOK
<1>2. /\ Lent(LoansFrom(l)) \in Int /\ OnLoan(out[n], l) \in Int /\ OnLoan(row, l) \in Int
      /\ Lent(LoansFrom(l))' = Lent(LoansFrom(l)) - OnLoan(out[n], l) + OnLoan(row, l)
  <2>1. n \in Requests /\ AssignmentBecomes(n, row)
    BY <1>0 DEF AssignmentBecomes
  <2> HIDE DEF n
  <2> QED BY <1>0, <2>1, LoanMoves
<1>3. OnLoan(row, l) - OnLoan(out[n], l) = IF l = tx[w].at THEN -diff ELSE 0
  BY <1>1
<1> HIDE DEF n
<1>4. /\ Shelved(RowsAt(l)) \in Int /\ Shelved(RowsAt(l))' \in Int
      /\ Shelved(RowsAt(l))' = Shelved(RowsAt(l)) + IF l = tx[w].at THEN diff ELSE 0
  <2>1. CASE tx[w].at = NoLocation /\ pool' = pool
    <3>1. l # tx[w].at
      BY <1>1, <2>1, StockConstants
    <3>2. Shelved(RowsAt(l))' = Shelved(RowsAt(l))
      BY <2>1 DEF Shelved, RowsAt
    <3>3. Shelved(RowsAt(l)) \in Int
      <4>1. IsFiniteSet(Rows) /\ Units \in [Rows -> Int] /\ RowsAt(l) \in SUBSET Rows
        BY <1>0, SumsTyped DEF RowsAt
      <4>2. SumFunctionOnSet(Units, RowsAt(l)) \in Int
        BY <4>1, SumType
      <4> QED BY <4>2 DEF Shelved, Units
    <3> QED BY <3>1, <3>2, <3>3
  <2>2. CASE tx[w].at \in Locations /\ \E r \in Rows : \E new : AdjustedTo(tx[w].at, diff, r, new)
    <3> PICK r \in Rows : \E new : AdjustedTo(tx[w].at, diff, r, new)
      BY <2>2
    <3> PICK new : AdjustedTo(tx[w].at, diff, r, new)
      OBVIOUS
    <3>1. Becomes(r, new) /\ new \in PoolRow /\ new.at = tx[w].at
      BY DEF AdjustedTo
    <3>2. /\ Shelved(RowsAt(l)) \in Int /\ OnShelf(pool[r], l) \in Int /\ OnShelf(new, l) \in Int
          /\ Shelved(RowsAt(l))' = Shelved(RowsAt(l)) - OnShelf(pool[r], l) + OnShelf(new, l)
      BY <1>0, <3>1, ShelfMoves
    <3>3. pool[r].qty \in Int
      BY <1>0, ColumnWritten
    <3>4. OnShelf(new, l) - OnShelf(pool[r], l) = IF l = tx[w].at THEN diff ELSE 0
      <4>1. CASE RowsAt(tx[w].at) = {} /\ pool[r].state = "none" /\ new.state = "live" /\ new.qty = diff
        BY <3>1, <4>1 DEF OnShelf
      <4>2. CASE RowsAt(tx[w].at) = {r} /\ new.state = pool[r].state /\ new.qty = pool[r].qty + diff
        <5>1. pool[r].state \in {"live", "deleted", "archived"} /\ pool[r].at = tx[w].at
          BY <4>2 DEF RowsAt
        <5> QED BY <3>1, <3>3, <4>2, <5>1 DEF OnShelf
      <4> QED BY <4>1, <4>2 DEF AdjustedTo
    <3> QED BY <3>2, <3>4
  <2> QED BY <2>1, <2>2 DEF SaveWrites
<1> QED BY <1>0, <1>1, <1>2, <1>3, <1>4 DEF AddsUp

LEMMA SavesAddUp ==
    ASSUME StockInv, ShelvesAddUp, NEW w \in Workers,
           \/ CheckoutSave(w) /\ CheckoutWrites(w)
           \/ ReturnSave(w) /\ ReturnWrites(w)
           \/ UpdateSave(w) /\ UpdateWrites(w)
    PROVE  ShelvesAddUp'
<1>1. CASE CheckoutSave(w) /\ CheckoutWrites(w)
  <2> DEFINE row == [state |-> "open", from |-> tx[w].at, qty |-> tx[w].qty]
             diff == -tx[w].qty
  <2>1. /\ tx[w].n \in Requests /\ tx[w].qty \in Nat /\ row \in OutRow
        /\ out[tx[w].n].state = "none"
    BY <1>1, CheckoutRow DEF CheckoutSave
  <2>2. SaveWrites(w, diff, row, tx[w].granted)
    BY <1>1 DEF CheckoutWrites
  <2>3. row.state = "open" /\ row.from = tx[w].at /\ row.qty = tx[w].qty
    OBVIOUS
  <2>4. diff \in Int /\ -diff = tx[w].qty
    BY <2>1
  <2> HIDE DEF row, diff
  <2>5. \A l \in Locations : OnLoan(row, l) - OnLoan(out[tx[w].n], l) =
                                 IF l = tx[w].at THEN -diff ELSE 0
    BY <2>1, <2>3, <2>4 DEF OnLoan
  <2> QED BY <2>1, <2>2, <2>4, <2>5, SaveAddsUp
<1>2. CASE ReturnSave(w) /\ ReturnWrites(w)
  <2> DEFINE row == [out[tx[w].n] EXCEPT !.state = "returned"]
             diff == out[tx[w].n].qty
  <2>0. Doing(w, "return", "save")
    BY <1>2 DEF ReturnSave
  <2>1. /\ tx[w].n \in Requests /\ diff \in Nat /\ row \in OutRow
        /\ out[tx[w].n] \in OutRow /\ out[tx[w].n].from = tx[w].at /\ Assigned(w, tx[w].n)
    BY <2>0, AssignedRow
  <2>2. SaveWrites(w, diff, row, FALSE)
    BY <1>2 DEF ReturnWrites
  <2>3. row.state = "returned" /\ out[tx[w].n].state = "open" /\ out[tx[w].n].qty = diff
    BY <2>1 DEF OutRow, Assigned
  <2> HIDE DEF row, diff
  <2>4. diff \in Int
    BY <2>1
  <2>5. \A l \in Locations : OnLoan(row, l) - OnLoan(out[tx[w].n], l) =
                                 IF l = tx[w].at THEN -diff ELSE 0
    BY <2>1, <2>3, <2>4 DEF OnLoan
  <2> QED BY <2>1, <2>2, <2>4, <2>5, SaveAddsUp
<1>3. CASE UpdateSave(w) /\ UpdateWrites(w)
  <2> DEFINE row == [out[tx[w].n] EXCEPT !.qty = tx[w].qty]
             diff == out[tx[w].n].qty - tx[w].qty
  <2>0. Doing(w, "update", "save")
    BY <1>3 DEF UpdateSave
  <2>1. /\ tx[w].n \in Requests /\ row \in OutRow
        /\ out[tx[w].n].qty \in Nat /\ tx[w].qty \in Nat
        /\ out[tx[w].n] \in OutRow /\ out[tx[w].n].from = tx[w].at /\ Assigned(w, tx[w].n)
    BY <2>0, AssignedRow
  <2>2. SaveWrites(w, diff, row, FALSE)
    BY <1>3 DEF UpdateWrites
  <2>3. /\ row.state = "open" /\ out[tx[w].n].state = "open"
        /\ row.from = tx[w].at /\ row.qty = tx[w].qty
    BY <2>1 DEF OutRow, Assigned
  <2>4. diff \in Int /\ tx[w].qty - out[tx[w].n].qty = -diff
    BY <2>1
  <2> HIDE DEF row, diff
  <2>5. \A l \in Locations : OnLoan(row, l) - OnLoan(out[tx[w].n], l) =
                                 IF l = tx[w].at THEN -diff ELSE 0
    BY <2>1, <2>3, <2>4 DEF OnLoan
  <2> QED BY <2>1, <2>2, <2>4, <2>5, SaveAddsUp
<1> QED BY <1>1, <1>2, <1>3

(* Receipts, the edit form and the single steps on a row. *)
LEMMA ReceivesAddUp ==
    ASSUME StockInv, ShelvesAddUp, NEW w \in Workers, ReceiveNew(w) \/ ReceiveSave(w)
    PROVE  ShelvesAddUp'
<1>0. StockTypeOK /\ brought \in [Locations -> Int]
  BY DEF StockInv, StockTypeOK
<1>1. tx[w] # Idle /\ tx[w].op = "receive" /\ tx[w].qty \in 0 .. MaxQty /\ tx[w].at \in Locations
  BY RequestRow DEF StockInv, ReceiveNew, ReceiveSave, Doing, Knows, ReceiveKnows
<1>2. /\ UNCHANGED <<out, edited>> /\ tx[w].qty \in Int
      /\ brought' = [brought EXCEPT ![tx[w].at] = @ + tx[w].qty]
  BY <1>1 DEF ReceiveNew, ReceiveSave
<1>3. \A l \in Locations : brought'[l] = brought[l] + IF l = tx[w].at THEN tx[w].qty ELSE 0
  BY <1>0, <1>1, <1>2
<1>4. CASE ReceiveNew(w)
  <2> DEFINE new == NewRow(tx[w].at, tx[w].qty)
  <2>1. PICK r \in Rows : pool[r].state = "none" /\ Becomes(r, new)
    BY <1>0, <1>1, <1>4, NewPoolRow DEF ReceiveNew
  <2>2. new \in PoolRow /\ new.state = "live" /\ new.at = tx[w].at /\ new.qty = tx[w].qty
    BY <1>0, <1>1, <1>4, NewPoolRow DEF ReceiveNew
  <2> HIDE DEF new
  <2>3. \A l \in Locations : brought'[l] = brought[l] + OnShelf(new, l) - OnShelf(pool[r], l)
    BY <1>0, <1>2, <1>3, <2>1, <2>2 DEF OnShelf
  <2> QED BY <1>0, <1>2, <2>1, <2>2, <2>3, RowAddsUp
<1>5. CASE ReceiveSave(w)
  <2>1. PICK r \in Rows : /\ pool[r].state = "live" /\ pool[r].at = tx[w].at
                          /\ Becomes(r, WithQty(r, pool[r].qty + tx[w].qty))
    BY <1>5, ReceivedRow
  <2> DEFINE q == pool[r].qty + tx[w].qty
             new == WithQty(r, q)
  <2>2. pool[r].qty \in Int
    BY <1>0, ColumnWritten
  <2>3. q \in Int /\ q = pool[r].qty + tx[w].qty
    BY <1>2, <2>2
  <2>4. Becomes(r, new)
    BY <2>1
  <2> HIDE DEF q
  <2>5. new \in PoolRow /\ new.state = pool[r].state /\ new.at = pool[r].at /\ new.qty = q
    BY <1>0, <2>3, ColumnWritten
  <2> HIDE DEF new
  <2>6. \A l \in Locations : brought'[l] = brought[l] + OnShelf(new, l) - OnShelf(pool[r], l)
    BY <1>0, <1>2, <1>3, <2>1, <2>2, <2>3, <2>5 DEF OnShelf
  <2> QED BY <1>0, <1>2, <2>4, <2>5, <2>6, RowAddsUp
<1> QED BY <1>4, <1>5

LEMMA EditAddsUp ==
    ASSUME StockInv, ShelvesAddUp, NEW w \in Workers,
           NEW l \in Locations, NEW q \in 0 .. MaxQty, EditWrites(w, l, q)
    PROVE  ShelvesAddUp'
<1> DEFINE r == tx[w].row
           new == NewRow(l, q)
<1>1. /\ StockTypeOK /\ r \in Rows /\ Becomes(r, new) /\ out' = out /\ brought' = brought
      /\ edited' = edited \cup {l, pool[r].at} /\ brought \in [Locations -> Int]
  BY DEF EditWrites, StockInv, StockTypeOK
<1>2. new \in PoolRow /\ new.at = l
  BY StockConstants DEF NewRow, PoolRow, Sources
<1> HIDE DEF r, new
<1>3. \A k \in Locations \ edited' : brought'[k] = brought[k] + OnShelf(new, k) - OnShelf(pool[r], k)
  BY <1>1, <1>2 DEF OnShelf
<1>4. edited \subseteq edited'
  BY <1>1
<1> QED BY <1>1, <1>2, <1>3, <1>4, RowAddsUp

LEMMA SingleStepsAddUp ==
    ASSUME StockInv, ShelvesAddUp,
           \/ \E l \in Locations, q \in 0 .. MaxQty : CreatePool(l, q)
           \/ \E r \in Rows : \/ \E diff \in {-1, 1} : AdjustPool(r, diff)
                              \/ DeletePool(r) \/ RestorePool(r) \/ PurgePool(r)
    PROVE  ShelvesAddUp'
<1>0. StockTypeOK /\ brought \in [Locations -> Int]
  BY DEF StockInv, StockTypeOK
<1>1. ASSUME NEW l \in Locations, NEW q \in 0 .. MaxQty, CreatePool(l, q) PROVE ShelvesAddUp'
  <2> DEFINE new == NewRow(l, q)
  <2>1. PICK r \in Rows : pool[r].state = "none" /\ Becomes(r, new)
    BY <1>1, CreatedRow
  <2>2. new \in PoolRow /\ new.state = "live" /\ new.at = l /\ new.qty = q
    BY <1>1, CreatedRow
  <2>3. /\ out' = out /\ edited' = edited /\ q \in Int
        /\ brought' = [brought EXCEPT ![l] = @ + q]
    BY <1>1 DEF CreatePool, Edits
  <2> HIDE DEF new
  <2>4. \A k \in Locations : brought'[k] = brought[k] + OnShelf(new, k) - OnShelf(pool[r], k)
    BY <1>0, <2>1, <2>2, <2>3 DEF OnShelf
  <2> QED BY <1>0, <2>1, <2>2, <2>3, <2>4, RowAddsUp
<1>2. ASSUME NEW r \in Rows, NEW diff \in {-1, 1}, AdjustPool(r, diff) PROVE ShelvesAddUp'
  <2> DEFINE q == pool[r].qty + diff
             new == WithQty(r, q)
  <2>1. /\ pool[r].at \in Locations /\ pool[r].qty \in Int /\ diff \in Int
        /\ Becomes(r, new)
    BY <1>2, AdjustedPool
  <2>2. q \in Int /\ q = pool[r].qty + diff
    BY <2>1
  <2>3. /\ out' = out /\ edited' = edited
        /\ pool[r].state = "live" /\ brought' = [brought EXCEPT ![pool[r].at] = @ + diff]
    BY <1>2 DEF AdjustPool, Edits
  <2> HIDE DEF q
  <2>4. new \in PoolRow /\ new.state = pool[r].state /\ new.at = pool[r].at /\ new.qty = q
    BY <1>0, <2>2, ColumnWritten
  <2> HIDE DEF new
  <2>5. \A k \in Locations : brought'[k] = brought[k] + OnShelf(new, k) - OnShelf(pool[r], k)
    BY <1>0, <2>1, <2>2, <2>3, <2>4 DEF OnShelf
  <2> QED BY <1>0, <2>1, <2>3, <2>4, <2>5, RowAddsUp
<1>3. ASSUME NEW r \in Rows, DeletePool(r) \/ RestorePool(r) PROVE ShelvesAddUp'
  <2>1. PICK s \in {"live", "deleted"} : Becomes(r, WithState(r, s))
    BY <1>3, BinnedRow
  <2>2. /\ out' = out /\ edited' = edited /\ brought' = brought
        /\ pool[r].state \in {"live", "deleted", "archived"}
    BY <1>3 DEF DeletePool, RestorePool, Edits
  <2> DEFINE new == WithState(r, s)
  <2>3. new \in PoolRow /\ new.state = s /\ new.at = pool[r].at /\ new.qty = pool[r].qty
    BY <1>0, ColumnWritten
  <2>4. Becomes(r, new) /\ pool[r].qty \in Int
    BY <1>0, <2>1, ColumnWritten
  <2> HIDE DEF new
  <2>5. \A k \in Locations : brought'[k] = brought[k] + OnShelf(new, k) - OnShelf(pool[r], k)
    BY <1>0, <2>2, <2>3, <2>4 DEF OnShelf
  <2> QED BY <1>0, <2>2, <2>3, <2>4, <2>5, RowAddsUp
<1>4. ASSUME NEW r \in Rows, PurgePool(r) PROVE ShelvesAddUp'
  <2>1. /\ Becomes(r, PurgedRow(r)) /\ PurgedRow(r) \in PoolRow /\ PurgedRow(r).state = "purged"
        /\ pool[r].at \in Locations
    BY <1>4, BinnedRow
  <2>2. /\ out' = out /\ edited' = edited /\ pool[r].state \in {"live", "deleted", "archived"}
        /\ brought' = [brought EXCEPT ![pool[r].at] = @ - pool[r].qty]
    BY <1>4 DEF PurgePool, Edits
  <2>3. pool[r].qty \in Int
    BY <1>0, ColumnWritten
  <2>4. \A k \in Locations : brought'[k] = brought[k] + OnShelf(PurgedRow(r), k) - OnShelf(pool[r], k)
    BY <1>0, <2>1, <2>2, <2>3 DEF OnShelf
  <2> QED BY <1>0, <2>1, <2>2, <2>4, RowAddsUp
<1> QED BY <1>1, <1>2, <1>3, <1>4

(* The steps of a request before it saves write no table. *)
Moves(w) ==
    \/ Begin(w) \/ TakeAssignment(w) \/ TakeItem(w) \/ TakePool(w) \/ Check(w)
    \/ ArchiveList(w) \/ ArchiveStock(w) \/ RollBack(w) \/ Refuse(w)

LEMMA MovesWriteNothing ==
    ASSUME NEW w \in Workers, Moves(w)
    PROVE  UNCHANGED <<archived, pool, out, brought, edited, bypassed>>
<1> USE DEF Refuse
<1>1. CASE Begin(w)
  BY <1>1 DEF Begin, CheckoutBegin, ReturnBegin, UpdateBegin, ReceiveBegin, ArchiveBegin,
              EditBegin, Serve
<1>2. CASE TakeAssignment(w)
  BY <1>2 DEF TakeAssignment
<1>3. CASE TakeItem(w)
  BY <1>3 DEF TakeItem
<1>4. CASE TakePool(w) \/ Check(w)
  BY <1>4 DEF TakePool, Check
<1>5. CASE ArchiveList(w) \/ ArchiveStock(w) \/ RollBack(w) \/ Refuse(w)
  BY <1>5 DEF ArchiveList, ArchiveStock, RollBack
<1> QED BY <1>1, <1>2, <1>3, <1>4, <1>5 DEF Moves

Saves(w) ==
    \/ CheckoutSave(w) /\ CheckoutWrites(w)
    \/ ReturnSave(w) /\ ReturnWrites(w)
    \/ UpdateSave(w) /\ UpdateWrites(w)

Edited(w) == \E l \in Locations, q \in 0 .. MaxQty : EditWrites(w, l, q)

OnOneRow ==
    \/ \E l \in Locations, q \in 0 .. MaxQty : CreatePool(l, q)
    \/ \E r \in Rows : \/ \E diff \in {-1, 1} : AdjustPool(r, diff)
                       \/ DeletePool(r) \/ RestorePool(r) \/ PurgePool(r)

(* Every step is one of these. *)
LEMMA KindsOfSteps ==
    ASSUME StockInv, Next
    PROVE  \/ \E w \in Workers : \/ Moves(w) \/ Saves(w) \/ Edited(w)
                                 \/ ReceiveNew(w) \/ ReceiveSave(w) \/ ArchiveCommit(w)
           \/ RestoreItem \/ OnOneRow
<1>1. ASSUME NEW w \in Workers, Begin(w) \/ Proceed(w) \/ RollBack(w)
      PROVE  \/ Moves(w) \/ Saves(w) \/ Edited(w)
             \/ ReceiveNew(w) \/ ReceiveSave(w) \/ ArchiveCommit(w)
  <2>1. /\ CheckoutSave(w) \/ ReturnSave(w) \/ UpdateSave(w) => Saves(w) \/ Refuse(w)
        /\ EditSave(w) => Edited(w) \/ Refuse(w)
    BY SaveCases, EditCases DEF Saves, Edited
  <2> QED BY <1>1, <2>1 DEF Proceed, Moves
<1> QED BY <1>1 DEF Next, OnOneRow

LEMMA ShelvesStep == StockInv /\ ShelvesAddUp /\ [Next]_vars => ShelvesAddUp'
<1> SUFFICES ASSUME StockInv, ShelvesAddUp, [Next]_vars PROVE ShelvesAddUp'
  OBVIOUS
<1>0. StockTypeOK
  BY DEF StockInv
<1>1. CASE UNCHANGED vars
  BY <1>1, SameShelves DEF vars
<1>2. ASSUME NEW w \in Workers, Moves(w) PROVE ShelvesAddUp'
  BY <1>2, MovesWriteNothing, SameShelves
<1>3. ASSUME NEW w \in Workers, ArchiveCommit(w) PROVE ShelvesAddUp'
  <2>1. PICK R \in SUBSET Rows : StatesMove(R, "archived") /\ \A r \in R : pool[r].state = "live"
    BY <1>3, ArchiveCommitFacts
  <2> QED BY <1>0, <1>3, <2>1, StatesOnly DEF ArchiveCommit
<1>4. CASE RestoreItem
  <2>1. PICK R \in SUBSET Rows : StatesMove(R, "live") /\ \A r \in R : pool[r].state = "archived"
    BY <1>4, RestoreItemFacts
  <2> QED BY <1>0, <1>4, <2>1, StatesOnly DEF RestoreItem, Edits
<1>5. ASSUME NEW w \in Workers, Saves(w) PROVE ShelvesAddUp'
  BY <1>5, SavesAddUp DEF Saves
<1>6. ASSUME NEW w \in Workers, Edited(w) \/ ReceiveNew(w) \/ ReceiveSave(w) PROVE ShelvesAddUp'
  BY <1>6, EditAddsUp, ReceivesAddUp DEF Edited
<1>7. CASE OnOneRow
  BY <1>7, SingleStepsAddUp DEF OnOneRow
<1> QED BY <1>1, <1>2, <1>3, <1>4, <1>5, <1>6, <1>7, KindsOfSteps

LEMMA ShelvesInit == Init => ShelvesAddUp
<1> SUFFICES ASSUME Init, NEW l \in Locations PROVE AddsUp(l)
  BY ShelvesAddUpParts
<1>1. StockTypeOK
  BY StockInit DEF StockInv
<1>2. RowsAt(l) = {} /\ LoansFrom(l) = {} /\ brought[l] = 0
  BY DEF Init, RowsAt, LoansFrom, Open
<1>3. IsFiniteSet(Rows) /\ Units \in [Rows -> Int]
      /\ IsFiniteSet(Requests) /\ Loans \in [Requests -> Int]
  BY <1>1, SumsTyped
<1>4. SumFunctionOnSet(Units, {}) = 0 /\ SumFunctionOnSet(Loans, {}) = 0
  BY <1>3, SumEmpty
<1>5. Shelved(RowsAt(l)) = 0 /\ Lent(LoansFrom(l)) = 0
  BY <1>2, <1>4 DEF Shelved, Lent, Units, Loans
<1> QED BY <1>2, <1>5 DEF AddsUp

(* At every location the edit form has not touched, the units on the        *)
(* shelves and on loan are those brought there: _update_stock adds to the   *)
(* row what the assignment gives up, for any interleaving of checkouts,     *)
(* returns, updates, receipts, deletions and restores.                      *)
THEOREM ShelvesAlwaysAddUp == Spec => []ShelvesAddUp
BY StockInvariant, ShelvesInit, ShelvesStep, PTL DEF Spec

-----------------------------------------------------------------------------
(* Part 4: promises are covered *)

(* What a checkout and an update have seen of the availability holds until  *)
(* they save, since they hold the item.                                     *)
Ready(w) == tx[w] # Idle /\ tx[w].step = "save" =>
    /\ tx[w].op = "checkout" /\ ~tx[w].granted => Available >= tx[w].qty
    /\ tx[w].op = "update" => Available >= tx[w].qty - out[tx[w].n].qty

Covered == ~bypassed /\ ~Overallocate => Available >= 0 /\ \A w \in Workers : Ready(w)

LEMMA AvailableParts ==
    ASSUME StockTypeOK
    PROVE  /\ Available = Shelved(LiveRows) - Lent(LoansFrom(NoLocation))
           /\ Shelved(LiveRows) \in Int /\ Lent(LoansFrom(NoLocation)) \in Int
           /\ Available \in Int
<1>1. /\ IsFiniteSet(Rows) /\ Units \in [Rows -> Int] /\ LiveRows \in SUBSET Rows
      /\ IsFiniteSet(Requests) /\ Loans \in [Requests -> Int]
      /\ LoansFrom(NoLocation) \in SUBSET Requests
  BY SumsTyped DEF LiveRows, LoansFrom, Open
<1>2. /\ SumFunctionOnSet(Units, LiveRows) \in Int
      /\ SumFunctionOnSet(Loans, LoansFrom(NoLocation)) \in Int
  BY <1>1, SumType
<1>3. Shelved(LiveRows) \in Int /\ Lent(LoansFrom(NoLocation)) \in Int
  BY <1>2 DEF Shelved, Lent, Units, Loans
<1>4. Available = Shelved(LiveRows) - Lent(LoansFrom(NoLocation))
  BY DEF Available, LoansFrom
<1> QED BY <1>3, <1>4

LEMMA AvailableTyped ==
    /\ StockTypeOK => Available \in Int
    /\ StockTypeOK' => Available' \in Int
<1>1. StockTypeOK => Available \in Int
  BY AvailableParts
<1>2. StockTypeOK' => (Available \in Int)'
  BY <1>1, PTL
<1> QED BY <1>1, <1>2

(* A step of w, or a single step, that takes nothing. *)
LEMMA CoverStays ==
    ASSUME StockInv, StockInv', Covered, NEW w \in Workers \cup {Nobody},
           \A v \in Workers : v # w => tx'[v] = tx[v],
           \A a \in Requests : out'[a] = out[a] \/ Assigned(w, a),
           ~bypassed' => ~bypassed,
           ~bypassed' /\ ~Overallocate => Available' >= Available,
           w \in Workers /\ ~bypassed' /\ ~Overallocate => Ready(w)'
    PROVE  Covered'
<1> SUFFICES ASSUME ~bypassed', ~Overallocate PROVE Available' >= 0 /\ \A v \in Workers : Ready(v)'
  BY DEF Covered
<1>1. Available \in Int /\ Available' \in Int
  BY AvailableTyped DEF StockInv
<1>2. Available' >= Available /\ Available >= 0 /\ \A v \in Workers : Ready(v)
  BY DEF Covered
<1>3. ASSUME NEW v \in Workers, v # w PROVE Ready(v)'
  <2> SUFFICES ASSUME tx[v] # Idle, tx[v].step = "save"
               PROVE  /\ tx[v].op = "checkout" /\ ~tx[v].granted => Available' >= tx[v].qty
                      /\ tx[v].op = "update" => Available' >= tx[v].qty - out'[tx[v].n].qty
    BY <1>3 DEF Ready
  <2>1. tx[v].qty \in Int
    BY RequestRow DEF StockInv
  <2>2. CASE tx[v].op = "checkout" /\ ~tx[v].granted
    BY <1>1, <1>2, <2>1, <2>2 DEF Ready
  <2>3. CASE tx[v].op = "update"
    <3>1. Assigned(v, tx[v].n) /\ tx[v].n \in Requests
      BY <2>3 DEF StockInv, Knows, UpdateKnows
    <3>2. out'[tx[v].n] = out[tx[v].n]
      BY <1>3, <3>1 DEF Assigned
    <3>3. out[tx[v].n].qty \in Int
      BY <3>1, SumsTyped DEF StockInv
    <3>4. Available >= tx[v].qty - out[tx[v].n].qty
      BY <1>2, <2>3 DEF Ready
    <3> QED BY <1>1, <1>2, <2>1, <2>3, <3>2, <3>3, <3>4
  <2> QED BY <2>2, <2>3
<1>4. \A v \in Workers : Ready(v)'
  BY <1>3
<1> QED BY <1>1, <1>2, <1>4

(* Whoever holds the item and ends is alone with what it takes. *)
LEMMA HolderCovers ==
    ASSUME StockInv, NEW w \in Workers, lock[Item] = w, End(w),
           ~bypassed' /\ ~Overallocate => Available' >= 0
    PROVE  Covered'
<1>1. tx'[w] = Idle /\ \A v \in Workers : v # w => tx'[v] = tx[v]
  BY EndFacts DEF StockInv
<1>2. ASSUME NEW v \in Workers, v # w, tx[v] # Idle, tx[v].step = "save"
      PROVE  tx[v].op # "checkout" /\ tx[v].op # "update"
  BY <1>2 DEF StockInv, Knows, CheckoutKnows, UpdateKnows
<1>3. \A v \in Workers : Ready(v)'
  BY <1>1, <1>2 DEF Ready
<1> QED BY <1>3 DEF Covered

(* What a save does to the availability: the live row is written or none,   *)
(* and the assignment counts if it has no source.                           *)
LEMMA SaveAvailable ==
    ASSUME StockInv, StockInv', NEW w \in Workers, NEW diff \in Int, NEW row \in OutRow,
           NEW bypass, SaveWrites(w, diff, row, bypass), tx[w].n \in Requests
    PROVE  /\ OnLoan(row, NoLocation) \in Int /\ OnLoan(out[tx[w].n], NoLocation) \in Int
           /\ \E d \in Int :
                /\ d = 0 \/ (d = diff /\ tx[w].at # NoLocation)
                /\ Available' = Available + d - OnLoan(row, NoLocation)
                                    + OnLoan(out[tx[w].n], NoLocation)
<1> DEFINE n == tx[w].n
           L == Lent(LoansFrom(NoLocation))
           K == Shelved(LiveRows)
<1>0. StockTypeOK /\ StockTypeOK'
  BY DEF StockInv
<1>1. /\ L \in Int /\ OnLoan(out[n], NoLocation) \in Int /\ OnLoan(row, NoLocation) \in Int
      /\ L' = L - OnLoan(out[n], NoLocation) + OnLoan(row, NoLocation)
  <2>1. n \in Requests /\ AssignmentBecomes(n, row)
    BY DEF SaveWrites, AssignmentBecomes
  <2> HIDE DEF n
  <2> QED BY <1>0, <2>1, LoanMoves
<1>2. \E d \in Int : (d = 0 \/ (d = diff /\ tx[w].at # NoLocation)) /\ K' = K + d
  <2>0. K \in Int
    BY <1>0, AvailableParts
  <2>1. CASE pool' = pool
    <3>1. K' = K
      BY <2>1 DEF Shelved, LiveRows
    <3> HIDE DEF K
    <3> QED BY <2>0, <3>1
  <2>2. CASE tx[w].at \in Locations /\ \E r \in Rows : \E new : AdjustedTo(tx[w].at, diff, r, new)
    <3> PICK r \in Rows : \E new : AdjustedTo(tx[w].at, diff, r, new)
      BY <2>2
    <3> PICK new : AdjustedTo(tx[w].at, diff, r, new)
      OBVIOUS
    <3>1. Becomes(r, new) /\ new \in PoolRow /\ tx[w].at # NoLocation
      BY <2>2, StockConstants DEF AdjustedTo
    <3>2. /\ OnLive(pool[r]) \in Int /\ OnLive(new) \in Int
          /\ K' = K - OnLive(pool[r]) + OnLive(new)
      BY <1>0, <3>1, ShelfMoves
    <3>3. pool[r].qty \in Int
      BY <1>0, ColumnWritten
    <3>4. OnLive(new) - OnLive(pool[r]) \in {0, diff}
      BY <3>3 DEF AdjustedTo, OnLive
    <3> HIDE DEF K
    <3>5. /\ OnLive(new) - OnLive(pool[r]) \in Int
          /\ K' = K + (OnLive(new) - OnLive(pool[r]))
      BY <2>0, <3>2
    <3> QED BY <3>1, <3>4, <3>5
  <2> QED BY <2>1, <2>2 DEF SaveWrites
<1>3. PICK d \in Int : (d = 0 \/ (d = diff /\ tx[w].at # NoLocation)) /\ K' = K + d
  BY <1>2
<1>4. Available = K - L /\ K \in Int
  BY <1>0, AvailableParts
<1>5. Available' = K' - L'
  BY DEF Available, LoansFrom
<1> HIDE DEF K, L, n
<1>6. Available' = Available + d - OnLoan(row, NoLocation) + OnLoan(out[n], NoLocation)
  BY <1>1, <1>3, <1>4, <1>5
<1> USE DEF n
<1> QED BY <1>1, <1>3, <1>6

LEMMA CheckoutCovers ==
    ASSUME StockInv, StockInv', Covered, NEW w \in Workers, CheckoutSave(w), CheckoutWrites(w)
    PROVE  Covered'
<1> DEFINE row == [state |-> "open", from |-> tx[w].at, qty |-> tx[w].qty]
           diff == -tx[w].qty
           taken == OnLoan(row, NoLocation)
           given == OnLoan(out[tx[w].n], NoLocation)
<1>1. /\ tx[w].n \in Requests /\ tx[w].qty \in Nat /\ row \in OutRow /\ lock[Item] = w
      /\ out[tx[w].n].state = "none" /\ tx[w] # Idle /\ tx[w].granted \in BOOLEAN
  BY CheckoutRow DEF CheckoutSave
<1>2. SaveWrites(w, diff, row, tx[w].granted)
  BY DEF CheckoutWrites
<1>3. given = 0 /\ taken = IF tx[w].at = NoLocation THEN tx[w].qty ELSE 0
  BY <1>1 DEF OnLoan
<1>4. diff \in Int /\ diff = -tx[w].qty
  BY <1>1
<1>5. Available \in Int
  BY AvailableTyped DEF StockInv
<1>6. \E d \in Int : /\ d = 0 \/ (d = diff /\ tx[w].at # NoLocation)
                     /\ Available' = Available + d - taken + given
  <2> HIDE DEF row, diff
  <2> QED BY <1>1, <1>2, <1>4, SaveAvailable
<1>7. End(w) /\ bypassed' = (bypassed \/ tx[w].granted)
  BY DEF CheckoutWrites, SaveWrites
<1>8. ASSUME ~bypassed', ~Overallocate PROVE Available' >= 0
  <2>1. Available >= tx[w].qty
    <3>1. ~bypassed /\ ~tx[w].granted
      BY <1>7, <1>8
    <3> QED BY <1>1, <1>8, <3>1 DEF Covered, Ready, CheckoutSave, Doing
  <2> HIDE DEF taken, given, diff
  <2> QED BY <1>1, <1>3, <1>4, <1>5, <1>6, <2>1
<1> QED BY <1>1, <1>7, <1>8, HolderCovers

LEMMA UpdateCovers ==
    ASSUME StockInv, StockInv', Covered, NEW w \in Workers, UpdateSave(w), UpdateWrites(w)
    PROVE  Covered'
<1> DEFINE row == [out[tx[w].n] EXCEPT !.qty = tx[w].qty]
           old == out[tx[w].n].qty
           diff == old - tx[w].qty
           taken == OnLoan(row, NoLocation)
           given == OnLoan(out[tx[w].n], NoLocation)
<1>0. Doing(w, "update", "save")
  BY DEF UpdateSave
<1>1. /\ tx[w].n \in Requests /\ tx[w].qty \in Nat /\ old \in Nat /\ row \in OutRow
      /\ out[tx[w].n] \in OutRow /\ out[tx[w].n].from = tx[w].at /\ Assigned(w, tx[w].n)
      /\ lock[Item] = w /\ tx[w] # Idle
  BY <1>0, AssignedRow
<1>2. SaveWrites(w, diff, row, FALSE)
  BY DEF UpdateWrites
<1>3. /\ row.state = "open" /\ out[tx[w].n].state = "open"
      /\ row.from = tx[w].at /\ row.qty = tx[w].qty
  BY <1>1 DEF OutRow, Assigned
<1>4. given = (IF tx[w].at = NoLocation THEN old ELSE 0)
      /\ taken = (IF tx[w].at = NoLocation THEN tx[w].qty ELSE 0)
  <2> HIDE DEF row
  <2> QED BY <1>1, <1>3 DEF OnLoan
<1>5. diff \in Int /\ Available \in Int
  BY <1>1, AvailableTyped DEF StockInv
<1>6. \E d \in Int : /\ d = 0 \/ (d = diff /\ tx[w].at # NoLocation)
                     /\ Available' = Available + d - taken + given
  <2> HIDE DEF row, diff
  <2> QED BY <1>1, <1>2, <1>5, SaveAvailable
<1>7. End(w) /\ bypassed' = bypassed
  BY DEF UpdateWrites, SaveWrites, StockInv, StockTypeOK
<1>8. ASSUME ~bypassed', ~Overallocate PROVE Available' >= 0
  <2>1. Available >= tx[w].qty - old /\ Available >= 0
    BY <1>0, <1>1, <1>7, <1>8 DEF Covered, Ready, Doing
  <2>2. diff = old - tx[w].qty
    OBVIOUS
  <2> HIDE DEF taken, given, diff, old
  <2> QED BY <1>1, <1>4, <1>5, <1>6, <2>1, <2>2
<1> QED BY <1>1, <1>7, <1>8, HolderCovers

LEMMA ReturnCovers ==
    ASSUME StockInv, StockInv', Covered, NEW w \in Workers, ReturnSave(w), ReturnWrites(w)
    PROVE  Covered'
<1> DEFINE row == [out[tx[w].n] EXCEPT !.state = "returned"]
           diff == out[tx[w].n].qty
           taken == OnLoan(row, NoLocation)
           given == OnLoan(out[tx[w].n], NoLocation)
<1>0. Doing(w, "return", "save")
  BY DEF ReturnSave
<1>1. /\ tx[w].n \in Requests /\ diff \in Nat /\ row \in OutRow
      /\ out[tx[w].n] \in OutRow /\ Assigned(w, tx[w].n) /\ tx[w] # Idle
  BY <1>0, AssignedRow
<1>2. SaveWrites(w, diff, row, FALSE)
  BY DEF ReturnWrites
<1>3. row.state = "returned"
  BY <1>1 DEF OutRow
<1>4. taken = 0 /\ given \in Nat
  <2>1. taken = 0
    <3> HIDE DEF row
    <3> QED BY <1>3 DEF OnLoan
  <2> QED BY <1>1, <2>1 DEF OnLoan
<1>5. diff \in Int /\ Available \in Int
  BY <1>1, AvailableTyped DEF StockInv
<1>6. \E d \in Int : /\ d = 0 \/ (d = diff /\ tx[w].at # NoLocation)
                     /\ Available' = Available + d - taken + given
  <2> HIDE DEF row, diff
  <2> QED BY <1>1, <1>2, <1>5, SaveAvailable
<1>7. End(w) /\ bypassed' = bypassed
  BY DEF ReturnWrites, SaveWrites, StockInv, StockTypeOK
<1>8. Available' >= Available
  <2> HIDE DEF taken, given, diff
  <2> QED BY <1>1, <1>4, <1>5, <1>6
<1>9. (\A v \in Workers : v # w => tx'[v] = tx[v]) /\ tx'[w] = Idle
  BY <1>7, EndFacts DEF StockInv
<1>10. \A a \in Requests : out'[a] = out[a] \/ Assigned(w, a)
  BY <1>1 DEF ReturnWrites, SaveWrites, StockInv, StockTypeOK
<1>11. Ready(w)'
  BY <1>9 DEF Ready
<1>12. QED BY <1>7, <1>8, <1>9, <1>10, <1>11, CoverStays

(* A request only gets to save what it may take by the comparison with the  *)
(* availability.                                                            *)
LEMMA MovesTakeNothing ==
    ASSUME StockInv, NEW w \in Workers, Moves(w)
    PROVE  /\ \A v \in Workers : v # w => tx'[v] = tx[v]
           /\ \/ tx'[w] = Idle \/ tx'[w].step # "save"
              \/ tx'[w].op # "checkout" /\ tx'[w].op # "update"
              \/ /\ tx[w] # Idle /\ tx[w].step = "check"
                 /\ Enough(w) /\ Goto(w, "save")
<1>0. /\ StockTypeOK /\ tx \in [Workers -> Request \cup {Idle}] /\ Knows(w)
      /\ tx[w] # Idle => tx[w] \in Request
  BY DEF StockInv, StockTypeOK
<1>1. ASSUME Refuse(w) PROVE tx'[w] = Idle /\ \A v \in Workers : v # w => tx'[v] = tx[v]
  BY <1>0, <1>1, EndFacts DEF Refuse
<1>2. ASSUME NEW step \in Steps, Goto(w, step), tx[w] # Idle
      PROVE  /\ \A v \in Workers : v # w => tx'[v] = tx[v]
             /\ tx'[w] # Idle /\ tx'[w].step = step /\ tx'[w].op = tx[w].op
  BY <1>0, <1>2, GotoRow
<1>3. CASE Begin(w)
  <2> DEFINE Harmless(q) == q.step # "save" \/ (q.op # "checkout" /\ q.op # "update")
  <2>1. ASSUME NEW q, Serve(w, q), Harmless(q)
        PROVE  (\A v \in Workers : v # w => tx'[v] = tx[v]) /\ Harmless(tx'[w])
    <3>1. tx' = [tx EXCEPT ![w] = q]
      BY <2>1 DEF Serve
    <3>2. tx'[w] = q /\ \A v \in Workers : v # w => tx'[v] = tx[v]
      BY <1>0, <3>1
    <3> QED BY <2>1, <3>2
  <2>2. ASSUME NEW l, NEW q, NEW granted, CheckoutBegin(w, l, q, granted)
        PROVE  \E x : Serve(w, x) /\ Harmless(x)
    <3> DEFINE x == [Asks("checkout", "item", l, q, served + 1) EXCEPT !.granted = granted]
    <3>1. Serve(w, x)
      BY <2>2 DEF CheckoutBegin
    <3>2. x.step = "item"
      BY DEF Asks
    <3> HIDE DEF x
    <3> QED BY <3>1, <3>2
  <2>3. ASSUME NEW op, NEW step, NEW l, NEW q, NEW n, Serve(w, Asks(op, step, l, q, n)), step # "save"
        PROVE  \E x : Serve(w, x) /\ Harmless(x)
    <3>1. Asks(op, step, l, q, n).step = step
      BY DEF Asks
    <3> QED BY <2>3, <3>1
  <2>4. ASSUME NEW r, EditBegin(w, r) PROVE \E x : Serve(w, x) /\ Harmless(x)
    <3> DEFINE x == [Asks("edit", "save", pool[r].at, 0, 0) EXCEPT !.row = r]
    <3>1. Serve(w, x)
      BY <2>4 DEF EditBegin
    <3>2. x.op = "edit"
      BY DEF Asks
    <3> HIDE DEF x
    <3> QED BY <3>1, <3>2
  <2> HIDE DEF Harmless
  <2>5. \E x : Serve(w, x) /\ Harmless(x)
    BY <1>3, <2>2, <2>3, <2>4 DEF Begin, ReturnBegin, UpdateBegin, ReceiveBegin, ArchiveBegin
  <2>6. (\A v \in Workers : v # w => tx'[v] = tx[v]) /\ Harmless(tx'[w])
    BY <2>1, <2>5
  <2> QED BY <2>6 DEF Harmless
<1>4. CASE TakeAssignment(w)
  <2>1. tx[w] # Idle /\ tx[w].step = "assignment"
    BY <1>4 DEF TakeAssignment
  <2>2. tx[w].op # "checkout"
    BY <1>0, <2>1 DEF Knows, CheckoutKnows
  <2>3. \/ Refuse(w)
        \/ tx[w].op = "update" /\ Goto(w, "item")
        \/ tx[w].op # "update" /\ (Goto(w, "save") \/ Goto(w, "pool"))
    BY <1>4 DEF TakeAssignment, LockAndGoto
  <2>4. "item" \in Steps /\ "save" \in Steps /\ "pool" \in Steps
    BY DEF Steps
  <2> QED BY <1>1, <1>2, <2>1, <2>2, <2>3, <2>4
<1>5. CASE TakeItem(w)
  <2>1. tx[w] # Idle
    BY <1>5 DEF TakeItem
  <2>2. Refuse(w) \/ Goto(w, "list") \/ Goto(w, "check") \/ Goto(w, "pool")
    BY <1>5 DEF TakeItem, LockAndGoto
  <2>3. "list" \in Steps /\ "check" \in Steps /\ "pool" \in Steps
    BY DEF Steps
  <2> QED BY <1>1, <1>2, <2>1, <2>2, <2>3
<1>6. CASE TakePool(w)
  <2>1. tx[w] # Idle /\ tx[w].step = "pool"
    BY <1>6 DEF TakePool
  <2>2. tx[w].op # "update"
    BY <1>0, <2>1 DEF Knows, UpdateKnows
  <2>3. \/ tx[w].op = "checkout" /\ Goto(w, "check")
        \/ tx[w].op # "checkout" /\ Goto(w, "save")
    BY <1>6 DEF TakePool, LockAndGoto
  <2>4. "check" \in Steps /\ "save" \in Steps
    BY DEF Steps
  <2> QED BY <1>2, <2>1, <2>2, <2>3, <2>4
<1>7. CASE Check(w)
  <2>1. tx[w] # Idle /\ tx[w].step = "check" /\ (Refuse(w) \/ (Enough(w) /\ Goto(w, "save")))
    BY <1>7 DEF Check
  <2>2. "save" \in Steps
    BY DEF Steps
  <2> QED BY <1>1, <1>2, <2>1, <2>2
<1>8. CASE ArchiveList(w) \/ ArchiveStock(w)
  <2>1. tx[w] \in Request /\ tx[w].op = "archive"
    BY <1>0, <1>8 DEF ArchiveList, ArchiveStock, Doing
  <2>2. \E todo : \/ tx' = [tx EXCEPT ![w].step = "stock", ![w].todo = todo]
                  \/ tx' = [tx EXCEPT ![w].todo = todo]
    BY <1>8 DEF ArchiveList, ArchiveStock
  <2>3. \A v \in Workers : v # w => tx'[v] = tx[v]
    BY <1>0, <2>2
  <2>4. tx'[w].op = "archive"
    BY <1>0, <2>1, <2>2 DEF Request
  <2> QED BY <2>3, <2>4
<1> QED BY <1>1, <1>3, <1>4, <1>5, <1>6, <1>7, <1>8 DEF Moves, RollBack

LEMMA MovesCover ==
    ASSUME StockInv, StockInv', Covered, NEW w \in Workers, Moves(w)
    PROVE  Covered'
<1>1. UNCHANGED <<pool, out, bypassed>>
  BY MovesWriteNothing
<1>2. Available' = Available /\ Available \in Int
  BY <1>1, AvailableTyped DEF StockInv, Available, Shelved, Lent, LiveRows, Open
<1>3. ASSUME ~bypassed', ~Overallocate PROVE Ready(w)'
  <2>1. CASE tx[w] # Idle /\ tx[w].step = "check" /\ Enough(w) /\ Goto(w, "save")
    <3>1. /\ tx'[w].op = tx[w].op /\ tx'[w].qty = tx[w].qty
          /\ tx'[w].n = tx[w].n /\ tx'[w].granted = tx[w].granted
      <4>1. "save" \in Steps
        BY DEF Steps
      <4> QED BY <2>1, <4>1, GotoRow DEF StockInv
    <3>2. Available >= 0 /\ tx[w].qty \in Int
      BY <1>1, <1>3, <2>1, RequestRow DEF Covered, StockInv
    <3>3. tx[w].op = "checkout" /\ ~tx[w].granted => Available >= tx[w].qty
      BY <1>3, <2>1 DEF Enough
    <3>4. ASSUME tx[w].op = "update" PROVE Available >= tx[w].qty - out[tx[w].n].qty
      <4>1. tx[w].n \in Requests
        BY <2>1, <3>4 DEF StockInv, Knows, UpdateKnows
      <4>2. out[tx[w].n].qty \in Int
        BY <4>1, SumsTyped DEF StockInv
      <4>3. \/ Available >= tx[w].qty - out[tx[w].n].qty
            \/ tx[w].qty <= out[tx[w].n].qty
        BY <1>3, <2>1, <3>4 DEF Enough
      <4> QED BY <1>2, <3>2, <4>2, <4>3
    <3> QED BY <1>1, <1>2, <3>1, <3>3, <3>4 DEF Ready
  <2>2. CASE \/ tx'[w] = Idle \/ tx'[w].step # "save"
             \/ tx'[w].op # "checkout" /\ tx'[w].op # "update"
    BY <2>2 DEF Ready
  <2> QED BY <2>1, <2>2, MovesTakeNothing
<1>4. \A v \in Workers : v # w => tx'[v] = tx[v]
  BY MovesTakeNothing
<1>5. Available' >= Available
  BY <1>2
<1> QED BY <1>1, <1>3, <1>4, <1>5, CoverStays

(* One row is written that has no less on the shelves than before. *)
LEMMA RowCovers ==
    ASSUME StockInv, StockInv', Covered, NEW w \in Workers \cup {Nobody},
           \A v \in Workers : v # w => tx'[v] = tx[v],
           w \in Workers => tx'[w] = Idle,
           UNCHANGED <<out, bypassed>>, NEW r \in Rows, NEW new \in PoolRow, Becomes(r, new),
           ~Overallocate => OnLive(new) >= OnLive(pool[r])
    PROVE  Covered'
<1> DEFINE L == Lent(LoansFrom(NoLocation))
           K == Shelved(LiveRows)
<1>0. StockTypeOK
  BY DEF StockInv
<1>1. L' = L
  BY DEF Lent, LoansFrom, Open
<1>2. /\ K \in Int /\ OnLive(pool[r]) \in Int /\ OnLive(new) \in Int
      /\ K' = K - OnLive(pool[r]) + OnLive(new)
  BY <1>0, ShelfMoves
<1>3. Available = K - L /\ L \in Int /\ Available' = K' - L'
  BY <1>0, AvailableParts DEF Available, LoansFrom
<1> HIDE DEF K, L
<1>4. ~Overallocate => Available' >= Available
  BY <1>1, <1>2, <1>3
<1>5. w \in Workers => Ready(w)'
  BY DEF Ready
<1> QED BY <1>4, <1>5, CoverStays

LEMMA ReceivesCover ==
    ASSUME StockInv, StockInv', Covered, NEW w \in Workers, ReceiveNew(w) \/ ReceiveSave(w)
    PROVE  Covered'
<1>0. StockTypeOK
  BY DEF StockInv
<1>1. tx[w] # Idle /\ tx[w].op = "receive" /\ tx[w].qty \in 0 .. MaxQty /\ tx[w].at \in Locations
  BY RequestRow DEF StockInv, ReceiveNew, ReceiveSave, Doing, Knows, ReceiveKnows
<1>2. /\ UNCHANGED <<out, bypassed>> /\ tx[w].qty \in Nat
      /\ tx'[w] = Idle /\ \A v \in Workers : v # w => tx'[v] = tx[v]
  BY <1>0, <1>1, EndFacts DEF ReceiveNew, ReceiveSave
<1>3. CASE ReceiveNew(w)
  <2> DEFINE new == NewRow(tx[w].at, tx[w].qty)
  <2>1. PICK r \in Rows : pool[r].state = "none" /\ Becomes(r, new)
    BY <1>0, <1>1, <1>3, NewPoolRow DEF ReceiveNew
  <2>2. new \in PoolRow /\ new.state = "live" /\ new.qty = tx[w].qty
    BY <1>0, <1>1, <1>3, NewPoolRow DEF ReceiveNew
  <2> HIDE DEF new
  <2>3. OnLive(new) >= OnLive(pool[r])
    BY <1>2, <2>1, <2>2 DEF OnLive
  <2> QED BY <1>2, <2>1, <2>2, <2>3, RowCovers
<1>4. CASE ReceiveSave(w)
  <2>1. PICK r \in Rows : /\ pool[r].state = "live"
                          /\ Becomes(r, WithQty(r, pool[r].qty + tx[w].qty))
    BY <1>4, ReceivedRow
  <2> DEFINE q == pool[r].qty + tx[w].qty
             new == WithQty(r, q)
  <2>2. pool[r].qty \in Int
    BY <1>0, ColumnWritten
  <2>3. q \in Int /\ q >= pool[r].qty
    BY <1>2, <2>2
  <2>4. Becomes(r, new)
    BY <2>1
  <2> HIDE DEF q
  <2>5. new \in PoolRow /\ new.state = pool[r].state /\ new.qty = q
    BY <1>0, <2>3, ColumnWritten
  <2> HIDE DEF new
  <2>6. OnLive(new) >= OnLive(pool[r])
    BY <2>1, <2>3, <2>5 DEF OnLive
  <2> QED BY <1>2, <2>4, <2>5, <2>6, RowCovers
<1> QED BY <1>3, <1>4

LEMMA SingleStepsCover ==
    ASSUME StockInv, StockInv', Covered, OnOneRow
    PROVE  Covered'
<1>0. StockTypeOK /\ Nobody \notin Workers /\ (~Overallocate => \A r \in Rows : pool[r].qty >= 0)
  BY StockConstants DEF StockInv, StockTypeOK
<1>1. UNCHANGED <<out, tx>>
  BY DEF OnOneRow, CreatePool, AdjustPool, DeletePool, RestorePool, PurgePool, Edits
<1>2. ASSUME NEW l \in Locations, NEW q \in 0 .. MaxQty, CreatePool(l, q) PROVE Covered'
  <2> DEFINE new == NewRow(l, q)
  <2>1. PICK r \in Rows : pool[r].state = "none" /\ Becomes(r, new)
    BY <1>2, CreatedRow
  <2>2. new \in PoolRow /\ new.state = "live" /\ new.qty = q
    BY <1>2, CreatedRow
  <2>3. bypassed' = bypassed
    BY <1>2 DEF CreatePool
  <2> HIDE DEF new
  <2>4. OnLive(new) >= OnLive(pool[r])
    BY <2>1, <2>2, StockConstants DEF OnLive
  <2> QED BY <1>0, <1>1, <2>1, <2>2, <2>3, <2>4, RowCovers
<1>3. ASSUME NEW r \in Rows, NEW diff \in {-1, 1}, AdjustPool(r, diff) PROVE Covered'
  <2>1. CASE diff = -1
    <3>1. bypassed' = (bypassed \/ diff < 0)
      BY <1>3 DEF AdjustPool
    <3>2. diff < 0
      BY <2>1
    <3>3. bypassed'
      BY <3>1, <3>2, Zenon
    <3> QED BY <3>3 DEF Covered
  <2>2. CASE diff = 1
    <3> DEFINE q == pool[r].qty + diff
               new == WithQty(r, q)
    <3>1. pool[r].qty \in Int /\ Becomes(r, new) /\ pool[r].state = "live"
      BY <1>3, AdjustedPool DEF AdjustPool
    <3>2. q \in Int /\ q >= pool[r].qty
      BY <2>2, <3>1
    <3>3. bypassed' = bypassed
      BY <1>3, <2>2 DEF AdjustPool, StockInv, StockTypeOK
    <3> HIDE DEF q
    <3>4. new \in PoolRow /\ new.state = pool[r].state /\ new.qty = q
      BY <1>0, <3>2, ColumnWritten
    <3> HIDE DEF new
    <3>5. OnLive(new) >= OnLive(pool[r])
      BY <3>1, <3>2, <3>4 DEF OnLive
    <3> QED BY <1>0, <1>1, <3>1, <3>3, <3>4, <3>5, RowCovers
  <2> QED BY <2>1, <2>2
<1>4. ASSUME NEW r \in Rows, DeletePool(r) PROVE Covered'
  BY <1>4 DEF DeletePool, Covered
<1>5. ASSUME NEW r \in Rows, RestorePool(r) PROVE Covered'
  <2> DEFINE new == WithState(r, "live")
  <2>1. Becomes(r, new) /\ bypassed' = bypassed /\ pool[r].state # "live"
    BY <1>5, BinnedRow DEF RestorePool
  <2>2. new \in PoolRow /\ new.state = "live" /\ new.qty = pool[r].qty
    BY <1>0, ColumnWritten
  <2> HIDE DEF new
  <2>3. ~Overallocate => OnLive(new) >= OnLive(pool[r])
    BY <1>0, <2>1, <2>2 DEF OnLive
  <2> QED BY <1>0, <1>1, <2>1, <2>2, <2>3, RowCovers
<1>6. ASSUME NEW r \in Rows, PurgePool(r) PROVE Covered'
  <2>1. /\ Becomes(r, PurgedRow(r)) /\ PurgedRow(r) \in PoolRow /\ PurgedRow(r).state = "purged"
        /\ bypassed' = bypassed /\ pool[r].state # "live"
    BY <1>6, BinnedRow DEF PurgePool
  <2>2. OnLive(PurgedRow(r)) >= OnLive(pool[r])
    BY <2>1 DEF OnLive
  <2> QED BY <1>0, <1>1, <2>1, <2>2, RowCovers
<1> QED BY <1>2, <1>3, <1>4, <1>5, <1>6 DEF OnOneRow

(* Rows of natural quantities weigh more, the more there are. *)
LEMMA SumGrows ==
    ASSUME NEW U, IsFiniteSet(U), NEW f \in [U -> Int], NEW S \in SUBSET U, NEW V \in SUBSET S,
           \A x \in S : f[x] >= 0
    PROVE  SumFunctionOnSet(f, V) <= SumFunctionOnSet(f, S)
<1> DEFINE g == [x \in U |-> IF x \in V THEN f[x] ELSE 0]
<1>1. /\ g \in [U -> Int] /\ V \in SUBSET U /\ \A x \in V : g[x] = f[x]
      /\ \A x \in S : g[x] <= f[x] /\ (x \notin V => g[x] = 0)
  OBVIOUS
<1> HIDE DEF g
<1>2. SumFunctionOnSet(g, V) = SumFunctionOnSet(f, V)
  BY <1>1, SumSame
<1>3. SumFunctionOnSet(g, S) = SumFunctionOnSet(g, V)
  BY <1>1, SumRestrict
<1>4. SumFunctionOnSet(g, S) <= SumFunctionOnSet(f, S)
  BY <1>1, SumLeq
<1> QED BY <1>2, <1>3, <1>4

LEMMA RestoreItemCovers ==
    ASSUME StockInv, StockInv', Covered, RestoreItem
    PROVE  Covered'
<1>0. StockTypeOK /\ Nobody \notin Workers
  BY StockConstants DEF StockInv
<1>1. UNCHANGED <<out, tx, bypassed>>
  BY DEF RestoreItem, Edits
<1>2. PICK R \in SUBSET Rows : StatesMove(R, "live") /\ \A r \in R : pool[r].state = "archived"
  BY RestoreItemFacts
<1>3. \A r \in Rows : pool'[r] = IF r \in R THEN WithState(r, "live") ELSE pool[r]
  BY <1>2 DEF StatesMove
<1>4. \A r \in Rows : WithState(r, "live").state = "live" /\ WithState(r, "live").qty = pool[r].qty
  BY <1>0, ColumnWritten
<1>5. Units' = Units /\ LiveRows \in SUBSET (LiveRows') /\ LiveRows' \in SUBSET Rows
  BY <1>3, <1>4 DEF Units, LiveRows
<1>6. ASSUME ~Overallocate PROVE Available' >= Available
  <2>1. IsFiniteSet(Rows) /\ Units \in [Rows -> Int] /\ \A r \in Rows : Units[r] >= 0
    BY <1>0, <1>6, SumsTyped DEF Units, StockTypeOK
  <2> DEFINE A == LiveRows
             B == LiveRows'
  <2>2. SumFunctionOnSet(Units, A) <= SumFunctionOnSet(Units, B)
    <3>1. A \in SUBSET B /\ B \in SUBSET Rows
      BY <1>5
    <3> HIDE DEF A, B
    <3> QED BY <2>1, <3>1, SumGrows
  <2>3. SumFunctionOnSet(Units, B) \in Int
    BY <1>5, <2>1, SumType
  <2>4. Shelved(LiveRows) = SumFunctionOnSet(Units, A)
    BY DEF Shelved, Units
  <2>5. Shelved(LiveRows)' = SumFunctionOnSet(Units', B)
    BY DEF Shelved, Units
  <2>6. Lent(LoansFrom(NoLocation))' = Lent(LoansFrom(NoLocation))
    BY <1>1 DEF Lent, LoansFrom, Open
  <2>7. /\ Available = Shelved(LiveRows) - Lent(LoansFrom(NoLocation))
        /\ Available' = Shelved(LiveRows)' - Lent(LoansFrom(NoLocation))'
        /\ Shelved(LiveRows) \in Int /\ Lent(LoansFrom(NoLocation)) \in Int
    BY <1>0, AvailableParts DEF Available, LoansFrom
  <2>8. Shelved(LiveRows)' >= Shelved(LiveRows) /\ Shelved(LiveRows)' \in Int
    BY <1>5, <2>2, <2>3, <2>4, <2>5, <2>7
  <2> HIDE DEF A, B
  <2> QED BY <2>6, <2>7, <2>8
<1> QED BY <1>0, <1>1, <1>6, CoverStays

LEMMA ArchiveCovers ==
    ASSUME StockInv, StockInv', Covered, NEW w \in Workers, ArchiveCommit(w)
    PROVE  Covered'
<1>0. lock[Item] = w /\ Open = {} /\ End(w) /\ out' = out
  BY ArchiveCommitFacts DEF ArchiveCommit
<1>1. LoansFrom(NoLocation)' = {}
  BY <1>0 DEF LoansFrom, Open
<1>2. ASSUME ~Overallocate PROVE Available' >= 0
  <2>1. pool' \in [Rows -> PoolRow] /\ \A r \in Rows : pool'[r].qty >= 0
    BY <1>2 DEF StockInv, StockTypeOK, PoolRow
  <2> DEFINE f == Units'
             A == LiveRows'
  <2>2. /\ f \in [Rows -> Int] /\ A \in SUBSET Rows /\ IsFiniteSet(Rows)
        /\ \A r \in A : f[r] \in Nat
    BY <2>1, SumsTyped DEF Units, LiveRows, PoolRow, StockInv
  <2>3. SumFunctionOnSet(f, A) \in Nat
    <3> HIDE DEF f, A
    <3> QED BY <2>2, SumNat
  <2>4. Shelved(LiveRows)' = SumFunctionOnSet(f, A)
    BY DEF Shelved, Units
  <2>5. Lent({}) = 0 /\ Lent(LoansFrom(NoLocation))' = Lent({})
    <3>1. IsFiniteSet(Requests) /\ Loans \in [Requests -> Int]
      BY SumsTyped DEF StockInv
    <3>2. SumFunctionOnSet(Loans, {}) = 0
      BY <3>1, SumEmpty
    <3> QED BY <1>0, <1>1, <3>2 DEF Lent, Loans
  <2>6. Available' = Shelved(LiveRows)' - Lent(LoansFrom(NoLocation))'
    BY DEF Available, LoansFrom
  <2> HIDE DEF f, A
  <2> QED BY <2>3, <2>4, <2>5, <2>6
<1> QED BY <1>0, <1>2, HolderCovers

LEMMA CoveredStep == StockInv /\ StockInv' /\ Covered /\ [Next]_vars => Covered'
<1> SUFFICES ASSUME StockInv, StockInv', Covered, [Next]_vars PROVE Covered'
  OBVIOUS
<1>1. CASE UNCHANGED vars
  BY <1>1 DEF vars, Covered, Ready, Available, Shelved, Lent, LiveRows, Open
<1>2. ASSUME NEW w \in Workers, Moves(w) PROVE Covered'
  BY <1>2, MovesCover
<1>3. ASSUME NEW w \in Workers, Saves(w) PROVE Covered'
  BY <1>3, CheckoutCovers, UpdateCovers, ReturnCovers DEF Saves
<1>4. ASSUME NEW w \in Workers, Edited(w) PROVE Covered'
  BY <1>4 DEF Edited, EditWrites, Covered
<1>5. ASSUME NEW w \in Workers, ReceiveNew(w) \/ ReceiveSave(w) \/ ArchiveCommit(w) PROVE Covered'
  BY <1>5, ReceivesCover, ArchiveCovers
<1>6. CASE RestoreItem \/ OnOneRow
  BY <1>6, RestoreItemCovers, SingleStepsCover
<1> QED BY <1>1, <1>2, <1>3, <1>4, <1>5, <1>6, KindsOfSteps

LEMMA CoveredInit == Init => Covered
<1> SUFFICES ASSUME Init PROVE Available >= 0 /\ \A w \in Workers : Ready(w)
  BY DEF Covered
<1>1. StockTypeOK
  BY StockInit DEF StockInv
<1>2. LiveRows = {} /\ LoansFrom(NoLocation) = {} /\ \A w \in Workers : Ready(w)
  BY DEF Init, LiveRows, LoansFrom, Open, Ready
<1>3. IsFiniteSet(Rows) /\ Units \in [Rows -> Int]
      /\ IsFiniteSet(Requests) /\ Loans \in [Requests -> Int]
  BY <1>1, SumsTyped
<1>4. SumFunctionOnSet(Units, {}) = 0 /\ SumFunctionOnSet(Loans, {}) = 0
  BY <1>3, SumEmpty
<1>5. Shelved(LiveRows) = 0 /\ Lent(LoansFrom(NoLocation)) = 0
  BY <1>2, <1>4 DEF Shelved, Lent, Units, Loans
<1>6. Available = 0
  BY <1>1, <1>5, AvailableParts
<1> QED BY <1>2, <1>6

(* Nothing is promised without a source that is not on some shelf, unless   *)
(* somebody took units without looking at the item or the item may be       *)
(* over-allocated: checkouts and updates compare with the availability      *)
(* under the lock of the item and keep it until they save.                  *)
THEOREM PromisesStayCovered == Spec => []PromisesCovered
<1>1. Covered => PromisesCovered
  BY DEF Covered, PromisesCovered
<1>2. Spec => []Covered
  BY StockInvariant, CoveredInit, CoveredStep, PTL DEF Spec
<1> QED BY <1>1, <1>2, PTL
=============================================================================
