---------------------------- MODULE Procurement ----------------------------
(***************************************************************************)
(* Purchase orders of ITAMbox and the fulfillment of asset requests        *)
(* through them (procurement/services.py, archive_services.py and the      *)
(* order, line and receipt views of procurement/views.py).                 *)
(*                                                                         *)
(* Every service operation locks its order first, then lines, links and    *)
(* requests, and runs in one transaction: one step.  Two things are not    *)
(* under that lock and take several steps here: the receive form, which is *)
(* rendered, filled in and submitted (possibly twice, possibly from        *)
(* several tabs that share one session), and the line editor, which reads  *)
(* a line and writes it back.                                              *)
(***************************************************************************)
EXTENDS AssetRequests, FiniteSets, Functions

CONSTANTS
    Orders,         \* purchase orders
    Lines,          \* primary keys of order lines
    NoOrder,        \* the order of a line that does not exist yet
    Tabs,           \* receive forms open in the browser of one user
    Editors,        \* lines somebody may edit by hand
    Deleters,       \* lines somebody may delete by hand
    HandLines,      \* lines somebody may add by hand
    MaxQty          \* bound: quantity typed into a line or a receive form

ASSUME ProcurementAssumption ==
    /\ IsFiniteSet(Requests)
    /\ Lines \subseteq Nat
    /\ NoOrder \notin Orders
    /\ Editors \subseteq Lines /\ Deleters \subseteq Lines /\ HandLines \subseteq Lines
    /\ MaxQty \in Nat \ {0}

VARIABLES
    orders,     \* the PurchaseOrder table
    lines,      \* the PurchaseOrderLine table
    links,      \* the FulfillmentLink table: links[l][r] is r's share of l
    forms,      \* receive forms rendered so far
    session,    \* the session's receive_po_quantities
    edits       \* lines read by an editor that has not saved yet

pvars == <<requests, orders, lines, links, forms, session, edits>>

OrderStatuses == {"draft", "approved", "ordered", "partial", "received", "cancelled"}

Order == [status : OrderStatuses, archived : BOOLEAN]

(* state: a line deleted with its order is archived and comes back with it. *)
Line == [state : {"unused", "live", "deleted", "archived"}, order : Orders \cup {NoOrder},
         serialised : BOOLEAN, ordered : Nat, received : Nat]

Link == [state : {"none", "live", "closed"}, allocated : Nat, received : Nat]

(* A dictionary from lines to quantities. *)
IsQuantities(q) == DOMAIN q \subseteq Lines /\ q \in [DOMAIN q -> Nat]

Empty == [l \in {} |-> 0]

QtyOf(q, l) == IF l \in DOMAIN q THEN q[l] ELSE 0

(* page "quantities" is step 1 of the form, "assets" is step 2; entered is  *)
(* what the user typed in step 1, booked how often the form booked a line.  *)
IsForm(f) ==
    /\ f.page \in {"none", "quantities", "assets"} /\ f.order \in Orders \cup {NoOrder}
    /\ IsQuantities(f.expected) /\ IsQuantities(f.entered)
    /\ f.booked \in [Lines -> 0 .. 2]

NoForm == [page |-> "none", order |-> NoOrder, expected |-> Empty, entered |-> Empty,
           booked |-> [l \in Lines |-> 0]]

Edit == [open : BOOLEAN, received : Nat]

NoEdit == [open |-> FALSE, received |-> 0]

LiveLines(o) == {l \in Lines : lines[l].state = "live" /\ lines[l].order = o}

Outstanding(l) == IF lines[l].ordered > lines[l].received
                  THEN lines[l].ordered - lines[l].received ELSE 0

LinkOutstanding(k) == IF k.allocated > k.received THEN k.allocated - k.received ELSE 0

LiveLinks(l) == {r \in Requests : links[l][r].state = "live"}

LinksClosedAndReset(L, R) ==
    [l \in Lines |-> [r \in Requests |->
        IF l \in L /\ r \in R /\ links[l][r].state = "live"
        THEN [links[l][r] EXCEPT !.state = "closed", !.received = 0] ELSE links[l][r]]]

(* links after the live links of the requests R on the lines L are closed;  *)
(* what was received through them stays on record.                          *)
LinksClosed(L, R) ==
    [l \in Lines |-> [r \in Requests |->
        IF l \in L /\ r \in R /\ links[l][r].state = "live"
        THEN [links[l][r] EXCEPT !.state = "closed"] ELSE links[l][r]]]

-----------------------------------------------------------------------------
(* The order's lifecycle *)

Live(o) == ~orders[o].archived

Transition(o, from, to) ==
    /\ Live(o) /\ orders[o].status \in from
    /\ orders' = [orders EXCEPT ![o].status = to]

ApproveOrder(o) ==
    /\ LiveLines(o) # {}
    /\ Transition(o, {"draft"}, "approved")
    /\ UNCHANGED <<requests, lines, links, forms, session, edits>>

OrderOrder(o) ==
    /\ Transition(o, {"approved"}, "ordered")
    /\ UNCHANGED <<requests, lines, links, forms, session, edits>>

ReopenOrder(o) ==
    /\ Transition(o, {"cancelled"}, "draft")
    /\ UNCHANGED <<requests, lines, links, forms, session, edits>>

CancellableUntilReceived == {"draft", "approved", "ordered", "partial"}

(* _PURCHASE_ORDER_TRANSITIONS["cancel"] *)
Cancellable == {"draft", "approved", "ordered"}

RevertedSinglesOnly(o) ==
    {r \in Requests : /\ Parent[r] = NoRequest /\ Status(r) = "procurement"
                      /\ \E l \in LiveLines(o) : r \in LiveLinks(l)}

(* The requests that cancelling the order gives back: those of the live     *)
(* links of its live lines that still await procurement.                    *)
Reverted(o) ==
    {r \in Requests : Status(r) = "procurement" /\ \E l \in LiveLines(o) : r \in LiveLinks(l)}

(* Lines that carry a live link go with the order, the others stay. *)
CancelOrder(o) ==
    /\ Transition(o, Cancellable, "cancelled")
    /\ requests' = Released(Reverted(o), FALSE)
    /\ links' = LinksClosed(LiveLines(o), Requests)
    /\ lines' = [l \in Lines |-> IF l \in LiveLines(o) /\ LiveLinks(l) # {}
                                 THEN [lines[l] EXCEPT !.state = "deleted"] ELSE lines[l]]
    /\ UNCHANGED <<forms, session, edits>>

(* archive_purchase_order, restore_purchase_order *)
ArchiveOrder(o) ==
    /\ Live(o)
    /\ \A l \in LiveLines(o) : LiveLinks(l) = {}
    /\ orders' = [orders EXCEPT ![o].archived = TRUE]
    /\ lines' = [l \in Lines |-> IF l \in LiveLines(o)
                                 THEN [lines[l] EXCEPT !.state = "archived"] ELSE lines[l]]
    /\ UNCHANGED <<requests, links, forms, session, edits>>

RestoreOrder(o) ==
    /\ ~Live(o)
    /\ orders' = [orders EXCEPT ![o].archived = FALSE]
    /\ lines' = [l \in Lines |-> IF lines[l].order = o /\ lines[l].state = "archived"
                                 THEN [lines[l] EXCEPT !.state = "live"] ELSE lines[l]]
    /\ UNCHANGED <<requests, links, forms, session, edits>>

-----------------------------------------------------------------------------
(* Linking a request to an order *)

NewLine(o, serialised, qty) ==
    [state |-> "live", order |-> o, serialised |-> serialised,
     ordered |-> qty, received |-> 0]

(* The key of the next line among the keys K. *)
NextKey(l, K) == l \in K /\ \A m \in K : lines[m].state = "unused" <=> m >= l

(* _existing_fulfillment_link: a request that is linked already, here or    *)
(* elsewhere, is not linked again.                                          *)
Linked(r) == \E l \in Lines : LiveLinks(l) \cap ({r} \cup Targets(r)) # {}

SumQty(S) == SumFunctionOnSet([c \in Requests |-> requests[c].qty], S)

LinkRequest(r, o, l) ==
    /\ Live(o) /\ orders[o].status = "draft"
    /\ NextKey(l, Lines \ HandLines)
    /\ ~Linked(r)
    /\ Procure(r)
    /\ SumQty(Targets(r)) = requests[r].qty
    /\ lines' = [lines EXCEPT ![l] = NewLine(o, r \in Serialised, requests[r].qty)]
    /\ links' = [links EXCEPT ![l] = [c \in Requests |->
                    IF c \in Targets(r)
                    THEN [state |-> "live", allocated |-> requests[c].qty, received |-> 0]
                    ELSE links[l][c]]]
    /\ UNCHANGED <<orders, forms, session, edits>>

(* RequestCancelView also closes the links of the units it cancels. *)
CancelLinkedRequest(r) ==
    /\ CancelRequest(r)
    /\ links' = LinksClosed(Lines, {r} \cup CancelledUnits(r))
    /\ UNCHANGED <<orders, lines, forms, session, edits>>

-----------------------------------------------------------------------------
(* Receiving *)

(* _receivable_fulfillment_pairs *)
Receivable(l) ==
    {r \in LiveLinks(l) : /\ Status(r) = "procurement" /\ requests[r].asset = "none"
                          /\ LinkOutstanding(links[l][r]) > 0}

AttributedToEveryone(l, r, n) ==
    IF r \in Receivable(l) /\ n > 0 THEN LinkOutstanding(links[l][r]) ELSE 0

(* What the older requests on the line still wait for. *)
Ahead(l, r) == SumFunctionOnSet([c \in Requests |-> LinkOutstanding(links[l][c])],
                                {c \in Receivable(l) : c < r})

AttributedPastTheEnd(l, r, n) ==
    IF r \in Receivable(l) THEN n - Ahead(l, r) - LinkOutstanding(links[l][r]) ELSE 0

(* What the request r gets of n units received on l: the oldest request is  *)
(* served first, the surplus stays free stock.                              *)
Attributed(l, r, n) ==
    IF r \notin Receivable(l) \/ n <= Ahead(l, r) THEN 0
    ELSE IF n - Ahead(l, r) < LinkOutstanding(links[l][r]) THEN n - Ahead(l, r)
    ELSE LinkOutstanding(links[l][r])

CompletedPartially(o, q) ==
    {r \in Requests : \E l \in LiveLines(o) : Attributed(l, r, QtyOf(q, l)) > 0}

CompletedWithParent(o, q) ==
    {r \in Requests : \E l \in LiveLines(o), c \in {r} \cup SubRequests(r) :
        Attributed(l, c, QtyOf(q, l)) > 0}

(* The requests whose full share has arrived with the quantities q. *)
Completed(o, q) ==
    {r \in Requests : \E l \in LiveLines(o) :
        LET a == Attributed(l, r, QtyOf(q, l))
        IN  a > 0 /\ a = LinkOutstanding(links[l][r])}

AnyStateAccepted(l, expected) == l \in DOMAIN expected

(* _assert_receipt_state *)
StateAsExpected(l, expected) == l \in DOMAIN expected /\ expected[l] = lines[l].received

ReceiptAccepted(o, q, expected) ==
    /\ Live(o) /\ orders[o].status \in {"ordered", "partial"}
    /\ \A l \in LiveLines(o) :
         QtyOf(q, l) > 0 => StateAsExpected(l, expected) /\ QtyOf(q, l) <= Outstanding(l)

(* receive_purchase_order; a submission without quantities is a receipt too. *)
ReceivePurchaseOrder(o, q) ==
    /\ lines' = [l \in Lines |-> IF l \in LiveLines(o)
                                 THEN [lines[l] EXCEPT !.received = @ + QtyOf(q, l)] ELSE lines[l]]
    /\ links' = [l \in Lines |-> [r \in Requests |->
                    IF l \in LiveLines(o)
                    THEN [links[l][r] EXCEPT !.received = @ + Attributed(l, r, QtyOf(q, l))]
                    ELSE links[l][r]]]
    /\ requests' = Released(Completed(o, q), TRUE)
    /\ orders' = [orders EXCEPT ![o].status =
                    IF \E l \in LiveLines(o) : QtyOf(q, l) < Outstanding(l)
                    THEN "partial" ELSE "received"]

(* The form f after the quantities q were booked through it. *)
BookedThrough(f, q) ==
    [f EXCEPT !.booked = [l \in Lines |-> IF l \in LiveLines(f.order) /\ QtyOf(q, l) > 0 /\ @[l] < 2
                                          THEN @[l] + 1 ELSE @[l]]]

(* The form is rendered with the recorded quantities. *)
OpenForm(t, o) ==
    /\ Live(o)
    /\ forms' = [forms EXCEPT ![t] = [NoForm EXCEPT
                    !.page = "quantities", !.order = o,
                    !.expected = [l \in LiveLines(o) |-> lines[l].received]]]
    /\ UNCHANGED <<requests, orders, lines, links, session, edits>>

(* Step 1 is submitted: the quantities of serialised lines go to the        *)
(* session and step 2 is rendered with the same snapshot.                   *)
SubmitQuantities(t, q) ==
    /\ forms[t].page = "quantities" /\ Live(forms[t].order)
    /\ \E l \in DOMAIN q : q[l] > 0
    /\ \A l \in DOMAIN q : q[l] > 0 => l \in LiveLines(forms[t].order)
    /\ \E l \in DOMAIN q : q[l] > 0 /\ lines[l].serialised
    /\ session' = q
    /\ forms' = [forms EXCEPT ![t].page = "assets", ![t].entered = q]
    /\ UNCHANGED <<requests, orders, lines, links, edits>>

(* A stock receipt is booked from step 1, and the REST action books any     *)
(* receipt at once against the quantities its client read.  The page stays  *)
(* open: it can be submitted again.                                         *)
SubmitReceipt(t, q) ==
    /\ forms[t].page = "quantities"
    /\ \E l \in DOMAIN q : q[l] > 0
    /\ \A l \in DOMAIN q : q[l] > 0 => l \in LiveLines(forms[t].order)
    /\ ReceiptAccepted(forms[t].order, q, forms[t].expected)
    /\ ReceivePurchaseOrder(forms[t].order, q)
    /\ forms' = [forms EXCEPT ![t] = BookedThrough(@, q)]
    /\ UNCHANGED <<session, edits>>

(* Step 2 books the quantities of the session, not those of its own form. *)
SubmittedQuantities(t) == session

(* po.lines.get: every line the session names belongs to this order. *)
SubmitAssets(t) ==
    /\ forms[t].page = "assets"
    /\ DOMAIN SubmittedQuantities(t) \subseteq LiveLines(forms[t].order)
    /\ ReceiptAccepted(forms[t].order, SubmittedQuantities(t), forms[t].expected)
    /\ ReceivePurchaseOrder(forms[t].order, SubmittedQuantities(t))
    /\ session' = Empty
    /\ forms' = [forms EXCEPT ![t] = BookedThrough(@, SubmittedQuantities(t))]
    /\ UNCHANGED edits

-----------------------------------------------------------------------------
(* Lines by hand *)

(* PurchaseOrderLineAddView: for manual lines. *)
AddLine(o, l) ==
    /\ Live(o) /\ orders[o].status = "draft"
    /\ NextKey(l, HandLines)
    /\ \E serialised \in BOOLEAN, qty \in 1 .. MaxQty :
         lines' = [lines EXCEPT ![l] = NewLine(o, serialised, qty)]
    /\ UNCHANGED <<requests, orders, links, forms, session, edits>>

(* PurchaseOrderLineEditView reads the line and checks the status without a *)
(* lock ...                                                                 *)
ReadForEdit(l) ==
    /\ l \in Editors /\ ~edits[l].open
    /\ lines[l].state = "live" /\ orders[lines[l].order].status = "draft"
    /\ edits' = [edits EXCEPT ![l] = [open |-> TRUE, received |-> lines[l].received]]
    /\ UNCHANGED <<requests, orders, lines, links, forms, session>>

(* ... and saves the whole row as it was read, with the new quantity. *)
SaveEdit(l) ==
    /\ edits[l].open
    /\ \E qty \in 1 .. MaxQty :
         lines' = [lines EXCEPT ![l].ordered = qty, ![l].received = edits[l].received,
                                ![l].state = "live"]
    /\ edits' = [edits EXCEPT ![l] = NoEdit]
    /\ UNCHANGED <<requests, orders, links, forms, session>>

(* The line is deleted alone: its links stay.  Only the HTMX path asks for  *)
(* a draft order.                                                           *)
DeleteLine(l) ==
    /\ l \in Deleters /\ lines[l].state = "live"
    /\ lines' = [lines EXCEPT ![l].state = "deleted"]
    /\ UNCHANGED <<requests, orders, links, forms, session, edits>>

-----------------------------------------------------------------------------
Init ==
    /\ RequestInit
    /\ orders = [o \in Orders |-> [status |-> "draft", archived |-> FALSE]]
    /\ lines = [l \in Lines |-> [state |-> "unused", order |-> NoOrder,
                                 serialised |-> FALSE, ordered |-> 0, received |-> 0]]
    /\ links = [l \in Lines |-> [r \in Requests |->
                    [state |-> "none", allocated |-> 0, received |-> 0]]]
    /\ forms = [t \in Tabs |-> NoForm]
    /\ session = Empty
    /\ edits = [l \in Lines |-> NoEdit]

OrderOperation(o) ==
    \/ ApproveOrder(o) \/ OrderOrder(o) \/ CancelOrder(o) \/ ReopenOrder(o)
    \/ ArchiveOrder(o) \/ RestoreOrder(o)

(* The quantities a user can type into the form, for the lines it offers:   *)
(* those with something outstanding over its snapshot.                      *)
Typed(t) ==
    [{l \in DOMAIN forms[t].expected : lines[l].ordered > forms[t].expected[l]} -> 0 .. MaxQty]

Next ==
    \/ RequestOperation /\ UNCHANGED <<orders, lines, links, forms, session, edits>>
    \/ \E r \in Requests : CancelLinkedRequest(r)
    \/ \E o \in Orders : OrderOperation(o)
    \/ \E r \in Requests, o \in Orders, l \in Lines : LinkRequest(r, o, l)
    \/ \E t \in Tabs, o \in Orders : OpenForm(t, o)
    \/ \E t \in Tabs : \E q \in Typed(t) : SubmitQuantities(t, q) \/ SubmitReceipt(t, q)
    \/ \E t \in Tabs : SubmitAssets(t)
    \/ \E o \in Orders, l \in Lines : AddLine(o, l)
    \/ \E l \in Lines : ReadForEdit(l) \/ SaveEdit(l) \/ DeleteLine(l)

Spec == Init /\ [][Next]_pvars

-----------------------------------------------------------------------------
(* Properties *)

(* Every table, form and dictionary has its type. *)
ProcurementTypeOK ==
    /\ RequestTypeOK
    /\ orders \in [Orders -> Order]
    /\ lines \in [Lines -> Line]
    /\ links \in [Lines -> [Requests -> Link]]
    /\ DOMAIN forms = Tabs /\ \A t \in Tabs : IsForm(forms[t])
    /\ IsQuantities(session)
    /\ edits \in [Lines -> Edit]

(* The ledger: no request is credited with more than its share, and the     *)
(* credits of a line, those of closed links included, never exceed what was *)
(* received on it (_attribute_quantity_receipt, _receive_asset_line).       *)
LinkLedger ==
    \A l \in Lines :
        /\ \A r \in Requests : links[l][r].received <= links[l][r].allocated
        /\ SumFunctionOnSet([r \in Requests |-> links[l][r].received], Requests)
             <= lines[l].received

(* "Retries, double-clicks, replays, and parallel duplicates of the same    *)
(* operation therefore never book stock twice": no rendered form books the  *)
(* same line twice, however often it is submitted and whatever other tabs   *)
(* do in between, and no line receives more than was ordered.               *)
BooksOnce ==
    /\ \A t \in Tabs, l \in Lines : forms[t].booked[l] <= 1
    /\ \A l \in Lines : lines[l].received <= lines[l].ordered

(* A request unit that awaits procurement has exactly one live link, with   *)
(* something outstanding, on a live line of an order that still exists and  *)
(* is not cancelled: "an open asset request is being supplied by that line, *)
(* so the order cannot disappear underneath it".                            *)
UnitHasSupply ==
    \A r \in Requests : (Status(r) = "procurement" /\ ~IsGroup(r)) =>
        \E l \in Lines :
            /\ {m \in Lines : r \in LiveLinks(m)} = {l}
            /\ LinkOutstanding(links[l][r]) > 0
            /\ lines[l].state = "live" /\ Live(lines[l].order)
            /\ orders[lines[l].order].status # "cancelled"

(* Deliveries survive: an order that is cancelled, reopened or on its way   *)
(* to the supplier has received nothing, so no cancellation throws a        *)
(* delivery away and a reopened order starts from zero.                     *)
NothingReceivedIsLost ==
    \A o \in Orders : orders[o].status \notin {"partial", "received"}
                          => \A l \in LiveLines(o) : lines[l].received = 0

(* A unit leaves procurement for approved only because its full share has   *)
(* arrived or because its order is being cancelled ("a request becomes      *)
(* approved only once its full reserved quantity has arrived").             *)
ApprovalNeedsDelivery ==
    [][\A r \in Requests :
        (~IsGroup(r) /\ Status(r) = "procurement" /\ requests'[r].status = "approved") =>
            \E l \in Lines :
                /\ r \in LiveLinks(l)
                /\ \/ LinkOutstanding(links'[l][r]) = 0
                   \/ orders'[lines[l].order].status = "cancelled"]_pvars

(* "the delivered quantity stays recorded on the closed link": what a link  *)
(* was credited with is never taken back, and a closed link is never        *)
(* credited or opened again.                                                *)
AttributionIsKept ==
    [][\A l \in Lines, r \in Requests :
        /\ links'[l][r].received >= links[l][r].received
        /\ links[l][r].state = "closed" => links'[l][r] = links[l][r]]_pvars

(* Seen through its requests, procurement behaves as AssetRequests says:    *)
(* linking, receiving and cancelling orders are Procure and Release steps.  *)
ImplementsRequests == RequestSpec

(* "another tab ... never changes an already-issued submission": step 2     *)
(* books what was typed in step 1 of the same form.  The code does not meet *)
(* this (README, section 6); no run states it.                              *)
SubmissionIsItsOwn ==
    [][\A t \in Tabs : SubmitAssets(t) => SubmittedQuantities(t) = forms[t].entered]_pvars
=============================================================================
