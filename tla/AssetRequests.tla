--------------------------- MODULE AssetRequests ---------------------------
(***************************************************************************)
(* Asset requests of ITAMbox (assets/models/requests.py,                   *)
(* assets/views/request_views.py, assets/services/request_fulfillment.py   *)
(* and the checkout signal in assets/signals.py).                          *)
(*                                                                         *)
(* A request is a single request, or a group: a parent with one request    *)
(* unit per serialised item.  Every operation locks the request it is      *)
(* about and runs in one transaction, so it is one step; an operation the  *)
(* code refuses changes nothing and is not a step.                         *)
(*                                                                         *)
(* The procurement side is seen here only through what it does to          *)
(* requests: Procure and Release.  Module Procurement says when it does    *)
(* them.                                                                   *)
(***************************************************************************)
EXTENDS Naturals

CONSTANTS
    Requests,       \* primary keys; a smaller one is the older request
    Parent,         \* Parent[r]: the group r is a unit of, or NoRequest
    NoRequest,      \* parent NULL
    Serialised,     \* requests for an asset type; the others are for stock
    Qty             \* the requested quantities

ASSUME RequestAssumption ==
    /\ Requests \subseteq Nat
    /\ NoRequest \notin Requests
    /\ Parent \in [Requests -> Requests \cup {NoRequest}]
    /\ \A r \in Requests : Parent[r] # NoRequest => Parent[Parent[r]] = NoRequest
    /\ \A r \in Requests : Parent[r] # NoRequest => {r, Parent[r]} \subseteq Serialised
    /\ Serialised \subseteq Requests
    /\ Qty \in [Requests -> Nat \ {0}]

VARIABLE requests   \* the AssetRequest table

Statuses == {"pending", "approved", "procurement", "denied", "fulfilled", "cancelled"}

Terminal == {"fulfilled", "denied", "cancelled"}

(* The asset allocated to a request: none, one in stock, or one that is     *)
(* checked out.                                                             *)
Request == [status : Statuses, asset : {"none", "held", "out"}, qty : Nat \ {0}]

(* VALID_TRANSITIONS: every save() of a request is refused otherwise. *)
ValidTransitions(old) ==
    CASE old = "pending"     -> {"approved", "denied", "cancelled", "fulfilled"}
      [] old = "approved"    -> {"fulfilled", "cancelled", "procurement"}
      [] old = "procurement" -> {"fulfilled", "cancelled", "approved"}
      [] OTHER               -> {}

MaySave(S, new) ==
    \A r \in S : new # requests[r].status => new \in ValidTransitions(requests[r].status)

Status(r) == requests[r].status

SubRequests(r) == {c \in Requests : Parent[c] = r}

IsGroup(r) == SubRequests(r) # {}

(* The rows after the statuses of S become new. *)
Moved(S, new) ==
    [r \in Requests |-> IF r \in S THEN [requests[r] EXCEPT !.status = new] ELSE requests[r]]

(* The rows after the units S are completed; those whose handover is        *)
(* recorded hold the asset that left with it.                               *)
Fulfilled(S, handover) ==
    [r \in Requests |-> IF r \notin S THEN requests[r]
                        ELSE [requests[r] EXCEPT
                                !.status = "fulfilled",
                                !.asset  = IF handover /\ r \in Serialised THEN "out" ELSE @]]

-----------------------------------------------------------------------------
(* The operations *)

RequestInit == requests = [r \in Requests |->
                    [status |-> "pending", asset |-> "none", qty |-> Qty[r]]]

(* Approval of a group approves its units that are still pending.  The      *)
(* approver may allocate an asset to a serialised request and may lower the *)
(* quantity of a stock request.                                             *)
ApproveRequest(r) ==
    /\ Status(r) = "pending"
    /\ \E asset \in {"none", "held"}, qty \in 1 .. requests[r].qty :
         /\ asset = "held" => r \in Serialised
         /\ qty # requests[r].qty => r \notin Serialised
         /\ LET units == {c \in SubRequests(r) : Status(c) = "pending"}
            IN  requests' = [Moved({r} \cup units, "approved") EXCEPT
                                ![r].asset = asset, ![r].qty = qty]

DenyRequest(r) ==
    /\ Status(r) = "pending"
    /\ requests' = Moved({r} \cup {c \in SubRequests(r) : Status(c) = "pending"}, "denied")

(* The units a cancellation closes with its request: a denied unit is one   *)
(* of them, although no transition leads from denied to cancelled.          *)
CancelledUnits(r) == {c \in SubRequests(r) : Status(c) \notin {"cancelled", "fulfilled"}}

CancelRequest(r) ==
    /\ Status(r) \in {"pending", "approved", "procurement"}
    /\ ~(Status(r) = "approved" /\ requests[r].asset = "out")
    /\ MaySave(CancelledUnits(r), "cancelled")
    /\ requests' = Moved({r} \cup CancelledUnits(r), "cancelled")

(* _claim_units, and the same selection of manually_complete_request: every *)
(* open unit of a group has to be approved.                                 *)
OpenUnits(r) == {c \in SubRequests(r) : Status(c) \notin Terminal}

CompletableUnits(r) == IF IsGroup(r) THEN OpenUnits(r) ELSE {r}

Completable(r) ==
    /\ Status(r) = "approved"
    /\ CompletableUnits(r) # {}
    /\ \A c \in CompletableUnits(r) : Status(c) = "approved"

(* auto_fulfill_asset_requests: the parent of a unit that was just          *)
(* completed is completed once no unit is open and it is approved itself.   *)
ParentCompleted(rows, r) ==
    [p \in Requests |->
        IF /\ p = Parent[r]
           /\ rows[p].status = "approved"
           /\ \A c \in SubRequests(p) : rows[c].status \in Terminal
        THEN [rows[p] EXCEPT !.status = "fulfilled"]
        ELSE rows[p]]

(* RequestClaimView: every unit is checked out and completed, then the      *)
(* group.  The unit's own parent is completed only by the signal, which     *)
(* looks at checkouts to an asset holder.                                   *)
ClaimRequest(r) ==
    /\ Completable(r)
    /\ \A c \in CompletableUnits(r) \cap Serialised : requests[c].asset = "held"
    /\ LET rows == Fulfilled(CompletableUnits(r), TRUE)
       IN  IF IsGroup(r)
           THEN requests' = [rows EXCEPT ![r].status = "fulfilled"]
           ELSE requests' \in {rows, ParentCompleted(rows, r)}

(* manually_complete_request: no handover is booked. *)
ManuallyCompleteRequest(r) ==
    /\ Completable(r)
    /\ LET rows == Fulfilled(CompletableUnits(r), FALSE)
       IN  requests' = IF IsGroup(r) THEN [rows EXCEPT ![r].status = "fulfilled"] ELSE rows

MatchesAnyOpenUnit(r) ==
    /\ ~IsGroup(r) /\ r \in Serialised
    /\ Status(r) \notin Terminal

(* The units the signal may complete after a checkout that is not a claim:  *)
(* never a group, and never one that awaits procurement.                    *)
MatchesCheckout(r) ==
    /\ ~IsGroup(r) /\ r \in Serialised
    /\ Status(r) \in {"pending", "approved"}
    /\ requests[r].asset \in {"none", "held"}

(* A matching asset is checked out to the holder the unit is for. *)
AutoFulfill(r) ==
    /\ MatchesCheckout(r)
    /\ requests' = ParentCompleted(Fulfilled({r}, TRUE), r)

(* The allocated asset is checked out to somebody else, or comes back. *)
CheckoutElsewhere(r) ==
    /\ Status(r) \notin Terminal /\ requests[r].asset = "held"
    /\ requests' = [requests EXCEPT ![r].asset = "out"]

CheckinAsset(r) ==
    /\ Status(r) \notin Terminal /\ requests[r].asset = "out"
    /\ requests' = [requests EXCEPT ![r].asset = "held"]

(* RequestBulkReceiveView creates an asset and allocates it. *)
BulkReceive(r) ==
    /\ Status(r) = "approved" /\ ~IsGroup(r) /\ r \in Serialised
    /\ requests[r].asset = "none"
    /\ requests' = [requests EXCEPT ![r].asset = "held"]

-----------------------------------------------------------------------------
(* What procurement does to requests *)

(* The units that are ordered for a request. *)
Targets(r) == IF IsGroup(r) THEN SubRequests(r) ELSE {r}

(* A request is procured as a whole: through the group parent, with every   *)
(* unit approved and one serialised item per unit.                          *)
Procurable(r) ==
    /\ Parent[r] = NoRequest
    /\ \A c \in {r} \cup Targets(r) : Status(c) = "approved"
    /\ \A c \in Targets(r) \cap Serialised : requests[c].qty = 1

Procure(r) ==
    /\ Procurable(r)
    /\ requests' = Moved({r} \cup Targets(r), "procurement")

CompletedParentsOfAny(D) ==
    {p \in Requests : (\E c \in D : p = Parent[c]) /\ Status(p) = "procurement"}

(* _approve_completed_group_parents: parents in procurement none of whose   *)
(* units is in procurement once the units D have left it.                   *)
CompletedParents(D) ==
    {p \in Requests : /\ \E c \in D : p = Parent[c]
                      /\ Status(p) = "procurement"
                      /\ \A c \in SubRequests(p) : Status(c) = "procurement" => c \in D}

(* The units D leave procurement, with the asset they received if they are  *)
(* served and not just given back.                                          *)
Released(D, served) ==
    [r \in Requests |->
        IF r \in D \cup CompletedParents(D)
        THEN [requests[r] EXCEPT
                !.status = "approved",
                !.asset  = IF served /\ r \in D \cap Serialised THEN "held" ELSE @]
        ELSE requests[r]]

Release(D) ==
    /\ \A r \in D : Status(r) = "procurement" /\ ~IsGroup(r)
    /\ \E served \in BOOLEAN :
         /\ served => \A r \in D : requests[r].asset = "none"
         /\ requests' = Released(D, served)

-----------------------------------------------------------------------------
RequestOperation ==
    \E r \in Requests :
        \/ ApproveRequest(r)
        \/ DenyRequest(r)
        \/ ClaimRequest(r)
        \/ ManuallyCompleteRequest(r)
        \/ AutoFulfill(r)
        \/ CheckoutElsewhere(r)
        \/ CheckinAsset(r)
        \/ BulkReceive(r)

RequestNext ==
    \/ RequestOperation
    \/ \E r \in Requests : CancelRequest(r)
    \/ \E r \in Requests : Procure(r)
    \/ \E D \in SUBSET Requests : Release(D)

RequestSpec == RequestInit /\ [][RequestNext]_requests

-----------------------------------------------------------------------------
(* Properties *)

(* Every row has its type. *)
RequestTypeOK == requests \in [Requests -> Request]

(* A unit awaits procurement only under a parent that does, whatever        *)
(* individual decisions, cancellations, handovers and partial deliveries    *)
(* happened to its siblings: the guards of linking and                      *)
(* _approve_completed_group_parents keep the two levels together.           *)
UnitsAwaitWithParent ==
    \A c \in Requests : (Parent[c] # NoRequest /\ Status(c) = "procurement")
                            => Status(Parent[c]) = "procurement"

(* A cancelled or fulfilled group has no unit left to work on: neither      *)
(* RequestCancelView nor any of the three ways to complete a group leaves   *)
(* an open unit behind.                                                     *)
ClosedGroupIsClosed ==
    \A c \in Requests : (Parent[c] # NoRequest /\ Status(Parent[c]) \in {"cancelled", "fulfilled"})
                            => Status(c) \in Terminal

GroupInv == UnitsAwaitWithParent /\ ClosedGroupIsClosed

LifecycleStep ==
    \A r \in Requests :
        /\ Status(r) \in Terminal => requests'[r].status = Status(r)
        /\ Status(r) = "procurement" => requests'[r].status # "fulfilled"

(* No operation changes a denied, fulfilled or cancelled request, and a     *)
(* request that awaits procurement is never completed by a checkout or a    *)
(* manual completion: it is delivered or given back first                   *)
(* (complete_request_from_checkout, manually_complete_request).             *)
RequestLifecycle == [][LifecycleStep]_requests

(* "Pending: approve, deny, or cancel": a pending group can be cancelled.   *)
(* The code does not meet this (README, section 6); no run states it.       *)
PendingCanBeCancelled ==
    \A r \in Requests : Status(r) = "pending" => ENABLED CancelRequest(r)
=============================================================================
