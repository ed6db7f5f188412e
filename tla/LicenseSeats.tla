---------------------------- MODULE LicenseSeats ----------------------------
(***************************************************************************)
(* Seats of software licenses.  Every writer is a transaction on           *)
(* PostgreSQL under READ COMMITTED: it takes row locks one after the       *)
(* other, reads what is committed, and writes when it commits.  A checkout *)
(* and a kit checkout lock each license they draw on, a REST update locks  *)
(* the seat and then the license it moves the seat to; the quick-add form  *)
(* and the recycle bin lock nothing and check early or not at all.         *)
(*                                                                         *)
(* A seat row is named by the request that inserts it and the license it   *)
(* is inserted for.  The lock a kit checkout takes on the rows of its own  *)
(* kit only orders checkouts of the same kit and is left out; its devices  *)
(* are the assets of AssetCustody.                                         *)
(***************************************************************************)
EXTENDS Naturals, Sequences, FiniteSets

CONSTANTS
    Licenses,
    Kits,       \* the licenses of each kit, in the order of the kit's rows
    Targets,    \* assets and holders
    NoTarget,
    Clerks,     \* sessions that run one request at a time
    Archivable, \* licenses an operator archives and restores
    Adjustable, \* licenses whose seat count an operator changes
    MaxInserts, \* bound: requests that insert seats
    MaxSeats    \* bound: seats of a license

ASSUME SeatConstants ==
    /\ IsFiniteSet(Licenses)
    /\ Kits \subseteq Seq(Licenses)
    /\ Archivable \subseteq Licenses /\ Adjustable \subseteq Licenses
    /\ NoTarget \notin Targets
    /\ MaxInserts \in Nat /\ MaxSeats \in Nat \ {0}

VARIABLES
    license,    \* License rows: seats bought, archived
    seat,       \* LicenseSeatAssignment rows
    tx,         \* what each request holds: its plan and its row locks
    inserts     \* inserting requests so far

vars == <<license, seat, tx, inserts>>

Rows == (1 .. MaxInserts) \X Licenses

(* checked: the row came to its license through a capacity check under the  *)
(* lock of that license.                                                    *)
Seat == [state : {"none", "held", "released"}, license : Licenses,
         target : Targets \cup {NoTarget}, checked : BOOLEAN]

(* What a request is doing: issue and move lock licenses in the order of    *)
(* todo and own those in got; patch and move are about one row.             *)
Request == [op : {"idle", "issue", "quick", "patch", "move"},
            todo : Seq(Licenses), got : SUBSET Licenses,
            target : Targets \cup {NoTarget}, n : 0 .. MaxInserts,
            row : SUBSET Rows, seen : SUBSET Licenses]

Idle == [op |-> "idle", todo |-> <<>>, got |-> {}, target |-> NoTarget,
         n |-> 0, row |-> {}, seen |-> {}]

SeatTypeOK ==
    /\ license \in [Licenses -> [seats : 0 .. MaxSeats, archived : BOOLEAN]]
    /\ seat \in [Rows -> Seat]
    /\ tx \in [Clerks -> Request]
    /\ inserts \in 0 .. MaxInserts
    /\ \A c, d \in Clerks : c # d => tx[c].got \cap tx[d].got = {}

Init ==
    /\ license = [l \in Licenses |-> [seats |-> 1, archived |-> FALSE]]
    /\ seat = [a \in Rows |-> [state |-> "none", license |-> a[2],
                               target |-> NoTarget, checked |-> FALSE]]
    /\ tx = [c \in Clerks |-> Idle]
    /\ inserts = 0
-----------------------------------------------------------------------------
Held(l) == {a \in Rows : seat[a].state = "held" /\ seat[a].license = l}

Available(l) == ~license[l].archived /\ Cardinality(Held(l)) < license[l].seats

(* The partial unique constraint: a target holds one live seat per license. *)
HoldsSeat(l, t) == \E a \in Held(l) : seat[a].target = t

LicenseFreeAlways(l, c) == TRUE

(* Row locks of other transactions. *)
LicenseFree(l, c) == \A d \in Clerks \ {c} : l \notin tx[d].got

RowFree(a, c) == \A d \in Clerks \ {c} : tx[d].op = "move" => a \notin tx[d].row

(* The request is answered; its transaction and its locks are over. *)
Answer(c) == tx' = [tx EXCEPT ![c] = Idle]

Refuse(c) == Answer(c) /\ UNCHANGED <<license, seat, inserts>>
-----------------------------------------------------------------------------
(* checkout_license for one license, checkout_kit for those of a kit. *)
IssueBegin(c, pools, t) ==
    /\ tx[c].op = "idle"
    /\ inserts < MaxInserts
    /\ inserts' = inserts + 1
    /\ tx' = [tx EXCEPT ![c] = [Idle EXCEPT !.op = "issue", !.todo = pools,
                                            !.target = t, !.n = inserts + 1]]
    /\ UNCHANGED <<license, seat>>

(* The next license is locked and its capacity read under the lock. *)
LockLicense(c) ==
    /\ tx[c].op \in {"issue", "move"}
    /\ tx[c].todo # <<>>
    /\ LET l == Head(tx[c].todo) IN
       /\ LicenseFree(l, c)
       /\ IF Available(l)
          THEN /\ tx' = [tx EXCEPT ![c].todo = Tail(@), ![c].got = @ \cup {l}]
               /\ UNCHANGED <<license, seat, inserts>>
          ELSE Refuse(c)

(* One seat on every license that was locked, or none. *)
Issue(c) ==
    /\ tx[c].op = "issue"
    /\ tx[c].todo = <<>>
    /\ IF \E l \in tx[c].got : HoldsSeat(l, tx[c].target)
       THEN Refuse(c)
       ELSE /\ seat' = [a \in Rows |->
                    IF a[1] = tx[c].n /\ a[2] \in tx[c].got
                    THEN [state |-> "held", license |-> a[2],
                          target |-> tx[c].target, checked |-> TRUE]
                    ELSE seat[a]]
            /\ Answer(c)
            /\ UNCHANGED <<license, inserts>>

(* LicenseSeatAssignmentForm.clean reads availability without a lock. *)
QuickBegin(c, l, t) ==
    /\ tx[c].op = "idle"
    /\ inserts < MaxInserts
    /\ Available(l) /\ ~HoldsSeat(l, t)
    /\ inserts' = inserts + 1
    /\ tx' = [tx EXCEPT ![c] = [Idle EXCEPT !.op = "quick", !.todo = <<l>>,
                                            !.target = t, !.n = inserts + 1]]
    /\ UNCHANGED <<license, seat>>

(* The insert waits for the lock of the license its foreign key points at,  *)
(* and is stopped only by the unique constraint.                            *)
QuickSave(c) ==
    /\ tx[c].op = "quick"
    /\ LET l == Head(tx[c].todo) IN
       /\ LicenseFree(l, c)
       /\ IF HoldsSeat(l, tx[c].target)
          THEN Refuse(c)
          ELSE /\ seat' = [seat EXCEPT ![<<tx[c].n, l>>] =
                              [state |-> "held", license |-> l,
                               target |-> tx[c].target, checked |-> FALSE]]
               /\ Answer(c)
               /\ UNCHANGED <<license, inserts>>
-----------------------------------------------------------------------------
(* A REST update: the client has read the row and sends the license it      *)
(* wants, which is the one it saw when it changes something else.           *)
PatchBegin(c, a, l) ==
    /\ tx[c].op = "idle"
    /\ seat[a].state = "held"
    /\ tx' = [tx EXCEPT ![c] = [Idle EXCEPT !.op = "patch", !.todo = <<l>>,
                                    !.row = {a}, !.seen = {seat[a].license}]]
    /\ UNCHANGED <<license, seat, inserts>>

EtagNotRequired(c, a) == TRUE

(* If-Match against the locked row: it is as the client saw it. *)
EtagMatches(c, a) == seat[a].license \in tx[c].seen

PatchLocksSource(c) ==
    /\ tx[c].op = "patch"
    /\ \E a \in tx[c].row :
          /\ RowFree(a, c)
          /\ IF seat[a].state # "held" \/ ~EtagMatches(c, a) THEN Refuse(c)
             ELSE /\ tx' = [tx EXCEPT ![c].op = "move", ![c].seen = {},
                                      ![c].todo = <<seat[a].license>> \o @]
                  /\ UNCHANGED <<license, seat, inserts>>

(* The row is locked.  Without a new license every column is saved back as  *)
(* it was read; with one, transfer_license_seat locks the destination.      *)
PatchRow(c) ==
    /\ tx[c].op = "patch"
    /\ \E a \in tx[c].row :
          /\ RowFree(a, c)
          /\ IF seat[a].state # "held" \/ ~EtagMatches(c, a)
             THEN Refuse(c)
             ELSE IF Head(tx[c].todo) \in tx[c].seen
             THEN /\ LicenseFree(Head(tx[c].todo), c)
                        \/ Head(tx[c].todo) = seat[a].license
                  /\ seat' = [seat EXCEPT ![a].license = Head(tx[c].todo)]
                  /\ Answer(c)
                  /\ UNCHANGED <<license, inserts>>
             ELSE /\ tx' = [tx EXCEPT ![c].op = "move", ![c].seen = {}]
                  /\ UNCHANGED <<license, seat, inserts>>

(* transfer_license_seat, under both locks. *)
Transfer(c) ==
    /\ tx[c].op = "move"
    /\ tx[c].todo = <<>>
    /\ \E a \in tx[c].row, l \in tx[c].got :
          IF HoldsSeat(l, seat[a].target)
          THEN Refuse(c)
          ELSE /\ seat' = [seat EXCEPT ![a].license = l, ![a].checked = TRUE]
               /\ Answer(c)
               /\ UNCHANGED <<license, inserts>>
-----------------------------------------------------------------------------
(* checkin_license_seat, one transaction on the seat row. *)
CheckIn(a) ==
    /\ seat[a].state = "held"
    /\ \A c \in Clerks : tx[c].op = "move" => a \notin tx[c].row
    /\ seat' = [seat EXCEPT ![a].state = "released", ![a].checked = FALSE]
    /\ UNCHANGED <<license, tx, inserts>>

(* The recycle bin clears deleted_at: no lock, no capacity check. *)
RestoreSeat(a) ==
    /\ seat[a].state = "released"
    /\ ~HoldsSeat(seat[a].license, seat[a].target)
    /\ seat' = [seat EXCEPT ![a].state = "held", ![a].checked = FALSE]
    /\ UNCHANGED <<license, tx, inserts>>

(* Fewer seats than before are accepted only if those handed out fit. *)
CapacityAllows(l, n) == n < license[l].seats => n >= Cardinality(Held(l))

(* License.save *)
SetSeats(l, n) ==
    /\ n # license[l].seats
    /\ \A c \in Clerks : l \notin tx[c].got
    /\ CapacityAllows(l, n)
    /\ license' = [license EXCEPT ![l].seats = n]
    /\ UNCHANGED <<seat, tx, inserts>>

(* archive_license refuses while a seat is held.  It also refuses while a   *)
(* kit row lists the license; kit rows come and go, so that is left open.   *)
ArchiveLicense(l) ==
    /\ ~license[l].archived
    /\ \A c \in Clerks : l \notin tx[c].got
    /\ Held(l) = {}
    /\ license' = [license EXCEPT ![l].archived = TRUE]
    /\ UNCHANGED <<seat, tx, inserts>>

RestoreLicense(l) ==
    /\ license[l].archived
    /\ license' = [license EXCEPT ![l].archived = FALSE]
    /\ UNCHANGED <<seat, tx, inserts>>
-----------------------------------------------------------------------------
(* Waiting for a row lock of somebody else. *)
WaitsFor(c, d) ==
    \/ /\ tx[c].op \in {"issue", "move", "quick"} /\ tx[c].todo # <<>>
       /\ Head(tx[c].todo) \in tx[d].got
    \/ tx[c].op = "patch" /\ tx[d].op = "move" /\ tx[c].row \cap tx[d].row # {}

(* Each of S waits for another one of S. *)
Deadlocked(S) == S # {} /\ \A c \in S : \E d \in S \ {c} : WaitsFor(c, d)

(* PostgreSQL rolls the transaction back: it is the victim of a deadlock,   *)
(* or its connection is lost.                                               *)
RollBack(c) == tx[c].op # "idle" /\ Refuse(c)
-----------------------------------------------------------------------------
Pools == Kits \cup {<<l>> : l \in Licenses}

ClerkStep(c) ==
    \/ \E pools \in Pools, t \in Targets : IssueBegin(c, pools, t)
    \/ \E l \in Licenses, t \in Targets : QuickBegin(c, l, t)
    \/ \E a \in Rows, l \in Licenses : PatchBegin(c, a, l)
    \/ LockLicense(c) \/ Issue(c) \/ QuickSave(c) \/ PatchRow(c) \/ Transfer(c)
    \/ RollBack(c)

Next ==
    \/ \E c \in Clerks : ClerkStep(c)
    \/ \E a \in Rows : CheckIn(a) \/ RestoreSeat(a)
    \/ \E l \in Adjustable, n \in 0 .. MaxSeats : SetSeats(l, n)
    \/ \E l \in Archivable : ArchiveLicense(l) \/ RestoreLicense(l)

Spec == Init /\ [][Next]_vars
-----------------------------------------------------------------------------
(* The seats that went through a check under the lock fit into what was     *)
(* bought, and an archived license has none of them, whatever writers       *)
(* without a lock, transfers and reductions do at the same time.            *)
CheckedSeatsFit ==
    \A l \in Licenses :
        Cardinality({a \in Held(l) : seat[a].checked}) <=
            IF license[l].archived THEN 0 ELSE license[l].seats

(* Only kit checkouts that already own a license and want another one can   *)
(* wait for each other in a circle, and it takes two of them: checkouts,    *)
(* transfers, quick-adds and updates alone never deadlock.                  *)
DeadlockNeedsTwoKits ==
    \A S \in SUBSET Clerks : Deadlocked(S) =>
        \E c, d \in S : c # d /\ \A e \in {c, d} :
            tx[e].op = "issue" /\ tx[e].got # {} /\ tx[e].todo # <<>>

(* "so the invariant is enforced on every write path": a license never has  *)
(* more live seats than it was bought with.  The code does not meet this    *)
(* (README, section 6); no run states it.                                   *)
NeverOverfilled == \A l \in Licenses : Cardinality(Held(l)) <= license[l].seats
=============================================================================
