------------------------- MODULE LicenseSeatsProofs -------------------------
(***************************************************************************)
(* Proofs about LicenseSeats, for any licenses, kits, clerks and bounds.   *)
(*                                                                         *)
(* A request that owns the lock of a license read its capacity under that  *)
(* lock.  What it read stays good until it commits: Reserved says that     *)
(* there is still room for one more checked seat on every license          *)
(* somebody owns.  Writers without the lock add seats, but no checked      *)
(* ones; reducing the seats and archiving wait for the lock.               *)
(***************************************************************************)
EXTENDS LicenseSeats, FiniteSetTheorems, SequenceTheorems, TLAPS

Checked(l) == {a \in Held(l) : seat[a].checked}

(* What a request knows at each of its steps: only a checkout of a kit owns *)
(* a license and wants another one.                                         *)
Knows(c) ==
    /\ tx[c].op \in {"idle", "quick", "patch"} => tx[c].got = {}
    /\ tx[c].op \in {"quick", "patch"} => tx[c].todo # <<>>
    /\ tx[c].op = "patch" =>
        /\ Tail(tx[c].todo) = <<>>
        /\ \A k, l \in tx[c].seen : k = l
    /\ tx[c].op = "move" =>
        tx[c].todo = <<>> \/ (Tail(tx[c].todo) = <<>> /\ tx[c].got = {})

Reserved ==
    \A c \in Clerks : \A l \in tx[c].got :
        ~license[l].archived /\ Cardinality(Checked(l)) < license[l].seats

SeatInv ==
    /\ SeatTypeOK
    /\ \A c \in Clerks : Knows(c)
    /\ Reserved
    /\ CheckedSeatsFit
-----------------------------------------------------------------------------
(* Sets of seat rows are finite, and a count grows with its set. *)
LEMMA RowsFinite == IsFiniteSet(Rows)
  <1>1. IsFiniteSet(1 .. MaxInserts)
    BY SeatConstants, FS_Interval
  <1> QED BY <1>1, SeatConstants, FS_Product DEF Rows

LEMMA FewerRows ==
    ASSUME NEW S, NEW T \in SUBSET Rows, S \subseteq T
    PROVE  /\ Cardinality(S) \in Nat /\ Cardinality(T) \in Nat
           /\ Cardinality(S) <= Cardinality(T)
  <1>1. IsFiniteSet(T)
    BY RowsFinite, FS_Subset
  <1> QED BY <1>1, FS_Subset, FS_CardinalityType

LEMMA OneMoreRow ==
    ASSUME NEW S, NEW T \in SUBSET Rows, NEW x \in Rows, S \subseteq T \cup {x}
    PROVE  Cardinality(S) <= Cardinality(T) + 1
  <1>1. IsFiniteSet(T) /\ Cardinality(T) \in Nat
    BY RowsFinite, FS_Subset, FS_CardinalityType
  <1>2. /\ IsFiniteSet(T \cup {x})
        /\ Cardinality(T \cup {x}) = IF x \in T THEN Cardinality(T) ELSE Cardinality(T) + 1
    BY <1>1, FS_AddElement
  <1>3. Cardinality(S) \in Nat /\ Cardinality(S) <= Cardinality(T \cup {x})
    BY FewerRows, T \cup {x} \in SUBSET Rows
  <1> QED BY <1>1, <1>2, <1>3

LEMMA CheckedRows == \A l : Checked(l) \in SUBSET Rows /\ Held(l) \in SUBSET Rows
  BY DEF Checked, Held

(* A sequence of one license. *)
LEMMA OneLicense ==
    ASSUME NEW l \in Licenses
    PROVE  /\ <<l>> \in Seq(Licenses) /\ <<l>> # <<>>
           /\ Head(<<l>>) = l /\ Tail(<<l>>) = <<>>
  OBVIOUS
-----------------------------------------------------------------------------
(* Seats change, licenses do not.  Those of G were locked and get at most   *)
(* one checked seat each while their locks are given up; all others get     *)
(* none.                                                                    *)
LEMMA SeatsMove ==
    ASSUME SeatInv, UNCHANGED license, NEW G,
           \A d \in Clerks : tx'[d].got \subseteq tx[d].got \ G,
           \A l \in G : \E d \in Clerks : l \in tx[d].got,
           \A l \in Licenses :
               \/ Checked(l)' \subseteq Checked(l)
               \/ l \in G /\ \E x \in Rows : Checked(l)' \subseteq Checked(l) \cup {x}
    PROVE  Reserved' /\ CheckedSeatsFit'
  <1> USE DEF SeatInv
  <1>1. ASSUME NEW l \in Licenses, l \notin G
        PROVE  /\ Cardinality(Checked(l)') \in Nat
               /\ Cardinality(Checked(l)') <= Cardinality(Checked(l))
    BY <1>1, CheckedRows, FewerRows
  <1>2. ASSUME NEW l \in Licenses
        PROVE  /\ Cardinality(Checked(l)') \in Nat /\ Cardinality(Checked(l)) \in Nat
               /\ Cardinality(Checked(l)') <= Cardinality(Checked(l)) + 1
    <2>1. Cardinality(Checked(l)) \in Nat
      BY CheckedRows, FewerRows
    <2>2. CASE Checked(l)' \subseteq Checked(l)
      BY <2>1, <2>2, CheckedRows, FewerRows
    <2>3. CASE \E x \in Rows : Checked(l)' \subseteq Checked(l) \cup {x}
      <3>1. PICK x \in Rows : Checked(l)' \subseteq Checked(l) \cup {x}
        BY <2>3
      <3>2. Cardinality(Checked(l)') <= Cardinality(Checked(l)) + 1
        BY <3>1, CheckedRows, OneMoreRow
      <3>3. Cardinality(Checked(l)') \in Nat
        BY <3>1, FewerRows, CheckedRows, Checked(l) \cup {x} \in SUBSET Rows
      <3> QED BY <2>1, <3>2, <3>3
    <2> QED BY <2>2, <2>3
  <1>3. Reserved'
    <2> SUFFICES ASSUME NEW c \in Clerks, NEW l \in tx'[c].got
                 PROVE  ~license[l].archived /\ Cardinality(Checked(l)') < license[l].seats
      BY DEF Reserved
    <2>1. l \in tx[c].got /\ l \notin G
      OBVIOUS
    <2>2. l \in Licenses /\ license[l].seats \in Nat
      BY <2>1 DEF SeatTypeOK, Request
    <2>3. ~license[l].archived /\ Cardinality(Checked(l)) < license[l].seats
      BY <2>1 DEF Reserved
    <2> QED BY <2>1, <2>2, <2>3, <1>1, <1>2
  <1>4. CheckedSeatsFit'
    <2> SUFFICES ASSUME NEW l \in Licenses
                 PROVE  Cardinality(Checked(l)') <=
                            IF license[l].archived THEN 0 ELSE license[l].seats
      BY DEF CheckedSeatsFit, Checked
    <2>1. license[l].seats \in Nat
      BY DEF SeatTypeOK
    <2>2. Cardinality(Checked(l)) <= IF license[l].archived THEN 0 ELSE license[l].seats
      BY DEF CheckedSeatsFit, Checked
    <2>3. CASE l \in G
      <3>1. ~license[l].archived /\ Cardinality(Checked(l)) < license[l].seats
        BY <2>3 DEF Reserved
      <3> QED BY <3>1, <2>1, <1>2
    <2>4. CASE l \notin G
      BY <2>1, <2>2, <2>4, <1>1, <1>2
    <2> QED BY <2>3, <2>4
  <1> QED BY <1>3, <1>4

(* The request of one clerk changes; the others go on as they were. *)
LEMMA OneRequest ==
    ASSUME SeatInv, NEW c \in Clerks, NEW new \in Request,
           tx' = [tx EXCEPT ![c] = new],
           \A d \in Clerks \ {c} : new.got \cap tx[d].got = {}
    PROVE  /\ tx' \in [Clerks -> Request]
           /\ \A d, e \in Clerks : d # e => tx'[d].got \cap tx'[e].got = {}
           /\ tx'[c] = new
           /\ \A d \in Clerks \ {c} : tx'[d] = tx[d] /\ Knows(d)'
  <1>1. tx \in [Clerks -> Request]
    BY DEF SeatInv, SeatTypeOK
  <1>2. tx' \in [Clerks -> Request] /\ tx'[c] = new
    BY <1>1
  <1>3. \A d \in Clerks \ {c} : tx'[d] = tx[d]
    BY <1>1
  <1>4. \A d \in Clerks \ {c} : Knows(d)'
    BY <1>3 DEF SeatInv, Knows
  <1>5. \A d, e \in Clerks : d # e => tx'[d].got \cap tx'[e].got = {}
    BY <1>2, <1>3 DEF SeatInv, SeatTypeOK
  <1> QED BY <1>2, <1>3, <1>4, <1>5

LEMMA IdleRequest == Idle \in Request /\ Idle.got = {} /\ Idle.op = "idle"
  BY SeatConstants DEF Idle, Request

(* A request ends, having given those of its licenses that are in G a       *)
(* checked seat.                                                            *)
LEMMA Answered ==
    ASSUME SeatInv, NEW c \in Clerks, Answer(c), UNCHANGED <<license, inserts>>,
           seat' \in [Rows -> Seat],
           \A l \in Licenses :
               \/ Checked(l)' \subseteq Checked(l)
               \/ /\ l \in tx[c].got
                  /\ \E x \in Rows : Checked(l)' \subseteq Checked(l) \cup {x}
    PROVE  SeatInv'
  <1>1. tx' = [tx EXCEPT ![c] = Idle]
    BY DEF Answer
  <1>2. /\ tx' \in [Clerks -> Request] /\ tx'[c] = Idle
        /\ \A d, e \in Clerks : d # e => tx'[d].got \cap tx'[e].got = {}
        /\ \A d \in Clerks \ {c} : tx'[d] = tx[d] /\ Knows(d)'
    <2>1. Idle \in Request /\ \A d \in Clerks \ {c} : Idle.got \cap tx[d].got = {}
      BY IdleRequest
    <2> QED BY <1>1, <2>1, OneRequest
  <1>3. Knows(c)'
    BY <1>2, IdleRequest DEF Knows
  <1>4. SeatTypeOK'
    BY <1>2 DEF SeatInv, SeatTypeOK
  <1>5. ASSUME NEW d \in Clerks
        PROVE  tx'[d].got \subseteq tx[d].got \ tx[c].got
    <2>1. CASE d = c
      BY <1>2, <2>1, IdleRequest
    <2>2. CASE d # c
      <3>1. tx'[d] = tx[d] /\ tx[d].got \cap tx[c].got = {}
        BY <1>2, <2>2 DEF SeatInv, SeatTypeOK
      <3> QED BY <3>1
    <2> QED BY <2>1, <2>2
  <1>6. Reserved' /\ CheckedSeatsFit'
    <2>1. \A l \in tx[c].got : \E d \in Clerks : l \in tx[d].got
      OBVIOUS
    <2> DEFINE G == tx[c].got
    <2> HIDE DEF G
    <2>2. \A d \in Clerks : tx'[d].got \subseteq tx[d].got \ G
      BY <1>5 DEF G
    <2>3. \A l \in G : \E d \in Clerks : l \in tx[d].got
      BY <2>1 DEF G
    <2>4. \A l \in Licenses :
               \/ Checked(l)' \subseteq Checked(l)
               \/ l \in G /\ \E x \in Rows : Checked(l)' \subseteq Checked(l) \cup {x}
      BY DEF G
    <2> QED BY <2>2, <2>3, <2>4, SeatsMove
  <1> QED BY <1>2, <1>3, <1>4, <1>6 DEF SeatInv

LEMMA Refused ==
    ASSUME SeatInv, NEW c \in Clerks, Refuse(c)
    PROVE  SeatInv'
  <1>1. \A l \in Licenses : Checked(l)' = Checked(l)
    BY DEF Refuse, Checked, Held
  <1> QED BY <1>1, Answered DEF Refuse, SeatInv, SeatTypeOK

(* A request goes on without a new lock. *)
LEMMA GoesOn ==
    ASSUME SeatInv, NEW c \in Clerks, NEW new \in Request,
           tx' = [tx EXCEPT ![c] = new], new.got = tx[c].got,
           Knows(c)', UNCHANGED <<license, seat>>, inserts' \in 0 .. MaxInserts
    PROVE  SeatInv'
  <1>1. \A d \in Clerks \ {c} : new.got \cap tx[d].got = {}
    BY DEF SeatInv, SeatTypeOK
  <1>2. /\ tx' \in [Clerks -> Request] /\ tx'[c] = new
        /\ \A d, e \in Clerks : d # e => tx'[d].got \cap tx'[e].got = {}
        /\ \A d \in Clerks \ {c} : tx'[d] = tx[d] /\ Knows(d)'
    BY <1>1, OneRequest
  <1>3. SeatTypeOK'
    BY <1>2 DEF SeatInv, SeatTypeOK
  <1>4. \A l \in Licenses : Checked(l)' = Checked(l)
    BY DEF Checked, Held
  <1>5. \A d \in Clerks : tx'[d].got \subseteq tx[d].got \ {}
    BY <1>2
  <1>6. Reserved' /\ CheckedSeatsFit'
    <2> DEFINE G == {}
    <2>1. \A l \in G : \E d \in Clerks : l \in tx[d].got
      OBVIOUS
    <2>2. \A l \in Licenses :
               \/ Checked(l)' \subseteq Checked(l)
               \/ l \in G /\ \E x \in Rows : Checked(l)' \subseteq Checked(l) \cup {x}
      BY <1>4
    <2>3. \A d \in Clerks : tx'[d].got \subseteq tx[d].got \ G
      BY <1>5
    <2> HIDE DEF G
    <2> QED BY <2>1, <2>2, <2>3, SeatsMove
  <1> QED BY <1>2, <1>3, <1>6 DEF SeatInv
-----------------------------------------------------------------------------
(* The steps of a request. *)
LEMMA IssueBeginSafe ==
    ASSUME SeatInv, NEW c \in Clerks, NEW pools \in Pools, NEW t \in Targets,
           IssueBegin(c, pools, t)
    PROVE  SeatInv'
  <1> DEFINE new == [Idle EXCEPT !.op = "issue", !.todo = pools,
                                 !.target = t, !.n = inserts + 1]
  <1>1. pools \in Seq(Licenses)
    BY SeatConstants, OneLicense DEF Pools
  <1>2. inserts + 1 \in 0 .. MaxInserts
    BY SeatConstants DEF IssueBegin, SeatInv, SeatTypeOK
  <1>3. new \in Request /\ new.got = {} /\ new.op = "issue"
    BY <1>1, <1>2 DEF Idle, Request
  <1>4. tx' = [tx EXCEPT ![c] = new] /\ tx[c].op = "idle"
    BY DEF IssueBegin
  <1> HIDE DEF new
  <1>5. tx[c].got = {} /\ tx'[c] = new
    BY <1>4 DEF SeatInv, SeatTypeOK, Knows
  <1>6. Knows(c)'
    BY <1>3, <1>5 DEF Knows
  <1> QED BY <1>2, <1>3, <1>4, <1>5, <1>6, GoesOn DEF IssueBegin

LEMMA QuickBeginSafe ==
    ASSUME SeatInv, NEW c \in Clerks, NEW l \in Licenses, NEW t \in Targets,
           QuickBegin(c, l, t)
    PROVE  SeatInv'
  <1> DEFINE new == [Idle EXCEPT !.op = "quick", !.todo = <<l>>,
                                 !.target = t, !.n = inserts + 1]
  <1>2. inserts + 1 \in 0 .. MaxInserts
    BY SeatConstants DEF QuickBegin, SeatInv, SeatTypeOK
  <1>3. new \in Request /\ new.got = {} /\ new.op = "quick" /\ new.todo # <<>>
    BY <1>2, OneLicense DEF Idle, Request
  <1>4. tx' = [tx EXCEPT ![c] = new] /\ tx[c].op = "idle"
    BY DEF QuickBegin
  <1> HIDE DEF new
  <1>5. tx[c].got = {} /\ tx'[c] = new
    BY <1>4 DEF SeatInv, SeatTypeOK, Knows
  <1>6. Knows(c)'
    BY <1>3, <1>5 DEF Knows
  <1> QED BY <1>2, <1>3, <1>4, <1>5, <1>6, GoesOn DEF QuickBegin

LEMMA PatchBeginSafe ==
    ASSUME SeatInv, NEW c \in Clerks, NEW a \in Rows, NEW l \in Licenses,
           PatchBegin(c, a, l)
    PROVE  SeatInv'
  <1> DEFINE new == [Idle EXCEPT !.op = "patch", !.todo = <<l>>,
                                 !.row = {a}, !.seen = {seat[a].license}]
  <1>1. seat[a].license \in Licenses /\ inserts \in 0 .. MaxInserts
    BY DEF SeatInv, SeatTypeOK, Seat
  <1>2. /\ new \in Request /\ new.got = {} /\ new.op = "patch" /\ new.todo = <<l>>
        /\ new.seen = {seat[a].license}
    <2>1. 0 \in 0 .. MaxInserts /\ {a} \in SUBSET Rows /\ {seat[a].license} \in SUBSET Licenses
      BY <1>1, SeatConstants
    <2> QED BY <2>1, OneLicense DEF Idle, Request
  <1>3. tx' = [tx EXCEPT ![c] = new] /\ tx[c].op = "idle"
    BY DEF PatchBegin
  <1> HIDE DEF new
  <1>4. tx[c].got = {} /\ tx'[c] = new
    BY <1>3 DEF SeatInv, SeatTypeOK, Knows
  <1>5. Knows(c)'
    <2>1. new.todo # <<>> /\ Tail(new.todo) = <<>>
      BY <1>2, OneLicense
    <2> QED BY <1>2, <1>4, <2>1 DEF Knows
  <1> QED BY <1>1, <1>2, <1>3, <1>4, <1>5, GoesOn DEF PatchBegin

(* The capacity is read under the lock and finds room. *)
LEMMA LockLicenseSafe ==
    ASSUME SeatInv, NEW c \in Clerks, LockLicense(c)
    PROVE  SeatInv'
  <1> DEFINE l == Head(tx[c].todo)
             new == [tx[c] EXCEPT !.todo = Tail(@), !.got = @ \cup {l}]
  <1>1. tx \in [Clerks -> Request] /\ tx[c] \in Request /\ Knows(c)
    BY DEF SeatInv, SeatTypeOK
  <1>2. l \in Licenses /\ Tail(tx[c].todo) \in Seq(Licenses)
    <2>1. tx[c].todo \in Seq(Licenses) /\ tx[c].todo # <<>>
      BY <1>1 DEF Request, LockLicense
    <2> QED BY <2>1, HeadTailProperties
  <1>3. CASE Refuse(c)
    BY <1>3, Refused
  <1>4. CASE /\ Available(l) /\ LicenseFree(l, c)
             /\ tx' = [tx EXCEPT ![c].todo = Tail(@), ![c].got = @ \cup {l}]
             /\ UNCHANGED <<license, seat, inserts>>
    <2>1. tx' = [tx EXCEPT ![c] = new]
      BY <1>1, <1>4
    <2>2. /\ new \in Request /\ new.got = tx[c].got \cup {l} /\ new.op = tx[c].op
          /\ new.todo = Tail(tx[c].todo)
      BY <1>1, <1>2 DEF Request
    <2> HIDE DEF l, new
    <2>3. \A d \in Clerks \ {c} : new.got \cap tx[d].got = {}
      BY <1>4, <2>2 DEF SeatInv, SeatTypeOK, LicenseFree
    <2>4. /\ tx' \in [Clerks -> Request] /\ tx'[c] = new
          /\ \A d, e \in Clerks : d # e => tx'[d].got \cap tx'[e].got = {}
          /\ \A d \in Clerks \ {c} : tx'[d] = tx[d] /\ Knows(d)'
      BY <2>1, <2>2, <2>3, OneRequest
    <2>5. SeatTypeOK'
      BY <1>4, <2>4 DEF SeatInv, SeatTypeOK
    <2>6. Knows(c)'
      <3>1. tx[c].op \in {"issue", "move"} /\ tx[c].todo # <<>>
        BY DEF LockLicense
      <3> QED BY <1>1, <2>2, <2>4, <3>1 DEF Knows
    <2>7. \A k \in Licenses : Checked(k)' = Checked(k)
      BY <1>4 DEF Checked, Held
    <2>8. CheckedSeatsFit'
      BY <1>4, <2>7 DEF SeatInv, CheckedSeatsFit, Checked
    <2>9. ~license[l].archived /\ Cardinality(Checked(l)) < license[l].seats
      <3>1. Cardinality(Checked(l)) <= Cardinality(Held(l))
        BY FewerRows, CheckedRows, Checked(l) \subseteq Held(l) DEF Checked
      <3>2. Cardinality(Checked(l)) \in Nat /\ Cardinality(Held(l)) \in Nat
        BY FewerRows, CheckedRows
      <3>3. license[l].seats \in Nat
        BY <1>2 DEF SeatInv, SeatTypeOK
      <3> QED BY <1>4, <3>1, <3>2, <3>3 DEF Available
    <2>10. Reserved'
      <3> SUFFICES ASSUME NEW d \in Clerks, NEW k \in tx'[d].got
                   PROVE  /\ ~license[k].archived
                          /\ Cardinality(Checked(k)') < license[k].seats
        BY <1>4 DEF Reserved
      <3>1. k \in Licenses
        BY <2>4 DEF Request
      <3>2. k = l \/ k \in tx[d].got
        BY <2>2, <2>4
      <3> QED BY <2>7, <2>9, <3>1, <3>2 DEF SeatInv, Reserved
    <2> QED BY <2>4, <2>5, <2>6, <2>8, <2>10 DEF SeatInv
  <1> QED BY <1>3, <1>4 DEF LockLicense

(* One seat on every license that was locked. *)
LEMMA IssueSafe ==
    ASSUME SeatInv, NEW c \in Clerks, Issue(c)
    PROVE  SeatInv'
  <1>1. CASE Refuse(c)
    BY <1>1, Refused
  <1>2. CASE /\ seat' = [a \in Rows |->
                    IF a[1] = tx[c].n /\ a[2] \in tx[c].got
                    THEN [state |-> "held", license |-> a[2],
                          target |-> tx[c].target, checked |-> TRUE]
                    ELSE seat[a]]
             /\ Answer(c) /\ UNCHANGED <<license, inserts>>
    <2>1. tx[c] \in Request /\ seat \in [Rows -> Seat]
      BY DEF SeatInv, SeatTypeOK
    <2>2. \A l \in tx[c].got :
             [state |-> "held", license |-> l, target |-> tx[c].target,
              checked |-> TRUE] \in Seat
      BY <2>1 DEF Request, Seat
    <2>3. seat' \in [Rows -> Seat]
      BY <1>2, <2>1, <2>2
    <2>4. ASSUME NEW l \in Licenses, l \notin tx[c].got
          PROVE  Checked(l)' \subseteq Checked(l)
      BY <1>2, <2>4 DEF Checked, Held
    <2>5. ASSUME NEW l \in tx[c].got
          PROVE  \/ Checked(l)' \subseteq Checked(l)
                 \/ \E x \in Rows : Checked(l)' \subseteq Checked(l) \cup {x}
      <3>1. l \in Licenses /\ tx[c].n \in 0 .. MaxInserts
        BY <2>1 DEF Request
      <3>2. CASE <<tx[c].n, l>> \in Rows
        <4>1. \A a \in Rows : a[1] = tx[c].n /\ a[2] = l => a = <<tx[c].n, l>>
          BY DEF Rows
        <4>2. Checked(l)' \subseteq Checked(l) \cup {<<tx[c].n, l>>}
          BY <1>2, <4>1 DEF Checked, Held
        <4> QED BY <3>2, <4>2
      <3>3. CASE <<tx[c].n, l>> \notin Rows
        <4>1. \A a \in Rows : ~(a[1] = tx[c].n /\ a[2] = l)
          BY <3>3 DEF Rows
        <4>2. Checked(l)' \subseteq Checked(l)
          BY <1>2, <4>1 DEF Checked, Held
        <4> QED BY <4>2
      <3> QED BY <3>2, <3>3
    <2>6. \A l \in Licenses :
             \/ Checked(l)' \subseteq Checked(l)
             \/ /\ l \in tx[c].got
                /\ \E x \in Rows : Checked(l)' \subseteq Checked(l) \cup {x}
      BY <2>4, <2>5
    <2> QED BY <1>2, <2>3, <2>6, Answered
  <1> QED BY <1>1, <1>2 DEF Issue

(* The quick-add form saves a seat that was never checked under the lock. *)
LEMMA QuickSaveSafe ==
    ASSUME SeatInv, NEW c \in Clerks, QuickSave(c)
    PROVE  SeatInv'
  <1> DEFINE l == Head(tx[c].todo)
             new == [state |-> "held", license |-> l, target |-> tx[c].target,
                     checked |-> FALSE]
  <1>1. CASE Refuse(c)
    BY <1>1, Refused
  <1>2. CASE /\ seat' = [seat EXCEPT ![<<tx[c].n, l>>] = new]
             /\ Answer(c) /\ UNCHANGED <<license, inserts>>
    <2>1. tx[c] \in Request /\ seat \in [Rows -> Seat] /\ Knows(c)
      BY DEF SeatInv, SeatTypeOK
    <2>2. l \in Licenses
      <3>1. tx[c].todo \in Seq(Licenses) /\ tx[c].todo # <<>>
        BY <2>1 DEF Request, QuickSave, Knows
      <3> QED BY <3>1, HeadTailProperties
    <2>3. new \in Seat /\ ~new.checked
      BY <2>1, <2>2 DEF Request, Seat
    <2> HIDE DEF l, new
    <2>4. seat' \in [Rows -> Seat]
      BY <1>2, <2>1, <2>3
    <2>5. \A a \in Rows : seat'[a] = seat[a] \/ ~seat'[a].checked
      BY <1>2, <2>1, <2>3
    <2>6. \A k \in Licenses : Checked(k)' \subseteq Checked(k)
      BY <2>5 DEF Checked, Held
    <2> QED BY <1>2, <2>4, <2>6, Answered
  <1> QED BY <1>1, <1>2 DEF QuickSave

(* An update that keeps the license saves back what the row has. *)
LEMMA PatchRowSafe ==
    ASSUME SeatInv, NEW c \in Clerks, PatchRow(c)
    PROVE  SeatInv'
  <1>1. tx \in [Clerks -> Request] /\ tx[c] \in Request /\ Knows(c)
    BY DEF SeatInv, SeatTypeOK
  <1>2. seat \in [Rows -> Seat] /\ inserts \in 0 .. MaxInserts
    BY DEF SeatInv, SeatTypeOK
  <1>3. PICK a \in tx[c].row :
           \/ Refuse(c)
           \/ /\ EtagMatches(c, a) /\ Head(tx[c].todo) \in tx[c].seen
              /\ seat' = [seat EXCEPT ![a].license = Head(tx[c].todo)]
              /\ Answer(c)
              /\ UNCHANGED <<license, inserts>>
           \/ /\ tx' = [tx EXCEPT ![c].op = "move", ![c].seen = {}]
              /\ UNCHANGED <<license, seat, inserts>>
    BY DEF PatchRow
  <1>4. CASE Refuse(c)
    BY <1>4, Refused
  <1>5. CASE /\ EtagMatches(c, a) /\ Head(tx[c].todo) \in tx[c].seen
             /\ seat' = [seat EXCEPT ![a].license = Head(tx[c].todo)]
             /\ Answer(c)
             /\ UNCHANGED <<license, inserts>>
    <2>1. a \in Rows
      BY <1>1 DEF Request
    <2>2. Head(tx[c].todo) = seat[a].license
      BY <1>1, <1>5 DEF EtagMatches, PatchRow, Knows
    <2>3. seat' = seat
      BY <1>2, <1>5, <2>1, <2>2 DEF Seat
    <2>4. \A k \in Licenses : Checked(k)' = Checked(k)
      BY <2>3 DEF Checked, Held
    <2> QED BY <1>2, <1>5, <2>3, <2>4, Answered
  <1>6. CASE /\ tx' = [tx EXCEPT ![c].op = "move", ![c].seen = {}]
             /\ UNCHANGED <<license, seat, inserts>>
    <2> DEFINE new == [tx[c] EXCEPT !.op = "move", !.seen = {}]
    <2>1. tx' = [tx EXCEPT ![c] = new]
      BY <1>1, <1>6
    <2>2. new \in Request /\ new.got = tx[c].got /\ new.op = "move" /\ new.todo = tx[c].todo
      BY <1>1 DEF Request
    <2> HIDE DEF new
    <2>3. tx'[c] = new
      BY <1>1, <2>1
    <2>4. Knows(c)'
      BY <1>1, <2>2, <2>3 DEF Knows, PatchRow
    <2> QED BY <1>2, <1>6, <2>1, <2>2, <2>4, GoesOn
  <1> QED BY <1>3, <1>4, <1>5, <1>6

(* The seat moves onto a license whose lock the request owns. *)
LEMMA TransferSafe ==
    ASSUME SeatInv, NEW c \in Clerks, Transfer(c)
    PROVE  SeatInv'
  <1>1. tx[c] \in Request /\ seat \in [Rows -> Seat]
    BY DEF SeatInv, SeatTypeOK
  <1>2. PICK a \in tx[c].row, l \in tx[c].got :
           \/ Refuse(c)
           \/ /\ seat' = [seat EXCEPT ![a].license = l, ![a].checked = TRUE]
              /\ Answer(c) /\ UNCHANGED <<license, inserts>>
    BY DEF Transfer
  <1>3. a \in Rows /\ l \in Licenses
    BY <1>1 DEF Request
  <1>4. CASE Refuse(c)
    BY <1>4, Refused
  <1>5. CASE /\ seat' = [seat EXCEPT ![a].license = l, ![a].checked = TRUE]
             /\ Answer(c) /\ UNCHANGED <<license, inserts>>
    <2> DEFINE new == [seat[a] EXCEPT !.license = l, !.checked = TRUE]
    <2>1. seat' = [seat EXCEPT ![a] = new]
      BY <1>1, <1>3, <1>5
    <2>2. new \in Seat
      BY <1>1, <1>3 DEF Seat
    <2>3. new.license = l
      BY <1>1, <1>3 DEF Seat
    <2> HIDE DEF new
    <2>4. seat' \in [Rows -> Seat] /\ seat'[a] = new
      BY <1>1, <1>3, <2>1, <2>2
    <2>5. \A b \in Rows \ {a} : seat'[b] = seat[b]
      BY <1>1, <2>1
    <2>6. \A k \in Licenses : k # l => Checked(k)' \subseteq Checked(k)
      BY <2>3, <2>4, <2>5 DEF Checked, Held
    <2>7. Checked(l)' \subseteq Checked(l) \cup {a}
      BY <2>5 DEF Checked, Held
    <2>8. \A k \in Licenses :
             \/ Checked(k)' \subseteq Checked(k)
             \/ /\ k \in tx[c].got
                /\ \E x \in Rows : Checked(k)' \subseteq Checked(k) \cup {x}
      BY <1>3, <2>6, <2>7
    <2> QED BY <1>5, <2>4, <2>8, Answered
  <1> QED BY <1>2, <1>4, <1>5
-----------------------------------------------------------------------------
(* One transaction on a seat row, which leaves it unchecked. *)
LEMMA Unchecked ==
    ASSUME SeatInv, NEW a \in Rows, NEW s \in {"held", "released"},
           seat' = [seat EXCEPT ![a].state = s, ![a].checked = FALSE],
           UNCHANGED <<license, tx, inserts>>
    PROVE  SeatInv'
  <1> DEFINE new == [seat[a] EXCEPT !.state = s, !.checked = FALSE]
             G == {}
  <1>1. seat \in [Rows -> Seat] /\ seat[a] \in Seat
    BY DEF SeatInv, SeatTypeOK
  <1>2. seat' = [seat EXCEPT ![a] = new]
    BY <1>1
  <1>3. new \in Seat
    BY <1>1 DEF Seat
  <1>4. ~new.checked
    BY <1>1 DEF Seat
  <1> HIDE DEF new
  <1>5. seat' \in [Rows -> Seat]
    BY <1>1, <1>2, <1>3
  <1>6. \A b \in Rows : seat'[b] = seat[b] \/ ~seat'[b].checked
    BY <1>1, <1>2, <1>4
  <1>7. \A l \in Licenses : Checked(l)' \subseteq Checked(l)
    BY <1>6 DEF Checked, Held
  <1>8. Reserved' /\ CheckedSeatsFit'
    <2>1. \A d \in Clerks : tx'[d].got \subseteq tx[d].got \ G
      OBVIOUS
    <2>2. \A l \in G : \E d \in Clerks : l \in tx[d].got
      OBVIOUS
    <2>3. \A l \in Licenses :
             \/ Checked(l)' \subseteq Checked(l)
             \/ l \in G /\ \E x \in Rows : Checked(l)' \subseteq Checked(l) \cup {x}
      BY <1>7
    <2> HIDE DEF G
    <2> QED BY <2>1, <2>2, <2>3, SeatsMove
  <1> QED BY <1>5, <1>8 DEF SeatInv, SeatTypeOK, Knows

(* The operator's row of a license changes while nobody owns its lock, or   *)
(* it is restored.                                                          *)
LEMMA LicenseChanges ==
    ASSUME SeatInv, NEW l \in Licenses,
           NEW new \in [seats : 0 .. MaxSeats, archived : BOOLEAN],
           license' = [license EXCEPT ![l] = new],
           UNCHANGED <<seat, tx, inserts>>,
           \/ \A c \in Clerks : l \notin tx[c].got
           \/ ~new.archived /\ license[l].seats <= new.seats,
           Cardinality(Checked(l)) <= IF new.archived THEN 0 ELSE new.seats
    PROVE  SeatInv'
  <1>1. license \in [Licenses -> [seats : 0 .. MaxSeats, archived : BOOLEAN]]
    BY DEF SeatInv, SeatTypeOK
  <1>2. license' \in [Licenses -> [seats : 0 .. MaxSeats, archived : BOOLEAN]]
    BY <1>1
  <1>3. license'[l] = new /\ \A k \in Licenses \ {l} : license'[k] = license[k]
    BY <1>1
  <1>4. SeatTypeOK' /\ \A c \in Clerks : Knows(c)'
    BY <1>2 DEF SeatInv, SeatTypeOK, Knows
  <1>5. \A k : Checked(k)' = Checked(k)
    BY DEF Checked, Held
  <1>6. CheckedSeatsFit'
    <2> SUFFICES ASSUME NEW k \in Licenses
                 PROVE  Cardinality(Checked(k)) <=
                            IF license'[k].archived THEN 0 ELSE license'[k].seats
      BY <1>5 DEF CheckedSeatsFit, Checked
    <2> QED BY <1>3 DEF SeatInv, CheckedSeatsFit, Checked
  <1>7. Reserved'
    <2> SUFFICES ASSUME NEW c \in Clerks, NEW k \in tx[c].got
                 PROVE  /\ ~license'[k].archived
                        /\ Cardinality(Checked(k)) < license'[k].seats
      BY <1>5 DEF Reserved
    <2>1. k \in Licenses
      BY DEF SeatInv, SeatTypeOK, Request
    <2>2. ~license[k].archived /\ Cardinality(Checked(k)) < license[k].seats
      BY DEF SeatInv, Reserved
    <2>3. CASE k # l
      BY <1>3, <2>1, <2>2, <2>3
    <2>4. CASE k = l
      <3>1. ~new.archived /\ license[l].seats <= new.seats
        BY <2>4
      <3>2. license[l].seats \in Nat /\ new.seats \in Nat /\ Cardinality(Checked(l)) \in Nat
        BY <1>1, FewerRows, CheckedRows
      <3> QED BY <1>3, <2>2, <2>4, <3>1, <3>2
    <2> QED BY <2>3, <2>4
  <1> QED BY <1>4, <1>6, <1>7 DEF SeatInv

LEMMA SetSeatsSafe ==
    ASSUME SeatInv, NEW l \in Licenses, NEW n \in 0 .. MaxSeats, SetSeats(l, n)
    PROVE  SeatInv'
  <1> DEFINE new == [license[l] EXCEPT !.seats = n]
  <1>1. license \in [Licenses -> [seats : 0 .. MaxSeats, archived : BOOLEAN]]
    BY DEF SeatInv, SeatTypeOK
  <1>2. new \in [seats : 0 .. MaxSeats, archived : BOOLEAN]
    BY <1>1
  <1>3. new.seats = n /\ new.archived = license[l].archived
    BY <1>1
  <1>4. license' = [license EXCEPT ![l] = new]
    BY <1>1 DEF SetSeats
  <1> HIDE DEF new
  <1>5. Cardinality(Checked(l)) <= IF new.archived THEN 0 ELSE new.seats
    <2>1. /\ Cardinality(Checked(l)) \in Nat /\ Cardinality(Held(l)) \in Nat
          /\ Cardinality(Checked(l)) <= Cardinality(Held(l))
      BY FewerRows, CheckedRows, Checked(l) \subseteq Held(l) DEF Checked
    <2>2. Cardinality(Checked(l)) <= IF license[l].archived THEN 0 ELSE license[l].seats
      BY DEF SeatInv, CheckedSeatsFit, Checked
    <2>3. license[l].seats \in Nat /\ n \in Nat
      BY <1>1
    <2>4. n < license[l].seats => n >= Cardinality(Held(l))
      BY DEF SetSeats, CapacityAllows
    <2> QED BY <1>3, <2>1, <2>2, <2>3, <2>4
  <1>6. \A c \in Clerks : l \notin tx[c].got
    BY DEF SetSeats
  <1> QED BY <1>2, <1>4, <1>5, <1>6, LicenseChanges DEF SetSeats

LEMMA ArchiveLicenseSafe ==
    ASSUME SeatInv, NEW l \in Licenses, ArchiveLicense(l)
    PROVE  SeatInv'
  <1> DEFINE new == [license[l] EXCEPT !.archived = TRUE]
  <1>1. license \in [Licenses -> [seats : 0 .. MaxSeats, archived : BOOLEAN]]
    BY DEF SeatInv, SeatTypeOK
  <1>2. new \in [seats : 0 .. MaxSeats, archived : BOOLEAN]
    BY <1>1
  <1>3. license' = [license EXCEPT ![l] = new]
    BY <1>1 DEF ArchiveLicense
  <1>4. new.seats \in Nat
    BY <1>2
  <1> HIDE DEF new
  <1>5. Checked(l) = {}
    BY DEF ArchiveLicense, Checked
  <1>6. Cardinality(Checked(l)) <= IF new.archived THEN 0 ELSE new.seats
    BY <1>4, <1>5, FS_EmptySet
  <1>7. \A c \in Clerks : l \notin tx[c].got
    BY DEF ArchiveLicense
  <1> QED BY <1>2, <1>3, <1>6, <1>7, LicenseChanges DEF ArchiveLicense

LEMMA RestoreLicenseSafe ==
    ASSUME SeatInv, NEW l \in Licenses, RestoreLicense(l)
    PROVE  SeatInv'
  <1> DEFINE new == [license[l] EXCEPT !.archived = FALSE]
  <1>1. license \in [Licenses -> [seats : 0 .. MaxSeats, archived : BOOLEAN]]
    BY DEF SeatInv, SeatTypeOK
  <1>2. new \in [seats : 0 .. MaxSeats, archived : BOOLEAN]
    BY <1>1
  <1>3. license' = [license EXCEPT ![l] = new]
    BY <1>1 DEF RestoreLicense
  <1>4. ~new.archived
    BY <1>1
  <1>5. new.seats = license[l].seats
    BY <1>1
  <1> HIDE DEF new
  <1>6. license[l].seats \in Nat /\ Cardinality(Checked(l)) \in Nat
    BY <1>1, FewerRows, CheckedRows
  <1>7. Cardinality(Checked(l)) <= IF license[l].archived THEN 0 ELSE license[l].seats
    BY DEF SeatInv, CheckedSeatsFit, Checked
  <1>8. /\ Cardinality(Checked(l)) <= IF new.archived THEN 0 ELSE new.seats
        /\ license[l].seats <= new.seats
    BY <1>4, <1>5, <1>6, <1>7
  <1> QED BY <1>2, <1>3, <1>4, <1>8, LicenseChanges DEF RestoreLicense
-----------------------------------------------------------------------------
LEMMA SeatInit == Init => SeatInv
  <1> SUFFICES ASSUME Init PROVE SeatInv
    OBVIOUS
  <1>1. \A c \in Clerks : tx[c] = Idle
    BY DEF Init
  <1>2. tx \in [Clerks -> Request]
    BY IdleRequest DEF Init
  <1>3. license \in [Licenses -> [seats : 0 .. MaxSeats, archived : BOOLEAN]]
    BY SeatConstants DEF Init
  <1>4. seat \in [Rows -> Seat]
    BY DEF Init, Seat, Rows
  <1>5. SeatTypeOK
    BY <1>1, <1>2, <1>3, <1>4, IdleRequest, SeatConstants DEF Init, SeatTypeOK
  <1>6. \A c \in Clerks : Knows(c)
    BY <1>1, IdleRequest DEF Knows
  <1>7. Reserved
    BY <1>1, IdleRequest DEF Reserved
  <1>8. \A l \in Licenses : Checked(l) = {}
    BY DEF Init, Checked, Held
  <1>9. CheckedSeatsFit
    <2> SUFFICES ASSUME NEW l \in Licenses
                 PROVE  Cardinality(Checked(l)) <=
                            IF license[l].archived THEN 0 ELSE license[l].seats
      BY DEF CheckedSeatsFit, Checked
    <2>1. license[l].seats \in Nat
      BY <1>3
    <2> QED BY <1>8, <2>1, FS_EmptySet
  <1> QED BY <1>5, <1>6, <1>7, <1>9 DEF SeatInv

LEMMA SeatNext == SeatInv /\ [Next]_vars => SeatInv'
  <1> SUFFICES ASSUME SeatInv, [Next]_vars PROVE SeatInv'
    OBVIOUS
  <1>1. ASSUME NEW c \in Clerks, ClerkStep(c) PROVE SeatInv'
    <2>1. CASE \E pools \in Pools, t \in Targets : IssueBegin(c, pools, t)
      BY <2>1, IssueBeginSafe
    <2>2. CASE \E l \in Licenses, t \in Targets : QuickBegin(c, l, t)
      BY <2>2, QuickBeginSafe
    <2>3. CASE \E a \in Rows, l \in Licenses : PatchBegin(c, a, l)
      BY <2>3, PatchBeginSafe
    <2>4. CASE LockLicense(c)
      BY <2>4, LockLicenseSafe
    <2>5. CASE Issue(c)
      BY <2>5, IssueSafe
    <2>6. CASE QuickSave(c)
      BY <2>6, QuickSaveSafe
    <2>7. CASE PatchRow(c)
      BY <2>7, PatchRowSafe
    <2>8. CASE Transfer(c)
      BY <2>8, TransferSafe
    <2>9. CASE RollBack(c)
      BY <2>9, Refused DEF RollBack
    <2> QED BY <1>1, <2>1, <2>2, <2>3, <2>4, <2>5, <2>6, <2>7, <2>8, <2>9 DEF ClerkStep
  <1>2. ASSUME NEW a \in Rows, CheckIn(a) PROVE SeatInv'
    BY <1>2, Unchecked DEF CheckIn
  <1>3. ASSUME NEW a \in Rows, RestoreSeat(a) PROVE SeatInv'
    BY <1>3, Unchecked DEF RestoreSeat
  <1>4. ASSUME NEW l \in Adjustable, NEW n \in 0 .. MaxSeats, SetSeats(l, n) PROVE SeatInv'
    BY <1>4, SetSeatsSafe, SeatConstants
  <1>5. ASSUME NEW l \in Archivable, ArchiveLicense(l) PROVE SeatInv'
    BY <1>5, ArchiveLicenseSafe, SeatConstants
  <1>6. ASSUME NEW l \in Archivable, RestoreLicense(l) PROVE SeatInv'
    BY <1>6, RestoreLicenseSafe, SeatConstants
  <1>7. CASE UNCHANGED vars
    BY <1>7 DEF vars, SeatInv, SeatTypeOK, Knows, Reserved, CheckedSeatsFit,
                Checked, Held
  <1> QED BY <1>1, <1>2, <1>3, <1>4, <1>5, <1>6, <1>7 DEF Next

(* SeatInv is an inductive invariant. *)
THEOREM SeatInvariant == Spec => []SeatInv
  BY SeatInit, SeatNext, PTL DEF Spec

(* Types, and no two requests own the lock of the same license. *)
THEOREM SeatTypes == Spec => []SeatTypeOK
  <1>1. SeatInv => SeatTypeOK
    BY DEF SeatInv
  <1> QED BY <1>1, SeatInvariant, PTL

(* The seats checked out or transferred under the lock of their license fit *)
(* into what was bought, and an archived license has none: checkout,        *)
(* checkout of kits, transfer, reduction and archiving keep this together.  *)
THEOREM SeatsFit == Spec => []CheckedSeatsFit
  <1>1. SeatInv => CheckedSeatsFit
    BY DEF SeatInv
  <1> QED BY <1>1, SeatInvariant, PTL
-----------------------------------------------------------------------------
(* One that waits and is waited for with a license it owns is a checkout of *)
(* a kit, and waits for one that owns a license in turn.                    *)
LEMMA OwnerWaits ==
    ASSUME SeatInv, NEW c \in Clerks, NEW d \in Clerks, WaitsFor(c, d),
           tx[c].got # {}
    PROVE  tx[c].op = "issue" /\ tx[c].todo # <<>> /\ tx[d].got # {}
  <1>1. Knows(c) /\ tx[c] \in Request
    BY DEF SeatInv, SeatTypeOK
  <1>2. tx[c].op \in {"issue", "move"}
    BY <1>1 DEF Knows, Request
  <1>3. tx[c].todo # <<>> /\ Head(tx[c].todo) \in tx[d].got
    BY <1>2 DEF WaitsFor
  <1> QED BY <1>1, <1>2, <1>3 DEF Knows

LEMMA CircleOfKits == SeatInv => DeadlockNeedsTwoKits
  <1> SUFFICES ASSUME SeatInv, NEW S \in SUBSET Clerks, Deadlocked(S)
               PROVE  \E c, d \in S : c # d /\ \A e \in {c, d} :
                          tx[e].op = "issue" /\ tx[e].got # {} /\ tx[e].todo # <<>>
    BY DEF DeadlockNeedsTwoKits
  <1>1. \A c \in S : \E d \in S \ {c} : WaitsFor(c, d)
    BY DEF Deadlocked
  <1>2. \E c \in S : tx[c].got # {}
    <2>1. PICK c \in S, d \in S : WaitsFor(c, d)
      BY <1>1 DEF Deadlocked
    <2>2. CASE tx[d].got # {}
      BY <2>2
    <2>3. CASE tx[d].op = "move"
      <3>1. PICK e \in S : WaitsFor(d, e)
        BY <1>1
      <3>2. Head(tx[d].todo) \in tx[e].got
        BY <2>3, <3>1 DEF WaitsFor
      <3> QED BY <3>2
    <2> QED BY <2>1, <2>2, <2>3 DEF WaitsFor
  <1>3. PICK c \in S : tx[c].got # {}
    BY <1>2
  <1>4. PICK d \in S \ {c} : WaitsFor(c, d)
    BY <1>1
  <1>5. tx[c].op = "issue" /\ tx[c].todo # <<>> /\ tx[d].got # {}
    BY <1>3, <1>4, OwnerWaits
  <1>6. PICK e \in S : WaitsFor(d, e)
    BY <1>1
  <1>7. tx[d].op = "issue" /\ tx[d].todo # <<>>
    BY <1>5, <1>6, OwnerWaits
  <1> QED BY <1>3, <1>4, <1>5, <1>7

(* Requests wait for each other in a circle only if two of them are         *)
(* checkouts of kits that own a license and want another one.               *)
THEOREM OnlyKitsDeadlock == Spec => []DeadlockNeedsTwoKits
  BY CircleOfKits, SeatInvariant, PTL
=============================================================================
