------------------------ MODULE AuditSessionsProofs -------------------------
(***************************************************************************)
(* Proofs about AuditSessions, for any number of sessions, assets and      *)
(* workers: a completed session is frozen, nothing is observed after the   *)
(* close, nothing that was observed is reported missing, and no two        *)
(* requests wait for each other.                                           *)
(***************************************************************************)
EXTENDS AuditSessions, TLAPS

(* The steps of a request that has the lock of its session. *)
Holding == {"assets", "apply", "write"}

(* What a request may rely on.  While it holds its session the session is   *)
(* what it was when it was locked; the copy of an edit was read from a      *)
(* session that was not completed; assets are locked in ascending order.    *)
RequestKnows(w) ==
    /\ tx[w].op # "idle" => \E s \in Sessions : tx[w].of = {s}
    /\ tx[w].step \in Holding =>
          /\ tx[w].op \in Operations
          /\ \A s \in tx[w].of :
                /\ lock[<<"session", s>>] = w
                /\ session[s].live
                /\ tx[w].op \in {"scan", "basket"} => session[s].status = "active"
                /\ tx[w].op = "close" => session[s].status # "completed"
    /\ tx[w].op = "edit" => tx[w].copy.status # "completed" /\ tx[w].copy.live
    /\ tx[w].todo \subseteq tx[w].assets
    /\ \A x \in tx[w].assets \ tx[w].todo, y \in tx[w].todo : x < y

(* The locks of a worker are those its request has taken so far. *)
LocksOf(w) ==
    /\ \A s \in Sessions : lock[<<"session", s>>] = w =>
          tx[w].step \in Holding /\ s \in tx[w].of
    /\ \A x \in Assets : lock[<<"asset", x>>] = w =>
          tx[w].step \in Holding /\ x \in tx[w].assets \ tx[w].todo

RequestsKnow == \A w \in Workers : RequestKnows(w) /\ LocksOf(w)

(* Only live sessions are completed. *)
CompletedIsLive ==
    \A s \in Sessions : session[s].status = "completed" => session[s].live

AuditInv == AuditTypeOK /\ RequestsKnow /\ CompletedIsLive /\ MissingWasNotObserved

-----------------------------------------------------------------------------
LEMMA RowFacts ==
    /\ \A s \in Sessions : <<"session", s>> \in Rows
    /\ \A x \in Assets : <<"asset", x>> \in Rows
    /\ \A s, t \in Sessions : <<"session", s>> = <<"session", t>> => s = t
    /\ \A x, y \in Assets : <<"asset", x>> = <<"asset", y>> => x = y
    /\ \A s \in Sessions, x \in Assets : <<"session", s>> # <<"asset", x>>
BY DEF Rows

LEMMA IdleFacts ==
    /\ Idle \in Request
    /\ Idle.op = "idle" /\ Idle.step = "idle"
    /\ Idle.of = {} /\ Idle.todo = {} /\ Idle.assets = {}
    /\ NoCopy \in Session
    /\ NoRow \in ReportRow /\ NoRow.category = "none"
BY DEF Idle, NoCopy, NoRow, Request, Session, ReportRow, Somewhere, SessionStatuses,
       Categories, AssetStatuses

(* Initially nobody holds anything and nothing is reported. *)
LEMMA InitInv == Init => AuditInv
<1> SUFFICES ASSUME Init PROVE AuditInv
  OBVIOUS
<1> USE AuditConstants, IdleFacts
<1>1. session \in [Sessions -> Session]
  BY DEF Init, Session
<1>2. CompletedIsLive /\ \A s \in Sessions : session[s].live
  BY DEF Init, CompletedIsLive
<1>3. AuditTypeOK
  BY <1>1 DEF Init, AuditTypeOK, NoRow, ReportRow, Somewhere, AssetStatuses
<1>4. MissingWasNotObserved
  BY DEF Init, MissingWasNotObserved, NoRow
<1>5. RequestsKnow
  BY RowFacts DEF Init, RequestsKnow, RequestKnows, LocksOf, Holding
<1> QED
  BY <1>2, <1>3, <1>4, <1>5 DEF AuditInv

(* A request is answered.  What it changed were sessions nobody else holds. *)
LEMMA Committed ==
    ASSUME AuditInv, NEW w \in Workers, Commit(w),
           \A s \in Sessions : session'[s] # session[s]
               => lock[<<"session", s>>] \in {w, Nobody}
    PROVE  lock' \in [Rows -> Workers \cup {Nobody}] /\ tx' \in [Workers -> Request]
           /\ RequestsKnow'
<1> USE AuditConstants, IdleFacts, RowFacts DEF AuditInv
<1>1. lock' \in [Rows -> Workers \cup {Nobody}] /\ tx' \in [Workers -> Request]
  BY DEF Commit, Release, AuditTypeOK
<1>2. /\ tx'[w] = Idle
      /\ \A v \in Workers : v # w => tx'[v] = tx[v]
      /\ \A row \in Rows : lock[row] = w => lock'[row] = Nobody
      /\ \A row \in Rows : lock[row] # w => lock'[row] = lock[row]
  BY DEF Commit, Release, AuditTypeOK
<1>3. RequestKnows(w)' /\ LocksOf(w)'
  BY <1>2 DEF RequestKnows, LocksOf, Holding
<1>4. ASSUME NEW v \in Workers, v # w
      PROVE  RequestKnows(v)' /\ LocksOf(v)'
  <2>1. tx'[v] = tx[v] /\ RequestKnows(v) /\ LocksOf(v)
    BY <1>2, <1>4 DEF RequestsKnow
  <2>2. \A row \in Rows : lock'[row] = v <=> lock[row] = v
    BY <1>2, <1>4 DEF AuditTypeOK
  <2>3. LocksOf(v)'
    BY <2>1, <2>2 DEF LocksOf
  <2>4. ASSUME tx[v].step \in Holding, NEW s \in tx[v].of
        PROVE  session'[s] = session[s] /\ lock'[<<"session", s>>] = v
    <3>1. s \in Sessions /\ lock[<<"session", s>>] = v
      BY <2>1, <2>4 DEF RequestKnows, AuditTypeOK, Request
    <3> QED
      BY <3>1, <2>2, <1>4
  <2>5. RequestKnows(v)'
    BY <2>1, <2>4 DEF RequestKnows
  <2> QED
    BY <2>3, <2>5
<1> QED
  BY <1>1, <1>3, <1>4 DEF RequestsKnow

(* A refusal changes nothing but the locks and the request. *)
LEMMA RefuseKeeps ==
    ASSUME AuditInv, NEW w \in Workers, Refuse(w)
    PROVE  AuditInv'
<1>1. Commit(w) /\ UNCHANGED <<session, report, audit, asset, served, edits>>
  BY DEF Refuse
<1>2. lock' \in [Rows -> Workers \cup {Nobody}] /\ tx' \in [Workers -> Request] /\ RequestsKnow'
  BY <1>1, Committed
<1> QED
  BY <1>1, <1>2 DEF AuditInv, AuditTypeOK, CompletedIsLive, MissingWasNotObserved

(* A new request holds nothing yet. *)
LEMMA ServeKeeps ==
    ASSUME AuditInv, NEW w \in Workers, NEW op \in Operations \cup {"start", "edit"},
           NEW s \in Sessions, NEW X \in SUBSET Assets, NEW place \in Somewhere,
           op = "edit" => session[s].status # "completed" /\ session[s].live,
           Serve(w, op, s, X, place)
    PROVE  AuditInv'
<1> USE AuditConstants, IdleFacts, RowFacts DEF AuditInv
<1> DEFINE r == [Idle EXCEPT !.op = op, !.step = "session", !.of = {s}, !.assets = X,
                             !.place = place,
                             !.copy = IF op = "edit" THEN session[s] ELSE NoCopy]
<1>1. /\ UNCHANGED <<session, report, audit, asset, lock, edits>>
      /\ tx' = [tx EXCEPT ![w] = r] /\ served' \in 0 .. MaxRequests
      /\ tx[w].op = "idle"
  BY DEF Serve, AuditTypeOK
<1>2. r \in Request
  BY DEF Request, Idle, Operations, AuditTypeOK
<1>3. tx' \in [Workers -> Request] /\ tx'[w] = r
      /\ \A v \in Workers : v # w => tx'[v] = tx[v]
  BY <1>1, <1>2 DEF AuditTypeOK
<1>4. /\ r.op = op /\ r.step = "session" /\ r.of = {s} /\ r.todo = {}
      /\ r.op = "edit" => r.copy = session[s]
  BY DEF Idle
<1>5. tx[w].step \notin Holding
  BY <1>1 DEF RequestsKnow, RequestKnows, Operations
<1>6. RequestKnows(w)' /\ LocksOf(w)'
  BY <1>1, <1>3, <1>4, <1>5 DEF RequestKnows, LocksOf, Holding, RequestsKnow
<1>7. ASSUME NEW v \in Workers, v # w
      PROVE  RequestKnows(v)' /\ LocksOf(v)'
  BY <1>1, <1>3, <1>7 DEF RequestKnows, LocksOf, RequestsKnow
<1>8. RequestsKnow'
  BY <1>6, <1>7 DEF RequestsKnow
<1> QED
  BY <1>1, <1>3, <1>8 DEF AuditTypeOK, CompletedIsLive, MissingWasNotObserved

LEMMA BeginKeeps ==
    ASSUME AuditInv, NEW w \in Workers, Begin(w)
    PROVE  AuditInv'
<1> USE DEF Operations
<1> PICK s \in Sessions :
        \/ \E x \in Assets, place \in Places : ScanBegin(w, s, x, place)
        \/ \E X \in (SUBSET Assets) \ {{}} : BasketBegin(w, s, X)
        \/ CloseBegin(w, s)
        \/ \E op \in {"rehome", "flag"} : CorrectBegin(w, s, op)
        \/ StartBegin(w, s) \/ EditBegin(w, s)
  BY DEF Begin
<1>1. NoPlace \in Somewhere /\ {} \in SUBSET Assets
  BY DEF Somewhere
<1>2. ASSUME NEW x \in Assets, NEW place \in Places, ScanBegin(w, s, x, place)
      PROVE  AuditInv'
  BY <1>2, ServeKeeps DEF ScanBegin, Somewhere
<1>3. ASSUME NEW X \in (SUBSET Assets) \ {{}}, BasketBegin(w, s, X)
      PROVE  AuditInv'
  BY <1>1, <1>3, ServeKeeps DEF BasketBegin
<1>4. CASE CloseBegin(w, s)
  BY <1>1, <1>4, ServeKeeps DEF CloseBegin
<1>5. ASSUME NEW op \in {"rehome", "flag"}, CorrectBegin(w, s, op)
      PROVE  AuditInv'
  BY <1>1, <1>5, ServeKeeps DEF CorrectBegin
<1>6. CASE StartBegin(w, s)
  BY <1>1, <1>6, ServeKeeps DEF StartBegin
<1>7. CASE EditBegin(w, s)
  BY <1>1, <1>7, ServeKeeps DEF EditBegin
<1> QED
  BY <1>2, <1>3, <1>4, <1>5, <1>6, <1>7

(* The lock of the session is taken when the session is as the operation    *)
(* needs it, and no asset is locked yet.                                    *)
LEMMA TakeSessionKeeps ==
    ASSUME AuditInv, NEW w \in Workers, TakeSession(w)
    PROVE  AuditInv'
<1> USE AuditConstants, RowFacts DEF AuditInv
<1> PICK s \in tx[w].of :
        /\ SessionFree(s)
        /\ IF MayProceed(w, s)
           THEN /\ lock' = [lock EXCEPT ![<<"session", s>>] = w]
                /\ tx' = [tx EXCEPT ![w].step = "assets",
                                    ![w].todo = Population(w, s),
                                    ![w].assets = Population(w, s)]
                /\ UNCHANGED <<session, report, audit, asset, served, edits>>
           ELSE Refuse(w)
  BY DEF TakeSession
<1>1. CASE ~MayProceed(w, s)
  BY <1>1, RefuseKeeps
<1>2. CASE MayProceed(w, s)
  <2> DEFINE P == Population(w, s)
             r == [tx[w] EXCEPT !.step = "assets", !.todo = P, !.assets = P]
  <2>1. tx[w] \in Request /\ tx[w].op \in Operations /\ tx[w].step = "session"
        /\ s \in Sessions /\ tx[w].of = {s}
    BY DEF TakeSession, AuditTypeOK, Request, RequestsKnow, RequestKnows, Operations
  <2>2. P \subseteq Assets
    BY <2>1 DEF Population, Present, Expected, Reported, AuditTypeOK, Request
  <2>3. /\ tx' = [tx EXCEPT ![w] = r]
        /\ lock' = [lock EXCEPT ![<<"session", s>>] = w]
        /\ UNCHANGED <<session, report, audit, asset, served, edits>>
    BY <1>2 DEF AuditTypeOK, Request
  <2>4. r \in Request
    BY <2>1, <2>2 DEF Request
  <2>5. /\ r.op = tx[w].op /\ r.step = "assets" /\ r.of = {s}
        /\ r.todo = P /\ r.assets = P /\ r.copy = tx[w].copy
    BY <2>1 DEF Request
  <2>6. /\ tx' \in [Workers -> Request] /\ tx'[w] = r
        /\ lock' \in [Rows -> Workers \cup {Nobody}]
        /\ \A v \in Workers : v # w => tx'[v] = tx[v]
        /\ \A row \in Rows : row # <<"session", s>> => lock'[row] = lock[row]
        /\ lock'[<<"session", s>>] = w /\ lock[<<"session", s>>] = Nobody
    BY <2>1, <2>3, <2>4 DEF AuditTypeOK, SessionFree, Free
  <2>7. /\ session[s].live
        /\ tx[w].op \in {"scan", "basket"} => session[s].status = "active"
        /\ tx[w].op = "close" => session[s].status # "completed"
    BY <1>2 DEF MayProceed
  <2>8. RequestKnows(w)'
    BY <2>1, <2>3, <2>5, <2>6, <2>7 DEF RequestKnows, Holding, RequestsKnow, Operations
  <2>9. LocksOf(w)'
    <3>1. \A row \in Rows : row # <<"session", s>> => lock'[row] # w
      BY <2>1, <2>6 DEF Rows, LocksOf, RequestsKnow, Holding
    <3> QED
      BY <2>5, <2>6, <3>1 DEF LocksOf, Holding
  <2>10. ASSUME NEW v \in Workers, v # w
         PROVE  RequestKnows(v)' /\ LocksOf(v)'
    <3>1. RequestKnows(v) /\ LocksOf(v) /\ tx'[v] = tx[v] /\ session' = session
      BY <2>3, <2>6, <2>10 DEF RequestsKnow
    <3>2. \A row \in Rows : lock'[row] = v <=> lock[row] = v
      BY <2>6, <2>10
    <3>3. tx[v].of \subseteq Sessions
      BY DEF AuditTypeOK, Request
    <3> QED
      BY <3>1, <3>2, <3>3 DEF RequestKnows, LocksOf
  <2>11. RequestsKnow'
    BY <2>8, <2>9, <2>10 DEF RequestsKnow
  <2> QED
    BY <2>3, <2>6, <2>11 DEF AuditTypeOK, CompletedIsLive, MissingWasNotObserved
<1> QED
  BY <1>1, <1>2

(* The next asset is smaller than all that are left, or none is left. *)
LEMMA TakeAssetKeeps ==
    ASSUME AuditInv, NEW w \in Workers, TakeAsset(w)
    PROVE  AuditInv'
<1> USE AuditConstants, RowFacts DEF AuditInv
<1>1. tx[w] \in Request /\ tx[w].step = "assets" /\ RequestKnows(w) /\ LocksOf(w)
      /\ UNCHANGED <<session, report, audit, asset, served, edits>>
  BY DEF TakeAsset, AuditTypeOK, RequestsKnow
<1>2. tx[w].of \subseteq Sessions /\ tx[w].todo \subseteq Assets /\ tx[w].assets \subseteq Assets
  BY <1>1 DEF Request
<1>3. ASSUME NEW x \in NextAssets(w), Free(<<"asset", x>>),
             lock' = [lock EXCEPT ![<<"asset", x>>] = w],
             tx' = [tx EXCEPT ![w].todo = @ \ {x}]
      PROVE  AuditInv'
  <2> DEFINE r == [tx[w] EXCEPT !.todo = @ \ {x}]
  <2>1. x \in tx[w].todo /\ x \in Assets /\ \A y \in tx[w].todo : x <= y
    BY <1>2 DEF NextAssets
  <2>2. tx' = [tx EXCEPT ![w] = r]
    BY <1>1, <1>3 DEF AuditTypeOK, Request
  <2>3. r \in Request
    BY <1>1 DEF Request
  <2>4. /\ r.op = tx[w].op /\ r.step = tx[w].step /\ r.of = tx[w].of
        /\ r.todo = tx[w].todo \ {x} /\ r.assets = tx[w].assets /\ r.copy = tx[w].copy
    BY <1>1 DEF Request
  <2>5. /\ tx' \in [Workers -> Request] /\ tx'[w] = r
        /\ lock' \in [Rows -> Workers \cup {Nobody}]
        /\ \A v \in Workers : v # w => tx'[v] = tx[v]
        /\ \A row \in Rows : row # <<"asset", x>> => lock'[row] = lock[row]
        /\ lock'[<<"asset", x>>] = w /\ lock[<<"asset", x>>] = Nobody
    BY <1>3, <2>1, <2>2, <2>3 DEF AuditTypeOK, Free
  <2>6. /\ \A t \in Sessions : lock'[<<"session", t>>] = lock[<<"session", t>>]
        /\ \A y \in Assets : y # x => lock'[<<"asset", y>>] = lock[<<"asset", y>>]
    BY <2>1, <2>5
  <2>7. \A y \in tx[w].assets \ (tx[w].todo \ {x}), z \in tx[w].todo \ {x} : y < z
    <3> SUFFICES ASSUME NEW y \in tx[w].assets \ (tx[w].todo \ {x}),
                        NEW z \in tx[w].todo \ {x}
                 PROVE  y < z
      OBVIOUS
    <3>1. CASE y = x
      <4>1. x \in Nat /\ z \in Nat /\ x <= z /\ x # z
        BY <1>2, <2>1
      <4> QED
        BY <3>1, <4>1
    <3>2. CASE y # x
      BY <1>1, <3>2 DEF RequestKnows
    <3> QED
      BY <3>1, <3>2
  <2>8. RequestKnows(w)'
    <3>1. r.todo \subseteq r.assets /\ \A y \in r.assets \ r.todo, z \in r.todo : y < z
      BY <1>1, <2>4, <2>7 DEF RequestKnows
    <3> QED
      BY <1>1, <1>2, <2>4, <2>5, <2>6, <3>1 DEF RequestKnows
  <2>9. LocksOf(w)'
    BY <1>1, <1>2, <2>1, <2>4, <2>5, <2>6 DEF LocksOf, RequestKnows, Holding
  <2>10. ASSUME NEW v \in Workers, v # w
         PROVE  RequestKnows(v)' /\ LocksOf(v)'
    <3>1. RequestKnows(v) /\ LocksOf(v) /\ tx'[v] = tx[v] /\ session' = session
      BY <1>1, <2>5, <2>10 DEF RequestsKnow
    <3>2. tx[v].of \subseteq Sessions
      BY DEF AuditTypeOK, Request
    <3> QED
      BY <2>5, <2>6, <2>10, <3>1, <3>2 DEF RequestKnows, LocksOf
  <2>11. RequestsKnow'
    BY <2>8, <2>9, <2>10 DEF RequestsKnow
  <2> QED
    BY <1>1, <2>5, <2>11 DEF AuditTypeOK, CompletedIsLive, MissingWasNotObserved
<1>4. ASSUME tx' = [tx EXCEPT ![w].step = "apply"], UNCHANGED lock
      PROVE  AuditInv'
  <2>1. [tx[w] EXCEPT !.step = "apply"] \in Request
    BY <1>1 DEF Request
  <2> DEFINE r == [tx[w] EXCEPT !.step = "apply"]
  <2>2. /\ r.op = tx[w].op /\ r.step = "apply" /\ r.of = tx[w].of
        /\ r.todo = tx[w].todo /\ r.assets = tx[w].assets /\ r.copy = tx[w].copy
    BY <1>1 DEF Request
  <2>3. /\ tx' \in [Workers -> Request] /\ tx'[w] = r
        /\ \A v \in Workers : v # w => tx'[v] = tx[v]
    BY <1>4, <2>1 DEF AuditTypeOK
  <2>4. RequestKnows(w)' /\ LocksOf(w)'
    BY <1>1, <1>4, <2>2, <2>3 DEF RequestKnows, LocksOf, Holding
  <2>5. \A v \in Workers : v # w => RequestKnows(v)' /\ LocksOf(v)'
    BY <1>1, <1>4, <2>3 DEF RequestKnows, LocksOf, RequestsKnow
  <2>6. RequestsKnow'
    BY <2>4, <2>5 DEF RequestsKnow
  <2> QED
    BY <1>1, <1>4, <2>3, <2>6 DEF AuditTypeOK, CompletedIsLive, MissingWasNotObserved
<1> QED
  BY <1>3, <1>4 DEF TakeAsset

(* Whoever applies an operation has its session, and what it found there    *)
(* still holds.                                                             *)
LEMMA Applying ==
    ASSUME AuditInv, NEW w \in Workers, tx[w].step \in Holding
    PROVE  /\ tx[w] \in Request /\ tx[w].op \in Operations
           /\ \E s \in Sessions :
                /\ tx[w].of = {s}
                /\ lock[<<"session", s>>] = w
                /\ session[s].live
                /\ tx[w].op \in {"scan", "basket"} => session[s].status = "active"
                /\ tx[w].op = "close" => session[s].status # "completed"
<1>1. RequestKnows(w) /\ tx[w] \in Request
  BY DEF AuditInv, AuditTypeOK, RequestsKnow
<1>2. tx[w].op \in Operations
  BY <1>1 DEF RequestKnows
<1>3. PICK s \in Sessions : tx[w].of = {s}
  BY <1>1, <1>2 DEF RequestKnows, Operations
<1>4. s \in tx[w].of
  BY <1>3
<1> QED
  BY <1>1, <1>2, <1>3, <1>4 DEF RequestKnows

(* An observation is added to an active session, which has no report.       *)
LEMMA ObservationKeeps ==
    ASSUME AuditInv, NEW w \in Workers, NEW s \in Sessions, session[s].status = "active",
           Commit(w), audit' \in [Sessions -> [Assets -> Somewhere]],
           \A t \in Sessions : t # s => audit'[t] = audit[t],
           UNCHANGED <<session, report, asset, served, edits>>
    PROVE  AuditInv'
<1>1. lock' \in [Rows -> Workers \cup {Nobody}] /\ tx' \in [Workers -> Request] /\ RequestsKnow'
  BY Committed
<1>2. AuditTypeOK' /\ CompletedIsLive'
  BY <1>1 DEF AuditInv, AuditTypeOK, CompletedIsLive
<1>3. \A x \in Assets : report'[s][x].category = "none"
  BY DEF AuditInv, AuditTypeOK
<1>4. MissingWasNotObserved'
  BY <1>3 DEF AuditInv, MissingWasNotObserved
<1> QED
  BY <1>1, <1>2, <1>4 DEF AuditInv

LEMMA ScanKeeps ==
    ASSUME AuditInv, NEW w \in Workers, Scan(w)
    PROVE  AuditInv'
<1>1. tx[w].op = "scan" /\ tx[w].step \in Holding
  BY DEF Scan, Holding
<1>2. tx[w] \in Request
  BY <1>1, Applying
<1> PICK s \in Sessions : tx[w].of = {s} /\ session[s].status = "active"
  BY <1>1, Applying
<1>3. \/ Refuse(w)
      \/ /\ audit' = [audit EXCEPT ![s] =
                [x \in Assets |-> IF x \in tx[w].assets THEN tx[w].place ELSE audit[s][x]]]
         /\ Commit(w)
         /\ UNCHANGED <<session, report, asset, served, edits>>
  BY DEF Scan
<1>4. CASE Refuse(w)
  BY <1>4, RefuseKeeps
<1>5. CASE ~Refuse(w)
  <2>1. [x \in Assets |-> IF x \in tx[w].assets THEN tx[w].place ELSE audit[s][x]]
            \in [Assets -> Somewhere]
    BY <1>2 DEF AuditInv, AuditTypeOK, Request
  <2>2. audit' \in [Sessions -> [Assets -> Somewhere]]
        /\ \A t \in Sessions : t # s => audit'[t] = audit[t]
    BY <1>3, <1>5, <2>1 DEF AuditInv, AuditTypeOK
  <2> QED
    BY <1>3, <1>5, <2>2, ObservationKeeps
<1> QED
  BY <1>4, <1>5

LEMMA BasketKeeps ==
    ASSUME AuditInv, NEW w \in Workers, Basket(w)
    PROVE  AuditInv'
<1>1. tx[w].op = "basket" /\ tx[w].step \in Holding
  BY DEF Basket, Holding
<1> PICK s \in Sessions : tx[w].of = {s} /\ session[s].status = "active"
  BY <1>1, Applying
<1> DEFINE new == {x \in tx[w].assets : audit[s][x] = NoPlace}
           seen == [x \in Assets |->
                        IF x \notin new THEN audit[s][x]
                        ELSE IF session[s].place # NoPlace THEN session[s].place
                        ELSE asset[x].place]
<1>3. \/ Refuse(w)
      \/ /\ audit' = [audit EXCEPT ![s] = seen]
         /\ Commit(w)
         /\ UNCHANGED <<session, report, asset, served, edits>>
  BY DEF Basket
<1>4. CASE Refuse(w)
  BY <1>4, RefuseKeeps
<1>5. CASE ~Refuse(w)
  <2>1. seen \in [Assets -> Somewhere]
    BY DEF AuditInv, AuditTypeOK, Session, Somewhere
  <2>2. audit' \in [Sessions -> [Assets -> Somewhere]]
        /\ \A t \in Sessions : t # s => audit'[t] = audit[t]
    BY <1>3, <1>5, <2>1 DEF AuditInv, AuditTypeOK
  <2> QED
    BY <1>3, <1>5, <2>2, ObservationKeeps
<1> QED
  BY <1>4, <1>5

LEMMA CloseReadKeeps ==
    ASSUME AuditInv, NEW w \in Workers, CloseRead(w)
    PROVE  AuditInv'
<1> USE RowFacts DEF AuditInv
<1>1. tx[w].op = "close" /\ tx[w].step \in Holding
      /\ UNCHANGED <<session, report, audit, asset, lock, served, edits>>
  BY DEF CloseRead, Holding
<1>2. tx[w] \in Request /\ RequestKnows(w) /\ LocksOf(w)
  BY DEF RequestsKnow, AuditTypeOK
<1> PICK s \in tx[w].of :
        tx' = [tx EXCEPT ![w].step = "write", ![w].expected = Expected(s)]
  BY DEF CloseRead
<1> DEFINE r == [tx[w] EXCEPT !.step = "write", !.expected = Expected(s)]
<1>3. Expected(s) \subseteq Assets
  BY DEF Expected
<1>4. r \in Request
  BY <1>2, <1>3 DEF Request
<1>5. /\ r.op = tx[w].op /\ r.step = "write" /\ r.of = tx[w].of
      /\ r.todo = tx[w].todo /\ r.assets = tx[w].assets /\ r.copy = tx[w].copy
  BY <1>2 DEF Request
<1>6. /\ tx' \in [Workers -> Request] /\ tx'[w] = r
      /\ \A v \in Workers : v # w => tx'[v] = tx[v]
  BY <1>2, <1>4 DEF AuditTypeOK, Request
<1>7. RequestKnows(w)' /\ LocksOf(w)'
  BY <1>1, <1>2, <1>5, <1>6 DEF RequestKnows, LocksOf, Holding
<1>8. \A v \in Workers : v # w => RequestKnows(v)' /\ LocksOf(v)'
  BY <1>1, <1>6 DEF RequestKnows, LocksOf, RequestsKnow
<1>9. RequestsKnow'
  BY <1>7, <1>8 DEF RequestsKnow
<1> QED
  BY <1>1, <1>6, <1>9 DEF AuditTypeOK, CompletedIsLive, MissingWasNotObserved

(* The report of a close: a row for each asset, "missing" only without an   *)
(* observation.                                                             *)
LEMMA ReportFacts ==
    ASSUME AuditTypeOK, NEW s \in Sessions, NEW X, NEW x \in Assets
    PROVE  LET category == Category(s, X, x)
               row == IF category = "none" THEN NoRow
                      ELSE [category |-> category, seen |-> audit[s][x],
                            status |-> asset[x].status]
           IN  row \in ReportRow /\ (row.category = "missing" => audit[s][x] = NoPlace)
<1> DEFINE category == Category(s, X, x)
           row == IF category = "none" THEN NoRow
                  ELSE [category |-> category, seen |-> audit[s][x],
                        status |-> asset[x].status]
<1>1. category \in Categories /\ (category = "missing" => audit[s][x] = NoPlace)
  BY DEF Category, Categories
<1>2. audit[s][x] \in Somewhere /\ asset[x].status \in AssetStatuses
  BY DEF AuditTypeOK
<1> HIDE DEF category
<1>3. row \in ReportRow /\ (row.category = "missing" => audit[s][x] = NoPlace)
  BY <1>1, <1>2, IdleFacts DEF ReportRow
<1> QED
  BY <1>3 DEF category

LEMMA CloseKeeps ==
    ASSUME AuditInv, NEW w \in Workers, Close(w)
    PROVE  AuditInv'
<1> USE DEF AuditInv
<1>1. tx[w].op = "close" /\ tx[w].step \in Holding /\ Commit(w)
      /\ UNCHANGED <<audit, asset, served, edits>>
  BY DEF Close, Holding
<1> PICK s \in Sessions : /\ tx[w].of = {s} /\ lock[<<"session", s>>] = w
                          /\ session[s].live /\ session[s].status # "completed"
  BY <1>1, Applying
<1> DEFINE row(x) == LET category == Category(s, tx[w].expected, x) IN
                     IF category = "none" THEN NoRow
                     ELSE [category |-> category, seen |-> audit[s][x],
                           status |-> asset[x].status]
           new == [session[s] EXCEPT !.status = "completed", !.version = @ + 1]
<1>2. /\ report' = [report EXCEPT ![s] = [x \in Assets |-> row(x)]]
      /\ session' = [session EXCEPT ![s].status = "completed", ![s].version = @ + 1]
  BY DEF Close
<1>3. \A x \in Assets : row(x) \in ReportRow
                         /\ (row(x).category = "missing" => audit[s][x] = NoPlace)
  BY ReportFacts
<1>4. session[s] \in Session
  BY DEF AuditTypeOK
<1>5. new \in Session /\ new.live /\ new.status = "completed"
  <2>1. session[s].version + 1 \in Nat
    BY <1>4 DEF Session
  <2>2. new \in Session
    BY <1>4, <2>1 DEF Session, SessionStatuses
  <2>3. new.live = session[s].live /\ new.status = "completed"
    BY <1>4 DEF Session
  <2> QED
    BY <2>2, <2>3
<1>6. session' = [session EXCEPT ![s] = new]
  BY <1>2, <1>4 DEF AuditTypeOK, Session
<1>7. session' \in [Sessions -> Session] /\ session'[s] = new
      /\ \A t \in Sessions : t # s => session'[t] = session[t]
  BY <1>5, <1>6 DEF AuditTypeOK
<1> HIDE DEF row, new
<1>8. [x \in Assets |-> row(x)] \in [Assets -> ReportRow]
  BY <1>3
<1>9. /\ report' \in [Sessions -> [Assets -> ReportRow]]
      /\ report'[s] = [x \in Assets |-> row(x)]
      /\ \A t \in Sessions : t # s => report'[t] = report[t]
  BY <1>2, <1>8 DEF AuditTypeOK
<1>10. lock' \in [Rows -> Workers \cup {Nobody}] /\ tx' \in [Workers -> Request] /\ RequestsKnow'
  <2>1. \A t \in Sessions : session'[t] # session[t] => lock[<<"session", t>>] \in {w, Nobody}
    BY <1>7
  <2> QED
    BY <1>1, <2>1, Committed
<1>11. AuditTypeOK'
  <2>1. \A t \in Sessions : session'[t].status # "completed" =>
            \A x \in Assets : report'[t][x].category = "none"
    BY <1>5, <1>7, <1>9 DEF AuditTypeOK
  <2> QED
    BY <1>1, <1>7, <1>9, <1>10, <2>1 DEF AuditTypeOK
<1>12. CompletedIsLive'
  BY <1>5, <1>7 DEF CompletedIsLive
<1>13. MissingWasNotObserved'
  BY <1>1, <1>3, <1>9 DEF MissingWasNotObserved
<1> QED
  BY <1>10, <1>11, <1>12, <1>13

(* Corrections, which change assets and nothing that is audited. *)
LEMMA CorrectionKeeps ==
    ASSUME AuditInv, NEW w \in Workers, Commit(w),
           asset' \in [Assets -> [place : Places, status : AssetStatuses]],
           UNCHANGED <<session, report, audit, served, edits>>
    PROVE  AuditInv'
<1>1. lock' \in [Rows -> Workers \cup {Nobody}] /\ tx' \in [Workers -> Request] /\ RequestsKnow'
  BY Committed
<1> QED
  BY <1>1 DEF AuditInv, AuditTypeOK, CompletedIsLive, MissingWasNotObserved

LEMMA RehomeKeeps ==
    ASSUME AuditInv, NEW w \in Workers, Rehome(w)
    PROVE  AuditInv'
<1>1. tx[w].step \in Holding
  BY DEF Rehome, Holding
<1> PICK s \in Sessions : tx[w].of = {s}
  BY <1>1, Applying
<1> DEFINE to(x) == IF x \in tx[w].assets /\ asset[x].place = report[s][x].seen
                    THEN [asset[x] EXCEPT !.place = session[s].place]
                    ELSE asset[x]
<1>2. CASE Refuse(w)
  BY <1>2, RefuseKeeps
<1>3. CASE ~Refuse(w)
  <2>1. /\ session[s].place # NoPlace /\ asset' = [x \in Assets |-> to(x)] /\ Commit(w)
        /\ UNCHANGED <<session, report, audit, served, edits>>
    BY <1>3 DEF Rehome
  <2>2. session[s].place \in Places
    BY <2>1 DEF AuditInv, AuditTypeOK, Session, Somewhere
  <2>3. \A x \in Assets : to(x) \in [place : Places, status : AssetStatuses]
    BY <2>2 DEF AuditInv, AuditTypeOK
  <2> HIDE DEF to
  <2>4. asset' \in [Assets -> [place : Places, status : AssetStatuses]]
    BY <2>1, <2>3
  <2> QED
    BY <2>1, <2>4, CorrectionKeeps
<1> QED
  BY <1>2, <1>3

LEMMA FlagKeeps ==
    ASSUME AuditInv, NEW w \in Workers, Flag(w)
    PROVE  AuditInv'
<1>1. tx[w].step \in Holding /\ Commit(w)
      /\ UNCHANGED <<session, report, audit, served, edits>>
  BY DEF Flag, Holding
<1> PICK s \in Sessions : tx[w].of = {s}
  BY <1>1, Applying
<1> DEFINE to(x) == IF x \in tx[w].assets /\ asset[x].status = report[s][x].status
                    THEN [asset[x] EXCEPT !.status = "missing"] ELSE asset[x]
<1>2. asset' = [x \in Assets |-> to(x)]
  BY DEF Flag
<1>3. \A x \in Assets : to(x) \in [place : Places, status : AssetStatuses]
  BY DEF AuditInv, AuditTypeOK, AssetStatuses
<1> HIDE DEF to
<1>4. asset' \in [Assets -> [place : Places, status : AssetStatuses]]
  BY <1>2, <1>3
<1> QED
  BY <1>1, <1>4, CorrectionKeeps

(* A session nobody holds and that is not completed is saved as one that is *)
(* not completed.                                                           *)
LEMMA SaveKeeps ==
    ASSUME AuditInv, NEW w \in Workers, NEW s \in Sessions, Free(<<"session", s>>),
           session[s].status # "completed",
           NEW new \in Session, new.status # "completed",
           session' = [session EXCEPT ![s] = new], Commit(w),
           UNCHANGED <<report, audit, asset, served, edits>>
    PROVE  AuditInv'
<1> USE DEF AuditInv
<1>1. session' \in [Sessions -> Session] /\ session'[s] = new
      /\ \A t \in Sessions : t # s => session'[t] = session[t]
  BY DEF AuditTypeOK
<1>2. lock' \in [Rows -> Workers \cup {Nobody}] /\ tx' \in [Workers -> Request] /\ RequestsKnow'
  <2>1. \A t \in Sessions : session'[t] # session[t] => lock[<<"session", t>>] \in {w, Nobody}
    BY <1>1 DEF Free
  <2> QED
    BY <2>1, Committed
<1>3. \A t \in Sessions : session'[t].status = session[t].status
                          \/ (session[t].status # "completed" /\ session'[t].status # "completed")
  BY <1>1
<1>4. AuditTypeOK'
  <2>1. \A t \in Sessions : session'[t].status # "completed" =>
            \A x \in Assets : report'[t][x].category = "none"
    BY <1>3 DEF AuditTypeOK
  <2> QED
    BY <1>1, <1>2, <2>1 DEF AuditTypeOK
<1>5. CompletedIsLive' /\ MissingWasNotObserved'
  BY <1>1 DEF CompletedIsLive, MissingWasNotObserved
<1> QED
  BY <1>2, <1>4, <1>5

LEMMA StartKeeps ==
    ASSUME AuditInv, NEW w \in Workers, Start(w)
    PROVE  AuditInv'
<1>1. PICK s \in tx[w].of :
        /\ Free(<<"session", s>>)
        /\ IF NotCompleted(s)
           THEN /\ session' = [session EXCEPT ![s].status = "active"]
                /\ Commit(w)
                /\ UNCHANGED <<report, audit, asset, served, edits>>
           ELSE Refuse(w)
  BY DEF Start
<1>2. s \in Sessions /\ session[s] \in Session
  BY DEF AuditInv, AuditTypeOK, Request
<1>3. CASE ~NotCompleted(s)
  BY <1>1, <1>3, RefuseKeeps
<1>4. CASE NotCompleted(s)
  <2> DEFINE new == [session[s] EXCEPT !.status = "active"]
  <2>1. new \in Session /\ new.status # "completed"
    BY <1>2 DEF Session, SessionStatuses
  <2>2. session' = [session EXCEPT ![s] = new]
    BY <1>1, <1>2, <1>4
  <2>3. Commit(w) /\ session[s].status # "completed"
        /\ UNCHANGED <<report, audit, asset, served, edits>>
    BY <1>1, <1>4 DEF NotCompleted
  <2> HIDE DEF new
  <2> QED
    BY <1>1, <1>2, <2>1, <2>2, <2>3, SaveKeeps
<1> QED
  BY <1>3, <1>4

LEMMA EditKeeps ==
    ASSUME AuditInv, NEW w \in Workers, Edit(w)
    PROVE  AuditInv'
<1> DEFINE copy == tx[w].copy
           Edited == {[copy EXCEPT !.place = p] : p \in Somewhere}
                     \cup {[copy EXCEPT !.status = "planned"],
                           [copy EXCEPT !.status = "active"]}
<1>1. PICK s \in tx[w].of :
        /\ Free(<<"session", s>>)
        /\ IF NotCompleted(s) /\ session[s].live /\ session[s].version = copy.version
           THEN /\ \E new \in Edited :
                      session' = [session EXCEPT ![s] = [new EXCEPT !.version = @ + 1]]
                /\ Commit(w)
                /\ UNCHANGED <<report, audit, asset, served, edits>>
           ELSE Refuse(w)
  BY DEF Edit
<1>2. s \in Sessions /\ copy \in Session /\ copy.status # "completed"
  BY DEF AuditInv, AuditTypeOK, Request, RequestsKnow, RequestKnows, Edit
<1>3. CASE Refuse(w)
  BY <1>3, RefuseKeeps
<1>4. CASE ~Refuse(w)
  <2>1. /\ session[s].status # "completed" /\ Commit(w)
        /\ UNCHANGED <<report, audit, asset, served, edits>>
    BY <1>1, <1>4 DEF NotCompleted
  <2>2. PICK new \in Edited :
            session' = [session EXCEPT ![s] = [new EXCEPT !.version = @ + 1]]
    BY <1>1, <1>4
  <2>3. new \in Session /\ new.status # "completed"
    BY <1>2 DEF Session, SessionStatuses
  <2> HIDE DEF Edited
  <2> DEFINE saved == [new EXCEPT !.version = @ + 1]
  <2>4. new.version + 1 \in Nat
    BY <2>3 DEF Session
  <2>5. saved \in Session /\ saved.status # "completed"
    BY <2>3, <2>4 DEF Session
  <2>6. session' = [session EXCEPT ![s] = saved]
    BY <2>2
  <2> HIDE DEF saved
  <2> QED
    BY <1>1, <1>2, <2>1, <2>5, <2>6, SaveKeeps
<1> QED
  BY <1>3, <1>4

(* Steps without a request: locks and requests stay. *)
LEMMA DeleteSessionKeeps ==
    ASSUME AuditInv, NEW s \in Sessions, DeleteSession(s)
    PROVE  AuditInv'
<1> USE AuditConstants DEF AuditInv
<1> DEFINE new == [session[s] EXCEPT !.live = ~@]
<1>1. session[s] \in Session /\ UNCHANGED <<report, audit, asset, lock, tx, served>>
      /\ edits' \in 0 .. MaxEdits
  BY DEF DeleteSession, AuditTypeOK
<1>2. session' = [session EXCEPT ![s] = new]
  BY <1>1 DEF DeleteSession, AuditTypeOK
<1>3. new \in Session /\ new.status = session[s].status
  <2>1. (~session[s].live) \in BOOLEAN
    OBVIOUS
  <2> QED
    BY <1>1, <2>1 DEF Session
<1>4. session[s].status # "completed"
  BY DEF DeleteSession, NotCompleted, CompletedIsLive
<1> HIDE DEF new
<1>5. session' \in [Sessions -> Session] /\ session'[s] = new
      /\ \A t \in Sessions : t # s => session'[t] = session[t]
  BY <1>2, <1>3 DEF AuditTypeOK
<1>6. \A t \in Sessions : session'[t].status = session[t].status
  BY <1>3, <1>5
<1>7. AuditTypeOK' /\ MissingWasNotObserved'
  BY <1>1, <1>5, <1>6 DEF AuditTypeOK, MissingWasNotObserved
<1>8. CompletedIsLive'
  BY <1>3, <1>4, <1>5 DEF CompletedIsLive
<1>9. ASSUME NEW v \in Workers
      PROVE  RequestKnows(v)' /\ LocksOf(v)'
  <2>1. RequestKnows(v) /\ LocksOf(v) /\ tx' = tx /\ lock' = lock
        /\ tx[v].of \subseteq Sessions
    BY <1>1 DEF RequestsKnow, AuditTypeOK, Request
  <2>2. lock[<<"session", s>>] # v
    BY DEF DeleteSession, Free
  <2>3. tx[v].step \in Holding => \A t \in tx[v].of : session'[t] = session[t]
    BY <1>5, <2>1, <2>2 DEF RequestKnows
  <2> QED
    BY <2>1, <2>3 DEF RequestKnows, LocksOf
<1> QED
  BY <1>7, <1>8, <1>9 DEF RequestsKnow

LEMMA DeleteAuditKeeps ==
    ASSUME AuditInv, NEW s \in Sessions, NEW x \in Assets, DeleteAudit(s, x)
    PROVE  AuditInv'
<1> USE AuditConstants DEF AuditInv
<1>1. UNCHANGED <<session, report, asset, lock, tx, served>> /\ edits' \in 0 .. MaxEdits
  BY DEF DeleteAudit, AuditTypeOK
<1>2. audit' \in [Sessions -> [Assets -> Somewhere]]
      /\ \A t \in Sessions, y \in Assets : audit'[t][y] \in {audit[t][y], NoPlace}
  BY DEF DeleteAudit, AuditTypeOK, Somewhere
<1>3. AuditTypeOK' /\ CompletedIsLive'
  BY <1>1, <1>2 DEF AuditTypeOK, CompletedIsLive
<1>4. MissingWasNotObserved'
  BY <1>1, <1>2 DEF MissingWasNotObserved
<1>5. RequestsKnow'
  BY <1>1 DEF RequestsKnow, RequestKnows, LocksOf
<1> QED
  BY <1>3, <1>4, <1>5

LEMMA EditAssetKeeps ==
    ASSUME AuditInv, NEW x \in Assets, EditAsset(x)
    PROVE  AuditInv'
<1> USE AuditConstants DEF AuditInv
<1>1. UNCHANGED <<session, report, audit, lock, tx, served>> /\ edits' \in 0 .. MaxEdits
  BY DEF EditAsset, AuditTypeOK
<1>2. asset' \in [Assets -> [place : Places, status : AssetStatuses]]
  <2>1. CASE \E p \in Places : asset' = [asset EXCEPT ![x].place = p]
    BY <2>1 DEF AuditTypeOK
  <2>2. CASE \E status \in AssetStatuses : asset' = [asset EXCEPT ![x].status = status]
    BY <2>2 DEF AuditTypeOK
  <2> QED
    BY <2>1, <2>2 DEF EditAsset
<1>3. AuditTypeOK' /\ CompletedIsLive' /\ MissingWasNotObserved'
  BY <1>1, <1>2 DEF AuditTypeOK, CompletedIsLive, MissingWasNotObserved
<1>4. RequestsKnow'
  BY <1>1 DEF RequestsKnow, RequestKnows, LocksOf
<1> QED
  BY <1>3, <1>4

LEMMA NextKeeps == AuditInv /\ [Next]_vars => AuditInv'
<1> SUFFICES ASSUME AuditInv, [Next]_vars PROVE AuditInv'
  OBVIOUS
<1>1. CASE UNCHANGED vars
  BY <1>1 DEF vars, AuditInv, AuditTypeOK, RequestsKnow, RequestKnows, LocksOf,
              CompletedIsLive, MissingWasNotObserved
<1>2. ASSUME NEW w \in Workers, Proceed(w)
      PROVE  AuditInv'
  BY <1>2, TakeSessionKeeps, TakeAssetKeeps, ScanKeeps, BasketKeeps, CloseReadKeeps,
     CloseKeeps, RehomeKeeps, FlagKeeps, StartKeeps, EditKeeps DEF Proceed
<1>3. ASSUME NEW w \in Workers, RollBack(w)
      PROVE  AuditInv'
  BY <1>3, RefuseKeeps DEF RollBack
<1> QED
  BY <1>1, <1>2, <1>3, BeginKeeps, DeleteSessionKeeps, DeleteAuditKeeps, EditAssetKeeps
     DEF Next

(* The inductive invariant holds in every reachable state. *)
THEOREM AuditInvariant == Spec => []AuditInv
  BY InitInv, NextKeeps, PTL DEF Spec

(* Every row, lock and request has its type, and a session that is not      *)
(* completed has no report.                                                 *)
THEOREM AuditTypes == Spec => []AuditTypeOK
<1>1. AuditInv => AuditTypeOK
  BY DEF AuditInv
<1> QED
  BY <1>1, AuditInvariant, PTL

(* A report calls nothing missing that its session observed, whatever scans *)
(* and closes interleave: the scan wrote under the lock that close waits    *)
(* for, and afterwards no scan is accepted.                                 *)
THEOREM ReportIsJust == Spec => []MissingWasNotObserved
<1>1. AuditInv => MissingWasNotObserved
  BY DEF AuditInv
<1> QED
  BY <1>1, AuditInvariant, PTL

(* A request that waits for its session holds nothing; one that waits for   *)
(* an asset holds only smaller ones.                                        *)
LEMMA OrderedWaits == AuditInv => NoCircularWait
<1> SUFFICES ASSUME AuditInv, NEW v \in Workers, NEW w \in Workers, v # w,
                    Waits(v, w), Waits(w, v)
             PROVE  FALSE
  BY DEF NoCircularWait
<1> USE DEF AuditInv
<1>1. \A u \in Workers : /\ RequestKnows(u) /\ LocksOf(u) /\ tx[u].of \subseteq Sessions
                         /\ tx[u].todo \subseteq Assets /\ NextAssets(u) \subseteq tx[u].todo
  BY DEF RequestsKnow, AuditTypeOK, Request, NextAssets
<1>2. ASSUME NEW u \in Workers, NEW h \in Workers, Waits(u, h)
      PROVE  /\ tx[h].step \in Holding
             /\ tx[u].step = "assets" =>
                    \E x \in tx[u].todo : x \in tx[h].assets \ tx[h].todo
  <2>1. CASE tx[u].step = "session"
    BY <1>1, <1>2, <2>1 DEF Waits, LocksOf
  <2>2. CASE tx[u].step = "assets"
    <3>1. PICK x \in NextAssets(u) : lock[<<"asset", x>>] = h
      BY <1>2, <2>2 DEF Waits
    <3>2. x \in tx[u].todo /\ x \in Assets
      BY <1>1, <3>1
    <3> QED
      BY <1>1, <3>1, <3>2 DEF LocksOf
  <2> QED
    BY <1>2, <2>1, <2>2 DEF Waits
<1>3. tx[v].step = "assets" /\ tx[w].step = "assets"
  BY <1>2 DEF Waits, Holding
<1>4. PICK x \in tx[v].todo : x \in tx[w].assets \ tx[w].todo
  BY <1>2, <1>3
<1>5. PICK y \in tx[w].todo : y \in tx[v].assets \ tx[v].todo
  BY <1>2, <1>3
<1>6. x < y /\ y < x /\ x \in Nat /\ y \in Nat
  BY <1>1, <1>4, <1>5, AuditConstants DEF RequestKnows
<1> QED
  BY <1>6

(* No two requests wait for each other, whatever they work on. *)
THEOREM NoDeadlock == Spec => []NoCircularWait
  BY AuditInvariant, OrderedWaits, PTL

-----------------------------------------------------------------------------
(* A completed session, its report and what was not observed in it.         *)
Frozen(s) ==
    /\ session'[s] = session[s] /\ report'[s] = report[s]
    /\ \A x \in Assets : audit[s][x] = NoPlace => audit'[s][x] = NoPlace

LEMMA RefuseFreezes ==
    ASSUME NEW w, Refuse(w), NEW s
    PROVE  Frozen(s)
BY DEF Refuse, Frozen

(* A request that writes a session or an observation has found the session  *)
(* not completed under its lock, and holds the lock still.                  *)
LEMMA ProceedFreezes ==
    ASSUME AuditInv, NEW w \in Workers, Proceed(w), NEW s \in Sessions,
           session[s].status = "completed"
    PROVE  Frozen(s)
<1> USE DEF AuditInv
<1>1. \A t \in tx[w].of : t \in Sessions
  BY DEF AuditTypeOK, Request
<1>2. CASE TakeSession(w)
  BY <1>2, RefuseFreezes DEF TakeSession, Frozen
<1>3. CASE TakeAsset(w) \/ CloseRead(w) \/ Flag(w)
  BY <1>3 DEF TakeAsset, CloseRead, Flag, Frozen
<1>4. CASE Rehome(w)
  BY <1>4, RefuseFreezes DEF Rehome, Frozen
<1>5. CASE Scan(w)
  <2>1. s \notin tx[w].of
    BY <1>5, Applying DEF Scan, Holding
  <2> QED
    BY <1>1, <1>5, <2>1, RefuseFreezes DEF Scan, Frozen, AuditTypeOK
<1>6. CASE Basket(w)
  <2>1. s \notin tx[w].of
    BY <1>6, Applying DEF Basket, Holding
  <2> QED
    BY <1>1, <1>6, <2>1, RefuseFreezes DEF Basket, Frozen, AuditTypeOK
<1>7. CASE Close(w)
  <2>1. s \notin tx[w].of
    <3>1. tx[w].op = "close" /\ tx[w].step \in Holding
      BY <1>7 DEF Close, Holding
    <3> QED
      BY <3>1, Applying
  <2>2. session'[s] = session[s] /\ report'[s] = report[s] /\ audit' = audit
    BY <1>1, <1>7, <2>1 DEF Close, AuditTypeOK
  <2> QED
    BY <2>2 DEF Frozen
<1>8. CASE Start(w)
  BY <1>1, <1>8, RefuseFreezes DEF Start, NotCompleted, Frozen, AuditTypeOK
<1>9. CASE Edit(w)
  <2>1. Refuse(w) \/ (session'[s] = session[s] /\ UNCHANGED <<report, audit>>)
    BY <1>1, <1>9 DEF Edit, NotCompleted, AuditTypeOK
  <2> QED
    BY <2>1, RefuseFreezes DEF Frozen
<1> QED
  BY <1>2, <1>3, <1>4, <1>5, <1>6, <1>7, <1>8, <1>9 DEF Proceed

LEMMA NextFreezes ==
    ASSUME AuditInv, [Next]_vars, NEW s \in Sessions, session[s].status = "completed"
    PROVE  Frozen(s)
<1> USE DEF AuditInv
<1>1. CASE UNCHANGED vars
  BY <1>1 DEF vars, Frozen
<1>2. ASSUME NEW w \in Workers, Begin(w)
      PROVE  Frozen(s)
  BY <1>2 DEF Begin, ScanBegin, BasketBegin, CloseBegin, CorrectBegin, StartBegin,
              EditBegin, Serve, Frozen
<1>3. ASSUME NEW w \in Workers, RollBack(w)
      PROVE  Frozen(s)
  BY <1>3, RefuseFreezes DEF RollBack
<1>4. ASSUME NEW t \in Sessions, DeleteSession(t)
      PROVE  Frozen(s)
  <2>1. t # s
    BY <1>4 DEF DeleteSession, NotCompleted, CompletedIsLive
  <2> QED
    BY <1>4, <2>1 DEF DeleteSession, Frozen, AuditTypeOK
<1>5. ASSUME NEW t \in Sessions, NEW x \in Assets, DeleteAudit(t, x)
      PROVE  Frozen(s)
  BY <1>5 DEF DeleteAudit, Frozen, AuditTypeOK
<1>6. ASSUME NEW x \in Assets, EditAsset(x)
      PROVE  Frozen(s)
  BY <1>6 DEF EditAsset, Frozen
<1> QED
  BY <1>1, <1>2, <1>3, <1>4, <1>5, <1>6, ProceedFreezes DEF Next

(* No stale copy, late close or deletion changes a completed session or its *)
(* report.                                                                  *)
THEOREM CompletedStays == Spec => CompletedIsFrozen
<1>1. AuditInv /\ [Next]_vars =>
        [\A s \in Sessions : session[s].status = "completed"
            => session'[s] = session[s] /\ report'[s] = report[s]]_vars
  BY NextFreezes DEF Frozen
<1> QED
  BY <1>1, AuditInvariant, PTL DEF Spec, CompletedIsFrozen

(* Nothing is observed in a completed session any more. *)
THEOREM NothingObservedLate == Spec => NoLateObservation
<1>1. AuditInv /\ [Next]_vars =>
        [\A s \in Sessions, x \in Assets :
            session[s].status = "completed" /\ audit[s][x] = NoPlace
                => audit'[s][x] = NoPlace]_vars
  BY NextFreezes DEF Frozen
<1> QED
  BY <1>1, AuditInvariant, PTL DEF Spec, NoLateObservation
=============================================================================
