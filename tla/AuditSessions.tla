--------------------------- MODULE AuditSessions ----------------------------
(***************************************************************************)
(* Inventory audits.  A session is planned, started, filled with           *)
(* observations of assets, and closed: closing compares what is expected   *)
(* at its place with what was seen and freezes the report, from which      *)
(* misplaced assets are re-homed and unseen ones flagged as missing.       *)
(*                                                                         *)
(* Every service call is a transaction on PostgreSQL under READ COMMITTED: *)
(* it locks the session row, then its assets in the order of their keys,   *)
(* then reads and writes.  What a view read before is stale by then.       *)
(* Assets are edited meanwhile by transactions of their own.  Permissions  *)
(* and tenants only decide who is refused before anything is written.      *)
(***************************************************************************)
EXTENDS Naturals, FiniteSets

CONSTANTS
    Sessions,
    Assets,      \* primary keys
    Places,      \* locations
    NoPlace,     \* a session for the whole inventory; no observation
    Workers,     \* web workers, each with one request at a time
    Nobody,
    MaxRequests, \* bound: requests that lock a session
    MaxEdits     \* bound: edits of assets, deletions of sessions and observations

ASSUME AuditConstants ==
    /\ Assets \subseteq Nat
    /\ NoPlace \notin Places /\ Nobody \notin Workers
    /\ MaxRequests \in Nat /\ MaxEdits \in Nat

VARIABLES
    session,    \* AuditSession rows; version stands for updated_at
    report,     \* reconciliation_report: the row of each asset, and its target
    audit,      \* AssetAudit rows of each session: the observed place
    asset,      \* recorded place and status
    lock,       \* the transaction that holds each row
    tx,         \* what each request is doing
    served,     \* requests so far
    edits       \* edits so far

vars == <<session, report, audit, asset, lock, tx, served, edits>>

SessionStatuses == {"planned", "active", "completed"}
AssetStatuses == {"ready", "missing", "archived", "deleted"}
Categories == {"none", "matching", "mismatched", "surprise", "missing"}
Somewhere == Places \cup {NoPlace}

Operations == {"scan", "basket", "close", "rehome", "flag"}
Session == [status : SessionStatuses, place : Somewhere, live : BOOLEAN,
            version : Nat]
ReportRow == [category : Categories, seen : Somewhere, status : AssetStatuses]
Request == [op : Operations \cup {"idle", "start", "edit"},
            step : {"idle", "session", "assets", "apply", "write"},
            of : SUBSET Sessions, todo : SUBSET Assets, assets : SUBSET Assets,
            place : Somewhere, expected : SUBSET Assets, copy : Session]

Rows == ({"session"} \X Sessions) \cup ({"asset"} \X Assets)

AuditTypeOK ==
    /\ session \in [Sessions -> Session]
    /\ report \in [Sessions -> [Assets -> ReportRow]]
    /\ audit \in [Sessions -> [Assets -> Somewhere]]
    /\ asset \in [Assets -> [place : Places, status : AssetStatuses]]
    /\ lock \in [Rows -> Workers \cup {Nobody}]
    /\ tx \in [Workers -> Request]
    /\ served \in 0 .. MaxRequests
    /\ edits \in 0 .. MaxEdits
    /\ \A s \in Sessions : session[s].status # "completed" =>
          \A x \in Assets : report[s][x].category = "none"

NoRow == [category |-> "none", seen |-> NoPlace, status |-> "ready"]
NoCopy == [status |-> "planned", place |-> NoPlace, live |-> TRUE, version |-> 0]
Idle == [op |-> "idle", step |-> "idle", of |-> {}, todo |-> {}, assets |-> {},
         place |-> NoPlace, expected |-> {}, copy |-> NoCopy]

Init ==
    /\ \E status \in [Sessions -> SessionStatuses \ {"completed"}],
          place \in [Sessions -> Somewhere] :
          session = [s \in Sessions |-> [status |-> status[s], place |-> place[s],
                                        live |-> TRUE, version |-> 0]]
    /\ report = [s \in Sessions |-> [x \in Assets |-> NoRow]]
    /\ audit = [s \in Sessions |-> [x \in Assets |-> NoPlace]]
    /\ \E p \in Places : asset = [x \in Assets |-> [place |-> p, status |-> "ready"]]
    /\ lock = [x \in Rows |-> Nobody]
    /\ tx = [w \in Workers |-> Idle]
    /\ served = 0
    /\ edits = 0
-----------------------------------------------------------------------------
Free(row) == lock[row] = Nobody

Release(w) == lock' = [row \in Rows |-> IF lock[row] = w THEN Nobody ELSE lock[row]]

(* Commit: the locks of w are gone and its request is answered. *)
Commit(w) == Release(w) /\ tx' = [tx EXCEPT ![w] = Idle]

Refuse(w) == Commit(w) /\ UNCHANGED <<session, report, audit, asset, served, edits>>

(* A request of operation op on session s, as far as its view gets without  *)
(* a lock.                                                                  *)
Serve(w, op, s, assets, place) ==
    /\ tx[w].op = "idle"
    /\ served < MaxRequests
    /\ served' = served + 1
    /\ tx' = [tx EXCEPT ![w] = [Idle EXCEPT
                    !.op = op, !.step = "session", !.of = {s}, !.assets = assets,
                    !.place = place,
                    !.copy = IF op = "edit" THEN session[s] ELSE NoCopy]]
    /\ UNCHANGED <<session, report, audit, asset, lock, edits>>

(* The scanner and the detail form choose an active session and observe the *)
(* asset at its place or where it is recorded; a REST client chooses both.  *)
ScanBegin(w, s, x, place) ==
    /\ session[s].live
    /\ asset[x].status # "deleted"
    /\ Serve(w, "scan", s, {x}, place)

BasketBegin(w, s, assets) ==
    /\ session[s].live /\ session[s].status = "active"
    /\ Serve(w, "basket", s, assets, NoPlace)

(* The page closes active sessions, the REST API planned ones too. *)
CloseBegin(w, s) ==
    /\ session[s].live /\ session[s].status # "completed"
    /\ Serve(w, "close", s, {}, NoPlace)

CorrectBegin(w, s, op) ==
    /\ op \in {"rehome", "flag"}
    /\ session[s].live /\ session[s].status = "completed"
    /\ Serve(w, op, s, {}, NoPlace)

StartBegin(w, s) ==
    /\ session[s].live /\ session[s].status = "planned"
    /\ Serve(w, "start", s, {}, NoPlace)

EditBegin(w, s) ==
    /\ session[s].live /\ session[s].status # "completed"
    /\ Serve(w, "edit", s, {}, NoPlace)
-----------------------------------------------------------------------------
(* What should be found by session s. *)
Expected(s) ==
    {x \in Assets : IF session[s].place = NoPlace THEN asset[x].status = "ready"
                    ELSE /\ asset[x].place = session[s].place
                         /\ asset[x].status \notin {"archived", "deleted"}}

Reported(s, category) == {x \in Assets : report[s][x].category = category}
Present(X) == {x \in X : asset[x].status # "deleted"}

(* The assets an operation locks once it has the session. *)
Population(w, s) ==
    Present(CASE tx[w].op \in {"scan", "basket"} -> tx[w].assets
              [] tx[w].op = "close" ->
                     Expected(s) \cup {x \in Assets : audit[s][x] # NoPlace}
              [] tx[w].op = "rehome" -> Reported(s, "mismatched")
              [] OTHER -> Reported(s, "missing"))

MayProceedUnchecked(w, s) == session[s].live

(* The session as it is under the lock decides. *)
MayProceed(w, s) ==
    /\ session[s].live
    /\ CASE tx[w].op \in {"scan", "basket"} -> session[s].status = "active"
         [] tx[w].op = "close" -> session[s].status # "completed"
         [] OTHER -> session[s].status = "completed"

SessionFreeUnchecked(s) == TRUE

(* _lock_audit_session waits for whoever holds the row. *)
SessionFree(s) == Free(<<"session", s>>)

TakeSession(w) ==
    /\ tx[w].op \in Operations /\ tx[w].step = "session"
    /\ \E s \in tx[w].of :
          /\ SessionFree(s)
          /\ IF MayProceed(w, s)
             THEN /\ lock' = [lock EXCEPT ![<<"session", s>>] = w]
                  /\ tx' = [tx EXCEPT ![w].step = "assets",
                                      ![w].todo = Population(w, s),
                                      ![w].assets = Population(w, s)]
                  /\ UNCHANGED <<session, report, audit, asset, served, edits>>
             ELSE Refuse(w)

NextAssetsUnordered(w) == tx[w].todo

(* select_for_update ... order_by("pk") *)
NextAssets(w) == {x \in tx[w].todo : \A y \in tx[w].todo : x <= y}

TakeAsset(w) ==
    /\ tx[w].step = "assets"
    /\ \/ \E x \in NextAssets(w) :
             /\ Free(<<"asset", x>>)
             /\ lock' = [lock EXCEPT ![<<"asset", x>>] = w]
             /\ tx' = [tx EXCEPT ![w].todo = @ \ {x}]
       \/ /\ tx[w].todo = {}
          /\ tx' = [tx EXCEPT ![w].step = "apply"]
          /\ UNCHANGED lock
    /\ UNCHANGED <<session, report, audit, asset, served, edits>>

Auditable(x) == asset[x].status \notin {"archived", "deleted"}

(* audit_asset: one new observation of a live asset. *)
Scan(w) ==
    /\ tx[w].op = "scan" /\ tx[w].step = "apply"
    /\ \E s \in tx[w].of :
          IF \E x \in tx[w].assets : Auditable(x) /\ audit[s][x] = NoPlace
          THEN /\ audit' = [audit EXCEPT ![s] =
                     [x \in Assets |-> IF x \in tx[w].assets THEN tx[w].place
                                       ELSE audit[s][x]]]
               /\ Commit(w)
               /\ UNCHANGED <<session, report, asset, served, edits>>
          ELSE Refuse(w)

(* commit_audit_basket: all that were not observed yet, or none. *)
Basket(w) ==
    /\ tx[w].op = "basket" /\ tx[w].step = "apply"
    /\ \E s \in tx[w].of :
          LET new == {x \in tx[w].assets : audit[s][x] = NoPlace} IN
          IF \A x \in new : Auditable(x)
          THEN /\ audit' = [audit EXCEPT ![s] =
                     [x \in Assets |->
                        IF x \notin new THEN audit[s][x]
                        ELSE IF session[s].place # NoPlace THEN session[s].place
                        ELSE asset[x].place]]
               /\ Commit(w)
               /\ UNCHANGED <<session, report, asset, served, edits>>
          ELSE Refuse(w)

(* close_audit_session reads the expected assets in one statement *)
CloseRead(w) ==
    /\ tx[w].op = "close" /\ tx[w].step = "apply"
    /\ \E s \in tx[w].of :
          tx' = [tx EXCEPT ![w].step = "write", ![w].expected = Expected(s)]
    /\ UNCHANGED <<session, report, audit, asset, lock, served, edits>>

(* _classify_authorized for one asset *)
Category(s, expected, x) ==
    IF asset[x].status = "deleted" THEN "none"
    ELSE IF audit[s][x] = NoPlace
         THEN IF x \in expected THEN "missing" ELSE "none"
    ELSE IF x \notin expected THEN "surprise"
    ELSE IF session[s].place \in {NoPlace, audit[s][x]} THEN "matching"
    ELSE "mismatched"

(* and the observations in the next, and freezes the report. *)
Close(w) ==
    /\ tx[w].op = "close" /\ tx[w].step = "write"
    /\ \E s \in tx[w].of :
          /\ report' = [report EXCEPT ![s] = [x \in Assets |->
                          LET category == Category(s, tx[w].expected, x) IN
                          IF category = "none" THEN NoRow
                          ELSE [category |-> category, seen |-> audit[s][x],
                                status |-> asset[x].status]]]
          /\ session' = [session EXCEPT ![s].status = "completed",
                                        ![s].version = @ + 1]
    /\ Commit(w)
    /\ UNCHANGED <<audit, asset, served, edits>>

(* rehome_audit_session_mismatches: an asset that is where it was observed  *)
(* is moved to the place of the session, one that moved on is left alone.   *)
Rehome(w) ==
    /\ tx[w].op = "rehome" /\ tx[w].step = "apply"
    /\ \E s \in tx[w].of :
          IF session[s].place = NoPlace THEN Refuse(w)
          ELSE /\ asset' = [x \in Assets |->
                      IF x \in tx[w].assets /\ asset[x].place = report[s][x].seen
                      THEN [asset[x] EXCEPT !.place = session[s].place]
                      ELSE asset[x]]
               /\ Commit(w)
               /\ UNCHANGED <<session, report, audit, served, edits>>

(* flag_missing_assets: those whose status did not change since. *)
Flag(w) ==
    /\ tx[w].op = "flag" /\ tx[w].step = "apply"
    /\ \E s \in tx[w].of :
          asset' = [x \in Assets |->
                      IF x \in tx[w].assets /\ asset[x].status = report[s][x].status
                      THEN [asset[x] EXCEPT !.status = "missing"] ELSE asset[x]]
    /\ Commit(w)
    /\ UNCHANGED <<session, report, audit, served, edits>>
-----------------------------------------------------------------------------
CompletedMayChange(s) == TRUE

(* AuditSession.save locks the row and rejects a change of a completed one. *)
NotCompleted(s) == session[s].status # "completed"

(* AuditSessionStartView saves the status of the copy it read. *)
Start(w) ==
    /\ tx[w].op = "start"
    /\ \E s \in tx[w].of :
          /\ Free(<<"session", s>>)
          /\ IF NotCompleted(s)
             THEN /\ session' = [session EXCEPT ![s].status = "active"]
                  /\ Commit(w)
                  /\ UNCHANGED <<report, audit, asset, served, edits>>
             ELSE Refuse(w)

(* A REST update saves every column of its copy, if updated_at is still the *)
(* one the client saw; starting a session does not touch updated_at.        *)
Edit(w) ==
    /\ tx[w].op = "edit"
    /\ \E s \in tx[w].of :
          /\ Free(<<"session", s>>)
          /\ IF NotCompleted(s) /\ session[s].live
                /\ session[s].version = tx[w].copy.version
             THEN /\ \E new \in {[tx[w].copy EXCEPT !.place = p] : p \in Somewhere}
                             \cup {[tx[w].copy EXCEPT !.status = "planned"],
                                   [tx[w].copy EXCEPT !.status = "active"]} :
                        session' = [session EXCEPT ![s] =
                                        [new EXCEPT !.version = @ + 1]]
                  /\ Commit(w)
                  /\ UNCHANGED <<report, audit, asset, served, edits>>
             ELSE Refuse(w)

(* Sessions go to the recycle bin and come back. *)
DeleteSession(s) ==
    /\ edits < MaxEdits
    /\ Free(<<"session", s>>)
    /\ session[s].live => NotCompleted(s)
    /\ session' = [session EXCEPT ![s].live = ~@]
    /\ edits' = edits + 1
    /\ UNCHANGED <<report, audit, asset, lock, tx, served>>

(* DELETE of the REST resource of an observation, whatever its session. *)
DeleteAudit(s, x) ==
    /\ edits < MaxEdits
    /\ audit[s][x] # NoPlace
    /\ asset[x].status # "deleted"
    /\ audit' = [audit EXCEPT ![s][x] = NoPlace]
    /\ edits' = edits + 1
    /\ UNCHANGED <<session, report, asset, lock, tx, served>>

(* An asset is moved, disposed, deleted or verified outside of any session, *)
(* in a transaction that locks its row.                                     *)
EditAsset(x) ==
    /\ edits < MaxEdits
    /\ asset[x].status # "deleted"
    /\ Free(<<"asset", x>>)
    /\ \/ \E p \in Places : asset' = [asset EXCEPT ![x].place = p]
       \/ \E status \in AssetStatuses : asset' = [asset EXCEPT ![x].status = status]
    /\ edits' = edits + 1
    /\ UNCHANGED <<session, report, audit, lock, tx, served>>

(* The connection is lost. *)
RollBack(w) == tx[w].op # "idle" /\ Refuse(w)
-----------------------------------------------------------------------------
Begin(w) ==
    \E s \in Sessions :
        \/ \E x \in Assets, place \in Places : ScanBegin(w, s, x, place)
        \/ \E X \in (SUBSET Assets) \ {{}} : BasketBegin(w, s, X)
        \/ CloseBegin(w, s)
        \/ \E op \in {"rehome", "flag"} : CorrectBegin(w, s, op)
        \/ StartBegin(w, s) \/ EditBegin(w, s)

Proceed(w) ==
    \/ TakeSession(w) \/ TakeAsset(w)
    \/ Scan(w) \/ Basket(w) \/ CloseRead(w) \/ Close(w) \/ Rehome(w) \/ Flag(w)
    \/ Start(w) \/ Edit(w)

Next ==
    \/ \E w \in Workers : Begin(w) \/ Proceed(w) \/ RollBack(w)
    \/ \E s \in Sessions : DeleteSession(s) \/ \E x \in Assets : DeleteAudit(s, x)
    \/ \E x \in Assets : EditAsset(x)

Spec == Init /\ [][Next]_vars
-----------------------------------------------------------------------------
(* The report calls nothing missing that was observed in its session,       *)
(* however scans and the close interleave: a scan is either counted or      *)
(* refused.                                                                 *)
MissingWasNotObserved ==
    \A s \in Sessions, x \in Assets :
        report[s][x].category = "missing" => audit[s][x] = NoPlace

Waits(v, w) ==
    \/ /\ tx[v].step = "session"
       /\ \E s \in tx[v].of : lock[<<"session", s>>] = w
    \/ /\ tx[v].step = "assets" /\ NextAssets(v) # {}
       /\ \A x \in NextAssets(v) : lock[<<"asset", x>>] = w

(* "session-before-asset order" and "deterministic PK order": no two        *)
(* requests wait for each other, whatever sessions and assets they work on. *)
NoCircularWait ==
    \A v, w \in Workers : v # w => ~(Waits(v, w) /\ Waits(w, v))

(* "Completed audit sessions are immutable": no stale copy, late close or   *)
(* deletion changes a completed session or its frozen report.               *)
CompletedIsFrozen ==
    [][ \A s \in Sessions : session[s].status = "completed"
          => session'[s] = session[s] /\ report'[s] = report[s] ]_vars

(* "Completed audit sessions cannot accept new observations", not from a    *)
(* scan that found the session active either.                               *)
NoLateObservation ==
    [][ \A s \in Sessions, x \in Assets :
          session[s].status = "completed" /\ audit[s][x] = NoPlace
              => audit'[s][x] = NoPlace ]_vars

(* "Completed audit sessions and their evidence cannot be deleted".  The    *)
(* code does not meet this (README, section 6); no run states it.           *)
EvidenceIsKept ==
    [][ \A s \in Sessions, x \in Assets :
          session[s].status = "completed" /\ audit[s][x] # NoPlace
              => audit'[s][x] = audit[s][x] ]_vars
=============================================================================
