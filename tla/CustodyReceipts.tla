-------------------------- MODULE CustodyReceipts ---------------------------
(***************************************************************************)
(* The custody receipts of one asset: a checkout to a holder opens a       *)
(* custody period and a pending receipt, operators prepare signing         *)
(* sessions for it and mail the hand-off link, the holder accepts or       *)
(* declines with or without a session, and a check-in ends the period and  *)
(* supersedes what is still pending.                                       *)
(*                                                                         *)
(* Requests are transactions on PostgreSQL under READ COMMITTED.  They     *)
(* read before they lock, wait for row locks one at a time, and their      *)
(* writes are seen when they commit: signing locks the receipt and then    *)
(* the session, mailing the session and then the receipt, a check-in the   *)
(* assignment, the pending receipt and then its open sessions.             *)
(*                                                                         *)
(* A receipt stands for its custody period too.  Signer, operator and      *)
(* permission only decide whether a request is refused before it writes,   *)
(* and such a refusal is no step.                                          *)
(***************************************************************************)
EXTENDS Naturals, FiniteSets

CONSTANTS
    Receipts,
    NoReceipt,
    Sessions,     \* signing sessions, in the order they are prepared
    NoSession,
    Requests,     \* web workers, each with one request at a time
    Nobody,
    SessionLimit, \* CUSTODY_HANDOFF_SESSION_ATTEMPT_LIMIT
    ReceiptLimit, \* CUSTODY_HANDOFF_RECEIPT_ATTEMPT_LIMIT
    MaxRequests   \* bound: requests that are served

ASSUME ReceiptConstants ==
    /\ NoReceipt \notin Receipts /\ NoSession \notin Sessions
    /\ Nobody \notin Requests
    /\ SessionLimit \in Nat /\ ReceiptLimit \in Nat /\ MaxRequests \in Nat

VARIABLES
    receipt,    \* custody period and acceptance_status of each receipt
    session,    \* CustodySigningSession rows
    mails,      \* CustodyHandoffDelivery rows: <<session, attempt>>
    sent,       \* history: the rows whose e-mail was handed to the transport
    lock,       \* the transaction that holds each row
    req,        \* what each request is doing
    served      \* requests so far

vars == <<receipt, session, mails, sent, lock, req, served>>

Periods == {"future", "active", "ended"}
Decisions == {"accepted", "declined"}
Statuses == {"pending", "superseded"} \cup Decisions

Assignment(r) == <<"assignment", r>>
Receipt(r) == <<"receipt", r>>
Session(s) == <<"session", s>>
Rows == {Assignment(r) : r \in Receipts} \cup {Receipt(r) : r \in Receipts}
            \cup {Session(s) : s \in Sessions}

SignSteps == {"sign_receipt", "sign_session", "sign_decide"}
BookSteps == {"book_session", "book_receipt", "book_count", "book_insert"}
CheckInSteps == {"in_assignment", "in_receipt", "in_sessions", "in_commit"}
Steps == {"idle", "prepare", "mailing"}
            \cup SignSteps \cup BookSteps \cup CheckInSteps

ReceiptTypeOK ==
    /\ receipt \in [Receipts -> [period : Periods, status : Statuses]]
    /\ session \in [Sessions -> [of : Receipts \cup {NoReceipt},
                                 state : {"none", "open", "canceled"} \cup Decisions,
                                 expired : BOOLEAN]]
    /\ mails \subseteq Sessions \X (1 .. SessionLimit)
    /\ sent \subseteq Sessions \X (0 .. SessionLimit)
    /\ lock \in [Rows -> Requests \cup {Nobody}]
    /\ req \in [Requests -> [pc : Steps, r : Receipts \cup {NoReceipt},
                             s : Sessions \cup {NoSession},
                             attempt : 0 .. SessionLimit]]
    /\ served \in 0 .. MaxRequests

NoRequest == [pc |-> "idle", r |-> NoReceipt, s |-> NoSession, attempt |-> 0]

Init ==
    /\ receipt = [r \in Receipts |-> [period |-> "future", status |-> "pending"]]
    /\ session = [s \in Sessions |-> [of |-> NoReceipt, state |-> "none",
                                      expired |-> FALSE]]
    /\ mails = {}
    /\ sent = {}
    /\ lock = [x \in Rows |-> Nobody]
    /\ req = [a \in Requests |-> NoRequest]
    /\ served = 0
-----------------------------------------------------------------------------
(* Request a starts on receipt r and session s. *)
Serve(a, pc, r, s) ==
    /\ req[a].pc = "idle"
    /\ served < MaxRequests
    /\ served' = served + 1
    /\ req' = [req EXCEPT ![a] = [pc |-> pc, r |-> r, s |-> s, attempt |-> 0]]
    /\ UNCHANGED <<receipt, session, mails, sent, lock>>

Goto(a, pc) == req' = [req EXCEPT ![a].pc = pc]

Free(x) == lock[x] = Nobody

(* Row x is locked as soon as nobody holds it. *)
LockRow(a, x) == Free(x) /\ lock' = [lock EXCEPT ![x] = a]

Holds(a) == {x \in Rows : lock[x] = a}

(* Commit or rollback: the row locks of a are gone. *)
Release(a) == lock' = [x \in Rows |-> IF lock[x] = a THEN Nobody ELSE lock[x]]

End(a) ==
    /\ Release(a)
    /\ req' = [req EXCEPT ![a] = NoRequest]

(* The request answers with an error and writes nothing. *)
Refuse(a) == End(a) /\ UNCHANGED <<receipt, session, mails, sent, served>>

Usable(s) == session[s].state = "open" /\ ~session[s].expired

UndecidedUnchecked(r) == TRUE

(* The receipt is pending and its custody period is the active one. *)
Undecided(r) == receipt[r].status = "pending" /\ receipt[r].period = "active"
-----------------------------------------------------------------------------
(* checkout_asset opens the period and creates its receipt; an asset has    *)
(* one active assignment.                                                   *)
Opened(receipts, next) ==
    IF next = NoReceipt THEN receipts
    ELSE [receipts EXCEPT ![next].period = "active"]

CheckOut(r) ==
    /\ receipt[r].period = "future"
    /\ \A q \in Receipts : receipt[q].period # "active"
    /\ receipt' = Opened(receipt, r)
    /\ UNCHANGED <<session, mails, sent, lock, req, served>>

(* CustodyReceiptPrepareView reads the receipt without a lock. *)
PrepareBegin(a, r) ==
    /\ receipt[r].period # "future"
    /\ receipt[r].status = "pending"
    /\ Serve(a, "prepare", r, NoSession)

(* The insert waits for a lock of the receipt its foreign key points at. *)
Prepare(a) ==
    /\ req[a].pc = "prepare"
    /\ Free(Receipt(req[a].r))
    /\ \E s \in Sessions :
          /\ session[s].state = "none"
          /\ session' = [session EXCEPT ![s].of = req[a].r, ![s].state = "open"]
    /\ End(a)
    /\ UNCHANGED <<receipt, mails, sent, served>>

(* custody_signing_session_expiry passes. *)
Expire(s) ==
    /\ Usable(s)
    /\ session' = [session EXCEPT ![s].expired = TRUE]
    /\ UNCHANGED <<receipt, mails, sent, lock, req, served>>
-----------------------------------------------------------------------------
(* custody_eula_sign: everything is checked before the first lock, *)
SignBegin(a, r, s) ==
    /\ Undecided(r)
    /\ s # NoSession => Usable(s) /\ session[s].of = r
    /\ Serve(a, "sign_receipt", r, s)

SignReceipt(a) ==
    /\ req[a].pc = "sign_receipt"
    /\ LockRow(a, Receipt(req[a].r))
    /\ Goto(a, IF req[a].s = NoSession THEN "sign_decide" ELSE "sign_session")
    /\ UNCHANGED <<receipt, session, mails, sent, served>>

(* and again as each row is locked. *)
SignSession(a) ==
    /\ req[a].pc = "sign_session"
    /\ Free(Session(req[a].s))
    /\ IF Usable(req[a].s)
       THEN /\ LockRow(a, Session(req[a].s))
            /\ Goto(a, "sign_decide")
            /\ UNCHANGED <<receipt, session, mails, sent, served>>
       ELSE Refuse(a)

Consumed(s, decision) ==
    IF s = NoSession THEN session
    ELSE [session EXCEPT ![s].state = decision]

SignDecideConsumingFirst(a) ==
    /\ req[a].pc = "sign_decide"
    /\ \E decision \in Decisions :
          /\ session' = Consumed(req[a].s, decision)
          /\ receipt' = IF Undecided(req[a].r)
                        THEN [receipt EXCEPT ![req[a].r].status = decision]
                        ELSE receipt
    /\ End(a)
    /\ UNCHANGED <<mails, sent, served>>

(* The holder accepts or declines and the session is consumed with it; a    *)
(* post without a signature changes nothing.                                *)
SignDecide(a) ==
    /\ req[a].pc = "sign_decide"
    /\ \/ /\ Undecided(req[a].r)
          /\ \E decision \in Decisions :
                /\ receipt' = [receipt EXCEPT ![req[a].r].status = decision]
                /\ session' = Consumed(req[a].s, decision)
          /\ End(a)
          /\ UNCHANGED <<mails, sent, served>>
       \/ Refuse(a)
-----------------------------------------------------------------------------
(* CustodyReceiptHandoffEmailView: resolve_custody_handoff without a lock,  *)
(* then _book_handoff_delivery.                                             *)
BookBegin(a, s) ==
    /\ Usable(s)
    /\ receipt[session[s].of].status = "pending"
    /\ Serve(a, "book_session", session[s].of, s)

BookSession(a) ==
    /\ req[a].pc = "book_session"
    /\ LockRow(a, Session(req[a].s))
    /\ Goto(a, "book_receipt")
    /\ UNCHANGED <<receipt, session, mails, sent, served>>

BookReceiptUnlocked(a) ==
    /\ req[a].pc = "book_receipt"
    /\ Goto(a, "book_count")
    /\ UNCHANGED <<receipt, session, mails, sent, lock, served>>

BookReceipt(a) ==
    /\ req[a].pc = "book_receipt"
    /\ LockRow(a, Receipt(req[a].r))
    /\ Goto(a, "book_count")
    /\ UNCHANGED <<receipt, session, mails, sent, served>>

SessionAttempts(s) == Cardinality({m \in mails : m[1] = s})
ReceiptAttempts(r) == Cardinality({m \in mails : session[m[1]].of = r})

WithinLimits(a) ==
    /\ SessionAttempts(req[a].s) < SessionLimit
    /\ ReceiptAttempts(req[a].r) < ReceiptLimit

BookCount(a) ==
    /\ req[a].pc = "book_count"
    /\ IF Usable(req[a].s) /\ receipt[req[a].r].status = "pending" /\ WithinLimits(a)
       THEN /\ Goto(a, "book_insert")
            /\ UNCHANGED <<receipt, session, mails, sent, lock, served>>
       ELSE Refuse(a)

(* The row is committed before the transport is called. *)
BookInsert(a) ==
    /\ req[a].pc = "book_insert"
    /\ LET attempt == SessionAttempts(req[a].s) + 1 IN
          /\ mails' = mails \cup {<<req[a].s, attempt>>}
          /\ req' = [req EXCEPT ![a].pc = "mailing", ![a].attempt = attempt]
    /\ Release(a)
    /\ UNCHANGED <<receipt, session, sent, served>>

(* The outcome only sets a status of the row, and every status counts       *)
(* against the limits.                                                      *)
Deliver(a) ==
    /\ req[a].pc = "mailing"
    /\ sent' = sent \cup {<<req[a].s, req[a].attempt>>}
    /\ End(a)
    /\ UNCHANGED <<receipt, session, mails, served>>
-----------------------------------------------------------------------------
(* checkin_asset works on the assignment it read; its update waits for a    *)
(* check-in of the same assignment that is under way.                       *)
CheckInBegin(a, r) ==
    /\ receipt[r].period = "active"
    /\ Serve(a, "in_assignment", r, NoSession)

CheckInAssignment(a) ==
    /\ req[a].pc = "in_assignment"
    /\ LockRow(a, Assignment(req[a].r))
    /\ Goto(a, "in_receipt")
    /\ UNCHANGED <<receipt, session, mails, sent, served>>

CheckInReceiptSkipLocked(a) ==
    /\ req[a].pc = "in_receipt"
    /\ IF receipt[req[a].r].status = "pending" /\ Free(Receipt(req[a].r))
       THEN LockRow(a, Receipt(req[a].r)) /\ Goto(a, "in_sessions")
       ELSE Goto(a, "in_commit") /\ UNCHANGED lock
    /\ UNCHANGED <<receipt, session, mails, sent, served>>

CheckInReceiptLast(a) ==
    /\ req[a].pc = "in_receipt"
    /\ LET left == {s \in Sessions : session[s].of = req[a].r
                        /\ session[s].state = "open" /\ lock[Session(s)] # a} IN
       IF left # {} /\ receipt[req[a].r].status = "pending"
       THEN (\E s \in left : LockRow(a, Session(s))) /\ UNCHANGED req
       ELSE IF receipt[req[a].r].status = "pending"
       THEN LockRow(a, Receipt(req[a].r)) /\ Goto(a, "in_sessions")
       ELSE Goto(a, "in_commit") /\ UNCHANGED lock
    /\ UNCHANGED <<receipt, session, mails, sent, served>>

(* supersede_pending_receipts locks the receipt if it is pending, which is  *)
(* decided again once the lock is granted.                                  *)
CheckInReceipt(a) ==
    /\ req[a].pc = "in_receipt"
    /\ IF receipt[req[a].r].status = "pending"
       THEN LockRow(a, Receipt(req[a].r)) /\ Goto(a, "in_sessions")
       ELSE Goto(a, "in_commit") /\ UNCHANGED lock
    /\ UNCHANGED <<receipt, session, mails, sent, served>>

(* One update cancels the open sessions, expired ones included, locking row *)
(* after row.                                                               *)
CheckInSession(a) ==
    /\ req[a].pc = "in_sessions"
    /\ LET left == {s \in Sessions : session[s].of = req[a].r
                        /\ session[s].state = "open" /\ lock[Session(s)] # a} IN
       \/ /\ \E s \in left : LockRow(a, Session(s))
          /\ UNCHANGED req
       \/ /\ left = {}
          /\ Goto(a, "in_commit")
          /\ UNCHANGED lock
    /\ UNCHANGED <<receipt, session, mails, sent, served>>

(* The period ends and what was locked is closed; a reassignment opens the  *)
(* next period in the same transaction.                                     *)
CheckInCommit(a) ==
    /\ req[a].pc = "in_commit"
    /\ LET r == req[a].r
           closed == [receipt EXCEPT
                        ![r].period = "ended",
                        ![r].status = IF Receipt(r) \in Holds(a)
                                      THEN "superseded" ELSE @]
       IN \E next \in {NoReceipt} \cup {q \in Receipts : receipt[q].period = "future"} :
             /\ next # NoReceipt => receipt[r].period = "active"
             /\ receipt' = Opened(closed, next)
    /\ session' = [s \in Sessions |->
                     IF Session(s) \in Holds(a)
                     THEN [session[s] EXCEPT !.state = "canceled"] ELSE session[s]]
    /\ End(a)
    /\ UNCHANGED <<mails, sent, served>>
-----------------------------------------------------------------------------
(* The row request a waits for. *)
Wants(a) ==
    LET r == req[a].r
        s == req[a].s IN
    CASE req[a].pc \in {"sign_receipt", "book_receipt", "in_receipt", "prepare"}
             -> {Receipt(r)}
      [] req[a].pc \in {"sign_session", "book_session"} -> {Session(s)}
      [] req[a].pc = "in_assignment" -> {Assignment(r)}
      [] req[a].pc = "in_sessions" ->
             {Session(t) : t \in {u \in Sessions : session[u].of = r
                                                    /\ session[u].state = "open"}}
      [] OTHER -> {}

Deadlocked(S) ==
    S # {} /\ \A a \in S : \E b \in S \ {a} : Wants(a) \cap Holds(b) # {}

(* The transaction is the victim of a deadlock, its connection is lost, or  *)
(* the worker dies, between booking and sending too.                        *)
RollBack(a) == req[a].pc # "idle" /\ Refuse(a)
-----------------------------------------------------------------------------
RequestStep(a) ==
    \/ \E r \in Receipts : PrepareBegin(a, r) \/ CheckInBegin(a, r)
    \/ \E r \in Receipts, s \in Sessions \cup {NoSession} : SignBegin(a, r, s)
    \/ \E s \in Sessions : BookBegin(a, s)
    \/ Prepare(a)
    \/ SignReceipt(a) \/ SignSession(a) \/ SignDecide(a)
    \/ BookSession(a) \/ BookReceipt(a) \/ BookCount(a) \/ BookInsert(a)
    \/ Deliver(a)
    \/ CheckInAssignment(a) \/ CheckInReceipt(a) \/ CheckInSession(a)
    \/ CheckInCommit(a)
    \/ RollBack(a)

Next ==
    \/ \E r \in Receipts : CheckOut(r)
    \/ \E s \in Sessions : Expire(s)
    \/ \E a \in Requests : RequestStep(a)

Spec == Init /\ [][Next]_vars
-----------------------------------------------------------------------------
(* Once a custody period has ended its receipt is decided or superseded,    *)
(* whoever was signing or mailing while the check-in ran: nobody is asked   *)
(* to sign for what they gave back.                                         *)
EndedPeriodIsClosed ==
    \A r \in Receipts :
        receipt[r].period = "ended" => receipt[r].status # "pending"

(* A session tells the same story as its receipt: it was consumed with the  *)
(* decision the receipt carries and by that decision alone, and it was      *)
(* canceled only when the receipt was superseded.                           *)
SessionsAgree ==
    \A s \in Sessions :
        /\ session[s].state \in Decisions =>
              /\ session[s].state = receipt[session[s].of].status
              /\ \A t \in Sessions \ {s} : session[t].of = session[s].of
                    => session[t].state \notin Decisions
        /\ session[s].state = "canceled" =>
              receipt[session[s].of].status = "superseded"

(* No receipt and no session gets more e-mails than its limit, and none     *)
(* that was not booked, although several operators mail at once and a       *)
(* request may die between booking and sending.                             *)
MailWithinLimits ==
    /\ sent \subseteq mails
    /\ \A s \in Sessions : SessionAttempts(s) <= SessionLimit
    /\ \A r \in Receipts : ReceiptAttempts(r) <= ReceiptLimit

(* Requests wait for each other in a circle only if one of them is mailing  *)
(* a link: it alone locks the session before the receipt.                   *)
DeadlockNeedsMailing ==
    \A S \in SUBSET Requests : Deadlocked(S) =>
        \E a \in S : req[a].pc = "book_receipt"

(* "Accepted and declined receipts are signer-authored evidence and are     *)
(* never rewritten", not by the other decision, not by a check-in that      *)
(* listed the receipt as pending, and a superseded one is not signed.       *)
EvidenceIsFinal ==
    [][ \A r \in Receipts : receipt[r].status # "pending"
          => receipt'[r].status = receipt[r].status ]_vars
=============================================================================
