----------------------- MODULE CustodyReceiptsProofs ------------------------
(***************************************************************************)
(* Proofs about CustodyReceipts, for any number of receipts, signing       *)
(* sessions and requests: an ended custody period leaves no pending        *)
(* receipt, a decision is final and agrees with the sessions, no more      *)
(* e-mails are sent than the limits allow, and only mailing can deadlock.  *)
(***************************************************************************)
EXTENDS CustodyReceipts, FiniteSetTheorems, TLAPS

(* Where a request holds the receipt, the session it mails or signs. *)
WithReceipt == {"sign_session", "sign_decide", "book_count", "book_insert", "in_sessions"}
WithBooked == {"book_receipt", "book_count", "book_insert"}

(* What a request may rely on at each step. *)
Knows(a) ==
    /\ req[a].pc # "idle" => req[a].r \in Receipts
    /\ req[a].pc \in BookSteps \cup {"mailing", "sign_session"} => req[a].s \in Sessions
    /\ req[a].s # NoSession =>
          session[req[a].s].state # "none" /\ session[req[a].s].of = req[a].r
    /\ req[a].pc \in WithReceipt => lock[Receipt(req[a].r)] = a
    /\ req[a].pc \in WithBooked => lock[Session(req[a].s)] = a
    /\ req[a].pc = "sign_decide" /\ req[a].s # NoSession => lock[Session(req[a].s)] = a
    /\ req[a].pc = "in_sessions" => receipt[req[a].r].status = "pending"
    /\ req[a].pc = "in_commit" =>
          (lock[Receipt(req[a].r)] = a <=> receipt[req[a].r].status = "pending")
    /\ req[a].pc = "book_insert" => WithinLimits(a)
    /\ req[a].pc = "mailing" => <<req[a].s, req[a].attempt>> \in mails

(* The rows a request has locked are those its step has reached. *)
LocksOf(a) ==
    /\ \A r \in Receipts : lock[Assignment(r)] = a =>
          req[a].pc \in {"in_receipt", "in_sessions", "in_commit"} /\ r = req[a].r
    /\ \A r \in Receipts : lock[Receipt(r)] = a =>
          req[a].pc \in WithReceipt \cup {"in_commit"} /\ r = req[a].r
    /\ \A s \in Sessions : lock[Session(s)] = a =>
          \/ req[a].pc \in WithBooked \cup {"sign_decide"} /\ s = req[a].s
          \/ /\ req[a].pc \in {"in_sessions", "in_commit"}
             /\ session[s].of = req[a].r /\ session[s].state # "none"
             /\ lock[Receipt(req[a].r)] = a

RequestsKnow == \A a \in Requests : Knows(a) /\ LocksOf(a)

(* A session that was prepared has its receipt, one that was mailed was     *)
(* prepared, and the deliveries are finitely many.                          *)
Prepared ==
    /\ \A s \in Sessions : session[s].state # "none" => session[s].of \in Receipts
    /\ \A m \in mails : session[m[1]].state # "none"
    /\ IsFiniteSet(mails)

ReceiptInv ==
    /\ ReceiptTypeOK /\ RequestsKnow /\ Prepared
    /\ EndedPeriodIsClosed /\ SessionsAgree /\ MailWithinLimits

(* What the step of a leaves to the others: the rows they have locked, what *)
(* is decided, and the receipt of every prepared session.                   *)
Respects(a) ==
    /\ \A b \in Requests : b # a => req'[b] = req[b]
    /\ \A b \in Requests, x \in Rows : b # a => (lock'[x] = b <=> lock[x] = b)
    /\ \A r \in Receipts :
          /\ lock[Receipt(r)] \notin {a, Nobody} => receipt'[r].status = receipt[r].status
          /\ receipt[r].status # "pending" => receipt'[r].status # "pending"
    /\ \A s \in Sessions : session[s].state # "none" =>
          session'[s].of = session[s].of /\ session'[s].state # "none"
    /\ \/ mails' = mails
       \/ \E s \in Sessions, n \in Nat :
             /\ mails' = mails \cup {<<s, n>>} /\ session[s].state # "none"
             /\ lock[Session(s)] = a /\ lock[Receipt(session[s].of)] = a
-----------------------------------------------------------------------------
LEMMA RowFacts ==
    /\ \A r \in Receipts : Assignment(r) \in Rows /\ Receipt(r) \in Rows
    /\ \A s \in Sessions : Session(s) \in Rows
    /\ \A x \in Rows : \/ \E r \in Receipts : x = Assignment(r) \/ x = Receipt(r)
                       \/ \E s \in Sessions : x = Session(s)
    /\ \A q, r \in Receipts : Assignment(q) # Receipt(r)
    /\ \A q, r \in Receipts : (Assignment(q) = Assignment(r) => q = r)
                             /\ (Receipt(q) = Receipt(r) => q = r)
    /\ \A s, t \in Sessions : Session(s) = Session(t) => s = t
    /\ \A r \in Receipts, s \in Sessions : Assignment(r) # Session(s) /\ Receipt(r) # Session(s)
<1>1. /\ \A r \in Receipts : Assignment(r) \in Rows /\ Receipt(r) \in Rows
      /\ \A s \in Sessions : Session(s) \in Rows
  BY DEF Rows, Assignment, Receipt, Session
<1>2. \A x \in Rows : \/ \E r \in Receipts : x = Assignment(r) \/ x = Receipt(r)
                      \/ \E s \in Sessions : x = Session(s)
  BY DEF Rows, Assignment, Receipt, Session
<1>3. /\ \A q, r \in Receipts : Assignment(q) # Receipt(r)
      /\ \A r \in Receipts, s \in Sessions : Assignment(r) # Session(s) /\ Receipt(r) # Session(s)
  BY DEF Assignment, Receipt, Session
<1>4. /\ \A q, r \in Receipts : (Assignment(q) = Assignment(r) => q = r)
                               /\ (Receipt(q) = Receipt(r) => q = r)
      /\ \A s, t \in Sessions : Session(s) = Session(t) => s = t
  BY DEF Assignment, Receipt, Session
<1> QED
  BY <1>1, <1>2, <1>3, <1>4

LEMMA TypeFacts ==
    ASSUME ReceiptTypeOK, NEW a \in Requests
    PROVE  /\ req[a].pc \in Steps /\ req[a].r \in Receipts \cup {NoReceipt}
           /\ req[a].s \in Sessions \cup {NoSession} /\ req[a].attempt \in 0 .. SessionLimit
           /\ req[a] = [pc |-> req[a].pc, r |-> req[a].r, s |-> req[a].s,
                        attempt |-> req[a].attempt]
BY DEF ReceiptTypeOK

(* Initially there are no sessions, no mails and no locks. *)
LEMMA InitInv == Init => ReceiptInv
<1> SUFFICES ASSUME Init PROVE ReceiptInv
  OBVIOUS
<1> USE ReceiptConstants DEF Init
<1>1. ReceiptTypeOK
  BY DEF ReceiptTypeOK, Periods, Statuses, Decisions, Steps, NoRequest
<1>2. RequestsKnow
  BY RowFacts DEF RequestsKnow, Knows, LocksOf, NoRequest, BookSteps, WithReceipt, WithBooked
<1>3. Prepared
  BY FS_EmptySet DEF Prepared
<1>4. EndedPeriodIsClosed /\ SessionsAgree
  BY DEF EndedPeriodIsClosed, SessionsAgree, Decisions
<1>5. MailWithinLimits
  <2>1. \A s : SessionAttempts(s) = 0 /\ ReceiptAttempts(s) = 0
    <3>1. \A s : {m \in mails : m[1] = s} = {} /\ {m \in mails : session[m[1]].of = s} = {}
      OBVIOUS
    <3> QED
      BY <3>1, FS_EmptySet DEF SessionAttempts, ReceiptAttempts
  <2> QED
    BY <2>1 DEF MailWithinLimits
<1> QED
  BY <1>1, <1>2, <1>3, <1>4, <1>5 DEF ReceiptInv

(* What a request has locked, nobody else changes: it may still rely on it. *)
LEMMA OthersKeep ==
    ASSUME ReceiptInv, NEW a \in Requests \cup {Nobody}, Respects(a),
           NEW b \in Requests, b # a
    PROVE  Knows(b)' /\ LocksOf(b)'
<1> USE ReceiptConstants, RowFacts, TypeFacts DEF ReceiptInv
<1>1. Knows(b) /\ LocksOf(b) /\ req'[b] = req[b] /\ \A x \in Rows : lock'[x] = b <=> lock[x] = b
  BY DEF RequestsKnow, Respects
<1>2. \A s \in Sessions : session[s].state # "none" =>
          session'[s].of = session[s].of /\ session'[s].state # "none"
  BY DEF Respects
<1>3. req[b].r \in Receipts /\ lock[Receipt(req[b].r)] = b
          => receipt'[req[b].r].status = receipt[req[b].r].status
  BY DEF Respects
<1>4. req[b].r \in Receipts /\ receipt[req[b].r].status # "pending"
          => receipt'[req[b].r].status # "pending"
  BY DEF Respects
<1>5. mails \subseteq mails'
  BY DEF Respects
<1>6. req[b].pc = "book_insert" => WithinLimits(b)'
  <2> SUFFICES ASSUME req[b].pc = "book_insert" PROVE WithinLimits(b)'
    OBVIOUS
  <2> DEFINE s == req[b].s
             r == req[b].r
  <2>1. s \in Sessions /\ r \in Receipts /\ lock[Session(s)] = b /\ lock[Receipt(r)] = b
        /\ WithinLimits(b)
    BY <1>1 DEF Knows, BookSteps, WithReceipt, WithBooked
  <2>2. \A m \in mails : m[1] \in Sessions /\ session'[m[1]].of = session[m[1]].of
    BY <1>2 DEF Prepared, ReceiptTypeOK
  <2>3. \A m \in mails' \ mails : m[1] # s /\ session'[m[1]].of # r
    <3> SUFFICES ASSUME NEW m \in mails' \ mails PROVE m[1] # s /\ session'[m[1]].of # r
      OBVIOUS
    <3>1. PICK t \in Sessions, n \in Nat :
              /\ mails' = mails \cup {<<t, n>>} /\ session[t].state # "none"
              /\ lock[Session(t)] = a /\ lock[Receipt(session[t].of)] = a
      BY DEF Respects
    <3>2. m[1] = t /\ session'[t].of = session[t].of
      BY <1>2, <3>1
    <3> QED
      BY <2>1, <3>1, <3>2
  <2>4. {m \in mails' : m[1] = s} = {m \in mails : m[1] = s}
    BY <1>5, <2>3
  <2>5. {m \in mails' : session'[m[1]].of = r} = {m \in mails : session[m[1]].of = r}
    BY <1>5, <2>2, <2>3
  <2> QED
    BY <1>1, <2>1, <2>4, <2>5 DEF WithinLimits, SessionAttempts, ReceiptAttempts
<1>7. Knows(b)'
  <2>1. /\ req[b].pc # "idle" => req[b].r \in Receipts
        /\ req[b].pc \in BookSteps \cup {"mailing", "sign_session"} => req[b].s \in Sessions
        /\ req[b].s # NoSession =>
              session'[req[b].s].state # "none" /\ session'[req[b].s].of = req[b].r
    BY <1>1, <1>2 DEF Knows
  <2>2. /\ req[b].pc \in WithReceipt => lock'[Receipt(req[b].r)] = b
        /\ req[b].pc \in WithBooked => lock'[Session(req[b].s)] = b
        /\ req[b].pc = "sign_decide" /\ req[b].s # NoSession => lock'[Session(req[b].s)] = b
    BY <1>1 DEF Knows, WithReceipt, WithBooked, BookSteps
  <2>3. /\ req[b].pc = "in_sessions" => receipt'[req[b].r].status = "pending"
        /\ req[b].pc = "in_commit" =>
              (lock'[Receipt(req[b].r)] = b <=> receipt'[req[b].r].status = "pending")
    BY <1>1, <1>3, <1>4 DEF Knows, WithReceipt
  <2>4. req[b].pc = "mailing" => <<req[b].s, req[b].attempt>> \in mails'
    BY <1>1, <1>5 DEF Knows
  <2> QED
    BY <1>1, <1>6, <2>1, <2>2, <2>3, <2>4 DEF Knows
<1>8. LocksOf(b)'
  <2>1. \A s \in Sessions : lock'[Session(s)] = b =>
          \/ req[b].pc \in WithBooked \cup {"sign_decide"} /\ s = req[b].s
          \/ /\ req[b].pc \in {"in_sessions", "in_commit"}
             /\ session'[s].of = req[b].r /\ session'[s].state # "none"
             /\ lock'[Receipt(req[b].r)] = b
    BY <1>1, <1>2 DEF LocksOf, Knows
  <2> QED
    BY <1>1, <2>1 DEF LocksOf
<1> QED
  BY <1>7, <1>8
-----------------------------------------------------------------------------
(* A step that only locks or moves on. *)
LEMMA QuietKeeps ==
    ASSUME ReceiptInv, NEW a \in Requests,
           UNCHANGED <<receipt, session, mails, sent>>, served' \in 0 .. MaxRequests,
           lock' \in [Rows -> Requests \cup {Nobody}],
           req' \in [Requests -> [pc : Steps, r : Receipts \cup {NoReceipt},
                                 s : Sessions \cup {NoSession},
                                 attempt : 0 .. SessionLimit]],
           \A b \in Requests : b # a => req'[b] = req[b],
           \A b \in Requests, x \in Rows : b # a => (lock'[x] = b <=> lock[x] = b),
           Knows(a)', LocksOf(a)'
    PROVE  ReceiptInv'
<1> USE DEF ReceiptInv
<1>1. Respects(a)
  BY DEF Respects
<1>2. RequestsKnow'
  BY <1>1, OthersKeep DEF RequestsKnow
<1>3. ReceiptTypeOK' /\ Prepared'
  BY DEF ReceiptTypeOK, Prepared
<1>4. EndedPeriodIsClosed' /\ SessionsAgree'
  BY DEF EndedPeriodIsClosed, SessionsAgree
<1>5. MailWithinLimits'
  BY DEF MailWithinLimits, SessionAttempts, ReceiptAttempts
<1> QED
  BY <1>2, <1>3, <1>4, <1>5

LEMMA LockFacts ==
    ASSUME ReceiptTypeOK, NEW a \in Requests, NEW x \in Rows, LockRow(a, x)
    PROVE  /\ lock' \in [Rows -> Requests \cup {Nobody}]
           /\ lock'[x] = a /\ \A y \in Rows : y # x => lock'[y] = lock[y]
           /\ \A b \in Requests, y \in Rows : b # a => (lock'[y] = b <=> lock[y] = b)
BY ReceiptConstants DEF ReceiptTypeOK, LockRow, Free

LEMMA GotoFacts ==
    ASSUME ReceiptTypeOK, NEW a \in Requests, NEW pc \in Steps, Goto(a, pc)
    PROVE  /\ req' \in [Requests -> [pc : Steps, r : Receipts \cup {NoReceipt},
                                     s : Sessions \cup {NoSession},
                                     attempt : 0 .. SessionLimit]]
           /\ req'[a].pc = pc /\ req'[a].r = req[a].r /\ req'[a].s = req[a].s
           /\ req'[a].attempt = req[a].attempt
           /\ \A b \in Requests : b # a => req'[b] = req[b]
BY DEF ReceiptTypeOK, Goto

(* A request that has ended relies on nothing and holds nothing. *)
LEMMA EndFacts ==
    ASSUME ReceiptTypeOK, NEW a \in Requests, End(a)
    PROVE  /\ lock' \in [Rows -> Requests \cup {Nobody}]
           /\ req' \in [Requests -> [pc : Steps, r : Receipts \cup {NoReceipt},
                                     s : Sessions \cup {NoSession},
                                     attempt : 0 .. SessionLimit]]
           /\ \A b \in Requests : b # a => req'[b] = req[b]
           /\ \A b \in Requests, x \in Rows : b # a => (lock'[x] = b <=> lock[x] = b)
           /\ Knows(a)' /\ LocksOf(a)'
<1> USE ReceiptConstants, RowFacts
<1>1. /\ lock' \in [Rows -> Requests \cup {Nobody}]
      /\ \A b \in Requests, x \in Rows : b # a => (lock'[x] = b <=> lock[x] = b)
      /\ \A x \in Rows : lock'[x] # a
  BY DEF ReceiptTypeOK, End, Release
<1>2. NoRequest \in [pc : Steps, r : Receipts \cup {NoReceipt},
                     s : Sessions \cup {NoSession}, attempt : 0 .. SessionLimit]
  BY DEF NoRequest, Steps
<1>3. /\ req' \in [Requests -> [pc : Steps, r : Receipts \cup {NoReceipt},
                                s : Sessions \cup {NoSession},
                                attempt : 0 .. SessionLimit]]
      /\ \A b \in Requests : b # a => req'[b] = req[b]
      /\ req'[a] = NoRequest
  BY <1>2 DEF ReceiptTypeOK, End
<1>4. Knows(a)'
  BY <1>3 DEF Knows, NoRequest, BookSteps, WithReceipt, WithBooked
<1>5. LocksOf(a)'
  BY <1>1 DEF LocksOf
<1> QED
  BY <1>1, <1>3, <1>4, <1>5

LEMMA RefuseKeeps ==
    ASSUME ReceiptInv, NEW a \in Requests, Refuse(a)
    PROVE  ReceiptInv'
<1>1. End(a) /\ UNCHANGED <<receipt, session, mails, sent, served>> /\ ReceiptTypeOK
  BY DEF Refuse, ReceiptInv
<1> QED
  BY <1>1, EndFacts, QuietKeeps DEF ReceiptTypeOK

LEMMA IdleHoldsNothing ==
    ASSUME ReceiptInv, NEW a \in Requests,
           req[a].pc \in {"idle", "prepare", "mailing", "sign_receipt", "book_session", "in_assignment"}
    PROVE  \A x \in Rows : lock[x] # a
<1>1. LocksOf(a)
  BY DEF ReceiptInv, RequestsKnow
<1> QED
  BY <1>1, RowFacts DEF LocksOf, WithReceipt, WithBooked

(* A new request holds nothing and has seen the receipt of its session. *)
LEMMA ServeKeeps ==
    ASSUME ReceiptInv, NEW a \in Requests,
           NEW pc \in {"prepare", "sign_receipt", "book_session", "in_assignment"},
           NEW r \in Receipts, NEW s \in Sessions \cup {NoSession},
           s # NoSession => session[s].state # "none" /\ session[s].of = r,
           pc = "book_session" => s # NoSession,
           Serve(a, pc, r, s)
    PROVE  ReceiptInv'
<1> USE ReceiptConstants DEF ReceiptInv
<1> DEFINE new == [pc |-> pc, r |-> r, s |-> s, attempt |-> 0]
<1>1. /\ req[a].pc = "idle" /\ served' \in 0 .. MaxRequests
      /\ req' = [req EXCEPT ![a] = new]
      /\ UNCHANGED <<receipt, session, mails, sent, lock>>
  BY DEF Serve, ReceiptTypeOK
<1>2. /\ req' \in [Requests -> [pc : Steps, r : Receipts \cup {NoReceipt},
                                s : Sessions \cup {NoSession},
                                attempt : 0 .. SessionLimit]]
      /\ req'[a] = new
      /\ \A b \in Requests : b # a => req'[b] = req[b]
  BY <1>1 DEF ReceiptTypeOK, Steps, SignSteps, BookSteps, CheckInSteps
<1>3. Knows(a)'
  BY <1>1, <1>2 DEF Knows, BookSteps, WithReceipt, WithBooked
<1>4. LocksOf(a)'
  BY <1>1, IdleHoldsNothing, RowFacts DEF LocksOf
<1> QED
  BY <1>1, <1>2, <1>3, <1>4, QuietKeeps DEF ReceiptTypeOK

LEMMA BeginKeeps ==
    ASSUME ReceiptInv, NEW a \in Requests,
           \/ \E r \in Receipts : PrepareBegin(a, r) \/ CheckInBegin(a, r)
           \/ \E r \in Receipts, s \in Sessions \cup {NoSession} : SignBegin(a, r, s)
           \/ \E s \in Sessions : BookBegin(a, s)
    PROVE  ReceiptInv'
<1> USE ReceiptConstants
<1>1. ASSUME NEW r \in Receipts, PrepareBegin(a, r) \/ CheckInBegin(a, r)
      PROVE  ReceiptInv'
  BY <1>1, ServeKeeps DEF PrepareBegin, CheckInBegin
<1>2. ASSUME NEW r \in Receipts, NEW s \in Sessions \cup {NoSession}, SignBegin(a, r, s)
      PROVE  ReceiptInv'
  BY <1>2, ServeKeeps DEF SignBegin, Usable
<1>3. ASSUME NEW s \in Sessions, BookBegin(a, s)
      PROVE  ReceiptInv'
  <2>1. session[s].state # "none" /\ session[s].of \in Receipts /\ s # NoSession
    BY <1>3 DEF BookBegin, Usable, ReceiptInv, Prepared
  <2>2. Serve(a, "book_session", session[s].of, s)
    BY <1>3 DEF BookBegin
  <2> QED
    BY <2>1, <2>2, ServeKeeps
<1> QED
  BY <1>1, <1>2, <1>3
-----------------------------------------------------------------------------
(* Steps that lock one row and go on. *)
LEMMA SignReceiptKeeps ==
    ASSUME ReceiptInv, NEW a \in Requests, SignReceipt(a)
    PROVE  ReceiptInv'
<1> USE ReceiptConstants, RowFacts DEF ReceiptInv
<1> DEFINE pc == IF req[a].s = NoSession THEN "sign_decide" ELSE "sign_session"
<1>1. /\ req[a].pc = "sign_receipt" /\ LockRow(a, Receipt(req[a].r)) /\ Goto(a, pc)
      /\ UNCHANGED <<receipt, session, mails, sent, served>>
  BY DEF SignReceipt
<1>2. pc \in Steps /\ pc \in {"sign_decide", "sign_session"}
      /\ (pc = "sign_decide" <=> req[a].s = NoSession)
  BY DEF Steps, SignSteps
<1> HIDE DEF pc
<1>3. Knows(a) /\ req[a].r \in Receipts /\ \A x \in Rows : lock[x] # a
  BY <1>1, IdleHoldsNothing DEF RequestsKnow, Knows
<1>4. /\ lock'[Receipt(req[a].r)] = a
      /\ \A y \in Rows : y # Receipt(req[a].r) => lock'[y] # a
  BY <1>1, <1>3, LockFacts
<1>5. /\ req'[a].pc = pc /\ req'[a].r = req[a].r /\ req'[a].s = req[a].s
      /\ req[a].s \in Sessions \cup {NoSession}
  BY <1>1, <1>2, GotoFacts, TypeFacts
<1>6. Knows(a)'
  BY <1>1, <1>2, <1>3, <1>4, <1>5 DEF Knows, WithReceipt, WithBooked, BookSteps
<1>7. LocksOf(a)'
  BY <1>2, <1>3, <1>4, <1>5 DEF LocksOf, WithReceipt
<1> QED
  BY <1>1, <1>2, <1>3, <1>6, <1>7, LockFacts, GotoFacts, QuietKeeps DEF ReceiptTypeOK

LEMMA SignSessionKeeps ==
    ASSUME ReceiptInv, NEW a \in Requests, SignSession(a)
    PROVE  ReceiptInv'
<1> USE ReceiptConstants, RowFacts DEF ReceiptInv
<1>1. CASE Refuse(a)
  BY <1>1, RefuseKeeps
<1>2. CASE ~Refuse(a)
  <2>1. /\ req[a].pc = "sign_session" /\ LockRow(a, Session(req[a].s))
        /\ Goto(a, "sign_decide")
        /\ UNCHANGED <<receipt, session, mails, sent, served>>
    BY <1>2 DEF SignSession
  <2>2. "sign_decide" \in Steps
    BY DEF Steps, SignSteps
  <2>3. /\ Knows(a) /\ LocksOf(a) /\ req[a].r \in Receipts /\ req[a].s \in Sessions
        /\ lock[Receipt(req[a].r)] = a
    BY <2>1 DEF RequestsKnow, Knows, WithReceipt
  <2>4. /\ lock'[Session(req[a].s)] = a
        /\ \A y \in Rows : y # Session(req[a].s) => lock'[y] = lock[y]
    BY <2>1, <2>3, LockFacts
  <2>5. /\ req'[a].pc = "sign_decide" /\ req'[a].r = req[a].r /\ req'[a].s = req[a].s
    BY <2>1, <2>2, GotoFacts
  <2>6. Knows(a)'
    BY <2>1, <2>3, <2>4, <2>5 DEF Knows, WithReceipt, WithBooked, BookSteps
  <2>7. LocksOf(a)'
    BY <2>1, <2>3, <2>4, <2>5 DEF LocksOf, WithReceipt, WithBooked
  <2> QED
    BY <2>1, <2>2, <2>3, <2>6, <2>7, LockFacts, GotoFacts, QuietKeeps DEF ReceiptTypeOK
<1> QED
  BY <1>1, <1>2

LEMMA BookSessionKeeps ==
    ASSUME ReceiptInv, NEW a \in Requests, BookSession(a)
    PROVE  ReceiptInv'
<1> USE ReceiptConstants, RowFacts DEF ReceiptInv
<1>1. /\ req[a].pc = "book_session" /\ LockRow(a, Session(req[a].s))
      /\ Goto(a, "book_receipt")
      /\ UNCHANGED <<receipt, session, mails, sent, served>>
  BY DEF BookSession
<1>2. "book_receipt" \in Steps
  BY DEF Steps, BookSteps
<1>3. Knows(a) /\ req[a].r \in Receipts /\ req[a].s \in Sessions /\ \A x \in Rows : lock[x] # a
  BY <1>1, IdleHoldsNothing DEF RequestsKnow, Knows, BookSteps
<1>4. /\ lock'[Session(req[a].s)] = a
      /\ \A y \in Rows : y # Session(req[a].s) => lock'[y] # a
  BY <1>1, <1>3, LockFacts
<1>5. /\ req'[a].pc = "book_receipt" /\ req'[a].r = req[a].r /\ req'[a].s = req[a].s
  BY <1>1, <1>2, GotoFacts
<1>6. Knows(a)'
  BY <1>1, <1>3, <1>4, <1>5 DEF Knows, WithReceipt, WithBooked, BookSteps
<1>7. LocksOf(a)'
  BY <1>3, <1>4, <1>5 DEF LocksOf, WithBooked
<1> QED
  BY <1>1, <1>2, <1>3, <1>6, <1>7, LockFacts, GotoFacts, QuietKeeps DEF ReceiptTypeOK

LEMMA BookReceiptKeeps ==
    ASSUME ReceiptInv, NEW a \in Requests, BookReceipt(a)
    PROVE  ReceiptInv'
<1> USE ReceiptConstants, RowFacts DEF ReceiptInv
<1>1. /\ req[a].pc = "book_receipt" /\ LockRow(a, Receipt(req[a].r))
      /\ Goto(a, "book_count")
      /\ UNCHANGED <<receipt, session, mails, sent, served>>
  BY DEF BookReceipt
<1>2. "book_count" \in Steps
  BY DEF Steps, BookSteps
<1>3. /\ Knows(a) /\ LocksOf(a) /\ req[a].r \in Receipts /\ req[a].s \in Sessions
      /\ lock[Session(req[a].s)] = a
  BY <1>1 DEF RequestsKnow, Knows, WithBooked, BookSteps
<1>4. /\ lock'[Receipt(req[a].r)] = a
      /\ \A y \in Rows : y # Receipt(req[a].r) => lock'[y] = lock[y]
  BY <1>1, <1>3, LockFacts
<1>5. /\ req'[a].pc = "book_count" /\ req'[a].r = req[a].r /\ req'[a].s = req[a].s
  BY <1>1, <1>2, GotoFacts
<1>6. Knows(a)'
  BY <1>1, <1>3, <1>4, <1>5 DEF Knows, WithReceipt, WithBooked, BookSteps
<1>7. LocksOf(a)'
  BY <1>1, <1>3, <1>4, <1>5 DEF LocksOf, WithReceipt, WithBooked
<1> QED
  BY <1>1, <1>2, <1>3, <1>6, <1>7, LockFacts, GotoFacts, QuietKeeps DEF ReceiptTypeOK

(* The counts are taken with both rows locked. *)
LEMMA BookCountKeeps ==
    ASSUME ReceiptInv, NEW a \in Requests, BookCount(a)
    PROVE  ReceiptInv'
<1> USE ReceiptConstants, RowFacts DEF ReceiptInv
<1>1. CASE Refuse(a)
  BY <1>1, RefuseKeeps
<1>2. CASE ~Refuse(a)
  <2>1. /\ req[a].pc = "book_count" /\ WithinLimits(a) /\ Goto(a, "book_insert")
        /\ UNCHANGED <<receipt, session, mails, sent, lock, served>>
    BY <1>2 DEF BookCount
  <2>2. "book_insert" \in Steps
    BY DEF Steps, BookSteps
  <2>3. Knows(a) /\ LocksOf(a)
    BY DEF RequestsKnow
  <2>4. /\ req'[a].pc = "book_insert" /\ req'[a].r = req[a].r /\ req'[a].s = req[a].s
    BY <2>1, <2>2, GotoFacts
  <2>5. WithinLimits(a)'
    BY <2>1, <2>4 DEF WithinLimits, SessionAttempts, ReceiptAttempts
  <2>6. Knows(a)'
    BY <2>1, <2>3, <2>4, <2>5 DEF Knows, WithReceipt, WithBooked, BookSteps
  <2>7. LocksOf(a)'
    BY <2>1, <2>3, <2>4 DEF LocksOf, WithReceipt, WithBooked
  <2> QED
    BY <2>1, <2>2, <2>6, <2>7, GotoFacts, QuietKeeps DEF ReceiptTypeOK
<1> QED
  BY <1>1, <1>2

LEMMA CheckInAssignmentKeeps ==
    ASSUME ReceiptInv, NEW a \in Requests, CheckInAssignment(a)
    PROVE  ReceiptInv'
<1> USE ReceiptConstants, RowFacts DEF ReceiptInv
<1>1. /\ req[a].pc = "in_assignment" /\ LockRow(a, Assignment(req[a].r))
      /\ Goto(a, "in_receipt")
      /\ UNCHANGED <<receipt, session, mails, sent, served>>
  BY DEF CheckInAssignment
<1>2. "in_receipt" \in Steps
  BY DEF Steps, CheckInSteps
<1>3. Knows(a) /\ req[a].r \in Receipts /\ \A x \in Rows : lock[x] # a
  BY <1>1, IdleHoldsNothing DEF RequestsKnow, Knows
<1>4. /\ lock'[Assignment(req[a].r)] = a
      /\ \A y \in Rows : y # Assignment(req[a].r) => lock'[y] # a
  BY <1>1, <1>3, LockFacts
<1>5. /\ req'[a].pc = "in_receipt" /\ req'[a].r = req[a].r /\ req'[a].s = req[a].s
  BY <1>1, <1>2, GotoFacts
<1>6. Knows(a)'
  BY <1>1, <1>3, <1>4, <1>5 DEF Knows, WithReceipt, WithBooked, BookSteps
<1>7. LocksOf(a)'
  BY <1>3, <1>4, <1>5 DEF LocksOf
<1> QED
  BY <1>1, <1>2, <1>3, <1>6, <1>7, LockFacts, GotoFacts, QuietKeeps DEF ReceiptTypeOK

(* Whether the receipt is pending is decided with the lock of it, and if it *)
(* is not pending it never will be.                                         *)
LEMMA CheckInReceiptKeeps ==
    ASSUME ReceiptInv, NEW a \in Requests, CheckInReceipt(a)
    PROVE  ReceiptInv'
<1> USE ReceiptConstants, RowFacts DEF ReceiptInv
<1>1. req[a].pc = "in_receipt" /\ UNCHANGED <<receipt, session, mails, sent, served>>
  BY DEF CheckInReceipt
<1>2. "in_sessions" \in Steps /\ "in_commit" \in Steps
  BY DEF Steps, CheckInSteps
<1>3. /\ Knows(a) /\ LocksOf(a) /\ req[a].r \in Receipts
      /\ \A r \in Receipts : lock[Receipt(r)] # a
      /\ \A s \in Sessions : lock[Session(s)] # a
  BY <1>1 DEF RequestsKnow, Knows, LocksOf, WithReceipt, WithBooked
<1>4. CASE receipt[req[a].r].status = "pending"
  <2>1. LockRow(a, Receipt(req[a].r)) /\ Goto(a, "in_sessions")
    BY <1>4 DEF CheckInReceipt
  <2>2. /\ lock'[Receipt(req[a].r)] = a
        /\ \A y \in Rows : y # Receipt(req[a].r) => lock'[y] = lock[y]
    BY <1>3, <2>1, LockFacts
  <2>3. /\ req'[a].pc = "in_sessions" /\ req'[a].r = req[a].r /\ req'[a].s = req[a].s
    BY <1>2, <2>1, GotoFacts
  <2>4. Knows(a)'
    BY <1>1, <1>3, <1>4, <2>2, <2>3 DEF Knows, WithReceipt, WithBooked, BookSteps
  <2>5. LocksOf(a)'
    BY <1>1, <1>3, <2>2, <2>3 DEF LocksOf, WithReceipt
  <2> QED
    BY <1>1, <1>2, <1>3, <2>1, <2>4, <2>5, LockFacts, GotoFacts, QuietKeeps DEF ReceiptTypeOK
<1>5. CASE receipt[req[a].r].status # "pending"
  <2>1. Goto(a, "in_commit") /\ UNCHANGED lock
    BY <1>5 DEF CheckInReceipt
  <2>2. /\ req'[a].pc = "in_commit" /\ req'[a].r = req[a].r /\ req'[a].s = req[a].s
    BY <1>2, <2>1, GotoFacts
  <2>3. Knows(a)'
    BY <1>1, <1>3, <1>5, <2>1, <2>2 DEF Knows, WithReceipt, WithBooked, BookSteps
  <2>4. LocksOf(a)'
    BY <1>1, <1>3, <2>1, <2>2 DEF LocksOf
  <2> QED
    BY <1>1, <1>2, <2>1, <2>3, <2>4, GotoFacts, QuietKeeps DEF ReceiptTypeOK
<1> QED
  BY <1>4, <1>5

LEMMA CheckInSessionKeeps ==
    ASSUME ReceiptInv, NEW a \in Requests, CheckInSession(a)
    PROVE  ReceiptInv'
<1> USE ReceiptConstants, RowFacts DEF ReceiptInv
<1>1. req[a].pc = "in_sessions" /\ UNCHANGED <<receipt, session, mails, sent, served>>
  BY DEF CheckInSession
<1>2. "in_commit" \in Steps
  BY DEF Steps, CheckInSteps
<1>3. /\ Knows(a) /\ LocksOf(a) /\ req[a].r \in Receipts /\ lock[Receipt(req[a].r)] = a
      /\ receipt[req[a].r].status = "pending"
  BY <1>1 DEF RequestsKnow, Knows, WithReceipt
<1>4. ASSUME NEW s \in Sessions, session[s].of = req[a].r, session[s].state = "open",
             LockRow(a, Session(s)), UNCHANGED req
      PROVE  ReceiptInv'
  <2>1. /\ lock'[Session(s)] = a /\ \A y \in Rows : y # Session(s) => lock'[y] = lock[y]
    BY <1>4, LockFacts
  <2>2. Knows(a)'
    BY <1>1, <1>3, <1>4, <2>1 DEF Knows, WithReceipt, WithBooked, BookSteps
  <2>3. LocksOf(a)'
    BY <1>1, <1>3, <1>4, <2>1 DEF LocksOf
  <2> QED
    BY <1>1, <1>4, <2>2, <2>3, LockFacts, QuietKeeps DEF ReceiptTypeOK
<1>5. ASSUME Goto(a, "in_commit"), UNCHANGED lock
      PROVE  ReceiptInv'
  <2>1. /\ req'[a].pc = "in_commit" /\ req'[a].r = req[a].r /\ req'[a].s = req[a].s
    BY <1>2, <1>5, GotoFacts
  <2>2. Knows(a)'
    BY <1>1, <1>3, <1>5, <2>1 DEF Knows, WithReceipt, WithBooked, BookSteps
  <2>3. LocksOf(a)'
    BY <1>1, <1>3, <1>5, <2>1 DEF LocksOf, WithReceipt, WithBooked
  <2> QED
    BY <1>1, <1>2, <1>5, <2>2, <2>3, GotoFacts, QuietKeeps DEF ReceiptTypeOK
<1> QED
  BY <1>4, <1>5 DEF CheckInSession
-----------------------------------------------------------------------------
(* Steps that book nothing leave every count as it is: the sessions that    *)
(* were mailed keep their receipt.                                          *)
LEMMA MailStays ==
    ASSUME ReceiptInv, mails' = mails, sent' \subseteq mails,
           \A s \in Sessions : session[s].state # "none" => session'[s].of = session[s].of
    PROVE  MailWithinLimits'
<1>1. \A m \in mails : session'[m[1]].of = session[m[1]].of
  BY DEF ReceiptInv, Prepared, ReceiptTypeOK
<1>2. \A r : {m \in mails' : session'[m[1]].of = r} = {m \in mails : session[m[1]].of = r}
  BY <1>1
<1>3. \A r : ReceiptAttempts(r)' = ReceiptAttempts(r) /\ SessionAttempts(r)' = SessionAttempts(r)
  BY <1>2 DEF ReceiptAttempts, SessionAttempts
<1> QED
  BY <1>3 DEF MailWithinLimits, ReceiptInv

LEMMA CheckOutKeeps ==
    ASSUME ReceiptInv, NEW r \in Receipts, CheckOut(r)
    PROVE  ReceiptInv'
<1> USE ReceiptConstants DEF ReceiptInv
<1>1. /\ receipt[r].period = "future" /\ receipt' = [receipt EXCEPT ![r].period = "active"]
      /\ UNCHANGED <<session, mails, sent, lock, req, served>>
  BY DEF CheckOut, Opened
<1>2. /\ receipt' \in [Receipts -> [period : Periods, status : Statuses]]
      /\ \A q \in Receipts : receipt'[q].status = receipt[q].status
      /\ \A q \in Receipts : receipt'[q].period = "ended" => receipt[q].period = "ended"
  BY <1>1 DEF ReceiptTypeOK, Periods
<1>3. RequestsKnow'
  <2>1. Respects(Nobody)
    BY <1>1, <1>2 DEF Respects
  <2> QED
    BY <2>1, OthersKeep DEF RequestsKnow
<1>4. ReceiptTypeOK' /\ Prepared' /\ EndedPeriodIsClosed'
  BY <1>1, <1>2 DEF ReceiptTypeOK, Prepared, EndedPeriodIsClosed
<1>5. SessionsAgree'
  <2>1. \A s \in Sessions : session[s].state # "none" => session[s].of \in Receipts
    BY DEF Prepared
  <2> QED
    BY <1>1, <1>2, <2>1 DEF SessionsAgree, Decisions
<1>6. MailWithinLimits'
  BY <1>1, MailStays DEF MailWithinLimits
<1> QED
  BY <1>3, <1>4, <1>5, <1>6

LEMMA ExpireKeeps ==
    ASSUME ReceiptInv, NEW s \in Sessions, Expire(s)
    PROVE  ReceiptInv'
<1> USE ReceiptConstants DEF ReceiptInv
<1>1. /\ session' = [session EXCEPT ![s].expired = TRUE]
      /\ UNCHANGED <<receipt, mails, sent, lock, req, served>>
  BY DEF Expire
<1>2. ReceiptTypeOK'
  BY <1>1 DEF ReceiptTypeOK
<1>3. \A t \in Sessions : session'[t].of = session[t].of /\ session'[t].state = session[t].state
  BY <1>1 DEF ReceiptTypeOK
<1>4. RequestsKnow'
  <2>1. Respects(Nobody)
    BY <1>1, <1>3 DEF Respects
  <2> QED
    BY <2>1, OthersKeep DEF RequestsKnow
<1>5. Prepared'
  BY <1>1, <1>3 DEF Prepared, ReceiptTypeOK
<1>6. EndedPeriodIsClosed' /\ SessionsAgree'
  BY <1>1, <1>3 DEF EndedPeriodIsClosed, SessionsAgree
<1>7. MailWithinLimits'
  BY <1>1, <1>3, MailStays DEF MailWithinLimits
<1> QED
  BY <1>2, <1>4, <1>5, <1>6, <1>7

LEMMA PrepareKeeps ==
    ASSUME ReceiptInv, NEW a \in Requests, Prepare(a)
    PROVE  ReceiptInv'
<1> USE ReceiptConstants DEF ReceiptInv
<1>1. PICK s \in Sessions :
        /\ session[s].state = "none"
        /\ session' = [session EXCEPT ![s].of = req[a].r, ![s].state = "open"]
  BY DEF Prepare
<1>2. /\ req[a].pc = "prepare" /\ req[a].r \in Receipts /\ End(a)
      /\ UNCHANGED <<receipt, mails, sent, served>>
  BY DEF Prepare, RequestsKnow, Knows
<1>3. /\ session' \in [Sessions -> [of : Receipts \cup {NoReceipt},
                                    state : {"none", "open", "canceled"} \cup Decisions,
                                    expired : BOOLEAN]]
      /\ session'[s].of = req[a].r /\ session'[s].state = "open"
      /\ \A t \in Sessions : t # s => session'[t] = session[t]
  BY <1>1, <1>2 DEF ReceiptTypeOK
<1>4. RequestsKnow'
  <2>1. Respects(a)
    BY <1>1, <1>2, <1>3, EndFacts DEF Respects
  <2> QED
    BY <1>2, <2>1, OthersKeep, EndFacts DEF RequestsKnow
<1>5. ReceiptTypeOK'
  BY <1>2, <1>3, EndFacts DEF ReceiptTypeOK
<1>6. Prepared'
  BY <1>1, <1>2, <1>3 DEF Prepared, ReceiptTypeOK
<1>7. EndedPeriodIsClosed' /\ SessionsAgree'
  BY <1>2, <1>3 DEF EndedPeriodIsClosed, SessionsAgree, Decisions
<1>8. MailWithinLimits'
  BY <1>1, <1>2, <1>3, MailStays DEF MailWithinLimits
<1> QED
  BY <1>4, <1>5, <1>6, <1>7, <1>8

(* The decision is taken with the receipt locked and pending, so no session *)
(* of it is consumed or canceled yet, and with the session locked.          *)
LEMMA SignDecideKeeps ==
    ASSUME ReceiptInv, NEW a \in Requests, SignDecide(a)
    PROVE  ReceiptInv'
<1> USE ReceiptConstants DEF ReceiptInv
<1>1. CASE Refuse(a)
  BY <1>1, RefuseKeeps
<1>2. CASE ~Refuse(a)
  <2> DEFINE r == req[a].r
             s == req[a].s
  <2>1. PICK decision \in Decisions :
            /\ receipt' = [receipt EXCEPT ![r].status = decision]
            /\ session' = Consumed(s, decision)
    BY <1>2 DEF SignDecide
  <2>2. /\ receipt[r].status = "pending" /\ r \in Receipts /\ lock[Receipt(r)] = a
        /\ s \in Sessions \cup {NoSession}
        /\ s # NoSession => lock[Session(s)] = a /\ session[s].of = r /\ session[s].state # "none"
        /\ End(a) /\ UNCHANGED <<mails, sent, served>>
    BY <1>2, TypeFacts DEF SignDecide, Undecided, RequestsKnow, Knows, WithReceipt
  <2> HIDE DEF r, s
  <2>3. /\ receipt' \in [Receipts -> [period : Periods, status : Statuses]]
        /\ receipt'[r].status = decision /\ receipt'[r].period = receipt[r].period
        /\ \A q \in Receipts : q # r => receipt'[q] = receipt[q]
    BY <2>1, <2>2 DEF ReceiptTypeOK, Statuses
  <2>4. /\ session' \in [Sessions -> [of : Receipts \cup {NoReceipt},
                                      state : {"none", "open", "canceled"} \cup Decisions,
                                      expired : BOOLEAN]]
        /\ \A t \in Sessions : session'[t].of = session[t].of
        /\ \A t \in Sessions : t # s => session'[t].state = session[t].state
        /\ s # NoSession => session'[s].state = decision
    BY <2>1, <2>2 DEF ReceiptTypeOK, Consumed
  <2>5. decision # "pending" /\ decision # "none" /\ decision # "superseded" /\ decision # "canceled"
    BY DEF Decisions
  <2>6. RequestsKnow'
    <3>1. Respects(a)
      <4>1. \A q \in Receipts :
              /\ lock[Receipt(q)] \notin {a, Nobody} => receipt'[q].status = receipt[q].status
              /\ receipt[q].status # "pending" => receipt'[q].status # "pending"
        BY <2>2, <2>3
      <4>2. \A t \in Sessions : session[t].state # "none" =>
              session'[t].of = session[t].of /\ session'[t].state # "none"
        BY <2>4, <2>5
      <4> QED
        BY <2>2, <4>1, <4>2, EndFacts DEF Respects
    <3> QED
      BY <2>2, <3>1, OthersKeep, EndFacts DEF RequestsKnow
  <2>7. ReceiptTypeOK'
    BY <2>2, <2>3, <2>4, EndFacts DEF ReceiptTypeOK
  <2>8. Prepared'
    <3>1. \A t \in Sessions : session'[t].state # "none" => session[t].state # "none"
      BY <2>2, <2>4
    <3>2. \A t \in Sessions : session[t].state # "none" => session'[t].state # "none"
      BY <2>4, <2>5
    <3> QED
      BY <2>2, <2>4, <3>1, <3>2 DEF Prepared, ReceiptTypeOK
  <2>9. EndedPeriodIsClosed'
    BY <2>3, <2>5 DEF EndedPeriodIsClosed
  <2>10. SessionsAgree'
    <3>1. \A t \in Sessions : session[t].of = r =>
              session[t].state \notin Decisions /\ session[t].state # "canceled"
      BY <2>2 DEF SessionsAgree, Decisions
    <3>2. \A t \in Sessions : session[t].state # "none" => session[t].of \in Receipts
      BY DEF Prepared
    <3>3. ASSUME NEW t \in Sessions, session[t].of = r
          PROVE  /\ session'[t].state \in Decisions => t = s /\ session'[t].state = decision
                 /\ session'[t].state # "canceled"
      BY <2>4, <2>5, <3>1, <3>3
    <3>4. ASSUME NEW t \in Sessions, session[t].of # r
          PROVE  session'[t].state = session[t].state
      BY <2>2, <2>4, <3>4
    <3> SUFFICES ASSUME NEW t \in Sessions
                 PROVE  /\ session'[t].state \in Decisions =>
                              /\ session'[t].state = receipt'[session'[t].of].status
                              /\ \A u \in Sessions \ {t} : session'[u].of = session'[t].of
                                     => session'[u].state \notin Decisions
                        /\ session'[t].state = "canceled" =>
                              receipt'[session'[t].of].status = "superseded"
      BY DEF SessionsAgree
    <3>5. CASE session[t].of = r
      BY <2>3, <2>4, <3>3, <3>5
    <3>6. CASE session[t].of # r
      <4>1. session'[t].state = session[t].state /\ session'[t].of = session[t].of
        BY <2>4, <3>4, <3>6
      <4>2. session[t].state # "none" => receipt'[session[t].of] = receipt[session[t].of]
        BY <2>3, <3>2, <3>6
      <4>3. \A u \in Sessions : session[u].of = session[t].of => session'[u].state = session[u].state
        BY <3>4, <3>6
      <4> QED
        <5>1. session[t].state = "canceled" =>
                  receipt'[session'[t].of].status = "superseded"
          BY <4>1, <4>2 DEF SessionsAgree
        <5>2. session[t].state \in Decisions =>
                  session'[t].state = receipt'[session'[t].of].status
          BY <4>1, <4>2 DEF SessionsAgree, Decisions
        <5>3. session[t].state \in Decisions =>
                  \A u \in Sessions \ {t} : session'[u].of = session'[t].of
                      => session'[u].state \notin Decisions
          BY <2>4, <4>1, <4>3 DEF SessionsAgree
        <5> QED
          BY <4>1, <5>1, <5>2, <5>3
    <3> QED
      BY <3>5, <3>6
  <2>11. MailWithinLimits'
    BY <2>2, <2>4, MailStays DEF MailWithinLimits
  <2> QED
    BY <2>6, <2>7, <2>8, <2>9, <2>10, <2>11
<1> QED
  BY <1>1, <1>2

(* Selecting from one more delivery counts at most one more. *)
LEMMA OneMore ==
    ASSUME NEW M, NEW N, IsFiniteSet(M), NEW m, N \subseteq M \cup {m}
    PROVE  Cardinality(M) \in Nat /\ Cardinality(N) \in Nat
           /\ Cardinality(N) <= Cardinality(M) + 1
<1>1. /\ IsFiniteSet(M \cup {m})
      /\ Cardinality(M \cup {m}) = IF m \in M THEN Cardinality(M) ELSE Cardinality(M) + 1
  BY FS_AddElement
<1>2. IsFiniteSet(N) /\ Cardinality(N) <= Cardinality(M \cup {m})
  BY <1>1, FS_Subset
<1>3. Cardinality(M) \in Nat /\ Cardinality(N) \in Nat /\ Cardinality(M \cup {m}) \in Nat
  BY <1>1, <1>2, FS_CardinalityType
<1> QED
  BY <1>1, <1>2, <1>3

LEMMA BookInsertKeeps ==
    ASSUME ReceiptInv, NEW a \in Requests, BookInsert(a)
    PROVE  ReceiptInv'
<1> USE ReceiptConstants, RowFacts DEF ReceiptInv
<1> DEFINE r == req[a].r
           s == req[a].s
           n == SessionAttempts(s) + 1
<1>1. /\ req[a].pc = "book_insert" /\ mails' = mails \cup {<<s, n>>}
      /\ req' = [req EXCEPT ![a].pc = "mailing", ![a].attempt = n]
      /\ Release(a) /\ UNCHANGED <<receipt, session, sent, served>>
  BY DEF BookInsert
<1>2. /\ s \in Sessions /\ r \in Receipts /\ session[s].state # "none" /\ session[s].of = r
      /\ lock[Session(s)] = a /\ lock[Receipt(r)] = a
      /\ SessionAttempts(s) < SessionLimit /\ ReceiptAttempts(r) < ReceiptLimit
  BY <1>1 DEF RequestsKnow, Knows, BookSteps, WithReceipt, WithBooked, WithinLimits
<1>3. \A t : IsFiniteSet({m \in mails : m[1] = t}) /\ IsFiniteSet({m \in mails : session[m[1]].of = t})
  BY FS_Subset DEF Prepared
<1>4. n \in 1 .. SessionLimit /\ n \in Nat
  <2>1. IsFiniteSet({m \in mails : m[1] = s})
    BY <1>3
  <2>2. SessionAttempts(s) \in Nat
    BY <2>1, FS_CardinalityType DEF SessionAttempts
  <2> QED
    BY <1>2, <2>2
<1> HIDE DEF r, s, n
<1>5. /\ req' \in [Requests -> [pc : Steps, r : Receipts \cup {NoReceipt},
                                s : Sessions \cup {NoSession},
                                attempt : 0 .. SessionLimit]]
      /\ \A b \in Requests : b # a => req'[b] = req[b]
      /\ req'[a].pc = "mailing" /\ req'[a].r = req[a].r /\ req'[a].s = req[a].s
      /\ req'[a].attempt = n
  <2>1. n \in 0 .. SessionLimit /\ "mailing" \in Steps
    BY <1>4 DEF Steps
  <2> DEFINE new == [req[a] EXCEPT !.pc = "mailing", !.attempt = n]
             Typed == [pc : Steps, r : Receipts \cup {NoReceipt},
                       s : Sessions \cup {NoSession}, attempt : 0 .. SessionLimit]
  <2>2. req \in [Requests -> Typed] /\ req[a] \in Typed
    BY DEF ReceiptTypeOK
  <2>3. new \in Typed /\ new.pc = "mailing" /\ new.r = req[a].r /\ new.s = req[a].s
        /\ new.attempt = n
    BY <2>1, <2>2
  <2>4. req' = [req EXCEPT ![a] = new]
    BY <1>1, <2>2
  <2> HIDE DEF new, Typed
  <2>5. req' \in [Requests -> Typed] /\ req'[a] = new
        /\ \A b \in Requests : b # a => req'[b] = req[b]
    BY <2>2, <2>3, <2>4
  <2> QED
    BY <2>3, <2>5 DEF Typed
<1>6. /\ lock' \in [Rows -> Requests \cup {Nobody}]
      /\ \A b \in Requests, x \in Rows : b # a => (lock'[x] = b <=> lock[x] = b)
      /\ \A x \in Rows : lock'[x] # a
  BY <1>1 DEF ReceiptTypeOK, Release
<1>7. Knows(a)' /\ LocksOf(a)'
  <2>1. req'[a].r \in Receipts /\ req'[a].s \in Sessions /\ <<req'[a].s, req'[a].attempt>> \in mails'
        /\ session'[req'[a].s].state # "none" /\ session'[req'[a].s].of = req'[a].r
    BY <1>1, <1>2, <1>5 DEF r, s
  <2> QED
    BY <1>5, <1>6, <2>1 DEF Knows, LocksOf, BookSteps, WithReceipt, WithBooked
<1>8. RequestsKnow'
  <2>1. Respects(a)
    <3>1. \E t \in Sessions, k \in Nat :
             /\ mails' = mails \cup {<<t, k>>} /\ session[t].state # "none"
             /\ lock[Session(t)] = a /\ lock[Receipt(session[t].of)] = a
      BY <1>1, <1>2, <1>4
    <3> QED
      BY <1>1, <1>5, <1>6, <3>1 DEF Respects
  <2> QED
    BY <1>7, <2>1, OthersKeep DEF RequestsKnow
<1>9. ReceiptTypeOK'
  BY <1>1, <1>2, <1>4, <1>5, <1>6 DEF ReceiptTypeOK
<1>10. Prepared'
  <2>1. IsFiniteSet(mails')
    BY <1>1, FS_AddElement DEF Prepared
  <2> QED
    BY <1>1, <1>2, <2>1 DEF Prepared
<1>11. EndedPeriodIsClosed' /\ SessionsAgree'
  BY <1>1 DEF EndedPeriodIsClosed, SessionsAgree
<1>12. MailWithinLimits'
  <2>1. sent' \subseteq mails'
    BY <1>1 DEF MailWithinLimits
  <2>2. ASSUME NEW t \in Sessions
        PROVE  SessionAttempts(t)' <= SessionLimit
    <3> DEFINE M == {m \in mails : m[1] = t}
               N == {m \in mails' : m[1] = t}
    <3>1. CASE t = s
      <4>1. N \subseteq M \cup {<<s, n>>}
        BY <1>1
      <4>2. Cardinality(M) \in Nat /\ Cardinality(N) \in Nat /\ Cardinality(N) <= Cardinality(M) + 1
        BY <1>3, <4>1, OneMore
      <4>3. Cardinality(M) < SessionLimit
        BY <1>2, <3>1 DEF SessionAttempts
      <4> QED
        BY <4>2, <4>3 DEF SessionAttempts
    <3>2. CASE t # s
      <4>1. N = M
        BY <1>1, <3>2
      <4>2. Cardinality(N) = Cardinality(M)
        BY <4>1
      <4> QED
        BY <4>2 DEF SessionAttempts, MailWithinLimits
    <3> QED
      BY <3>1, <3>2
  <2>3. ASSUME NEW q \in Receipts
        PROVE  ReceiptAttempts(q)' <= ReceiptLimit
    <3> DEFINE M == {m \in mails : session[m[1]].of = q}
               N == {m \in mails' : session'[m[1]].of = q}
    <3>1. CASE q = r
      <4>1. N \subseteq M \cup {<<s, n>>}
        BY <1>1
      <4>2. Cardinality(M) \in Nat /\ Cardinality(N) \in Nat /\ Cardinality(N) <= Cardinality(M) + 1
        BY <1>3, <4>1, OneMore
      <4>3. Cardinality(M) < ReceiptLimit
        BY <1>2, <3>1 DEF ReceiptAttempts
      <4> QED
        BY <4>2, <4>3 DEF ReceiptAttempts
    <3>2. CASE q # r
      <4>1. N = M
        BY <1>1, <1>2, <3>2
      <4>2. Cardinality(N) = Cardinality(M)
        BY <4>1
      <4> QED
        BY <4>2 DEF ReceiptAttempts, MailWithinLimits
    <3> QED
      BY <3>1, <3>2
  <2> QED
    BY <2>1, <2>2, <2>3 DEF MailWithinLimits
<1> QED
  BY <1>8, <1>9, <1>10, <1>11, <1>12

(* What is sent was booked. *)
LEMMA DeliverKeeps ==
    ASSUME ReceiptInv, NEW a \in Requests, Deliver(a)
    PROVE  ReceiptInv'
<1> USE ReceiptConstants DEF ReceiptInv
<1>1. /\ req[a].pc = "mailing" /\ sent' = sent \cup {<<req[a].s, req[a].attempt>>} /\ End(a)
      /\ UNCHANGED <<receipt, session, mails, served>>
  BY DEF Deliver
<1>2. req[a].s \in Sessions /\ <<req[a].s, req[a].attempt>> \in mails
      /\ req[a].attempt \in 0 .. SessionLimit
  BY <1>1, TypeFacts DEF RequestsKnow, Knows
<1>3. RequestsKnow'
  <2>1. Respects(a)
    BY <1>1, EndFacts DEF Respects
  <2> QED
    BY <1>1, <2>1, OthersKeep, EndFacts DEF RequestsKnow
<1>4. ReceiptTypeOK'
  BY <1>1, <1>2, EndFacts DEF ReceiptTypeOK
<1>5. Prepared' /\ EndedPeriodIsClosed' /\ SessionsAgree'
  BY <1>1 DEF Prepared, EndedPeriodIsClosed, SessionsAgree
<1>6. MailWithinLimits'
  BY <1>1, <1>2, MailStays DEF MailWithinLimits
<1> QED
  BY <1>3, <1>4, <1>5, <1>6

(* A check-in that holds the receipt supersedes a pending one and cancels   *)
(* only sessions of it; one that does not has found it decided.             *)
LEMMA CheckInCommitFacts ==
    ASSUME ReceiptInv, NEW a \in Requests, CheckInCommit(a)
    PROVE  LET r == req[a].r IN
           /\ r \in Receipts /\ End(a) /\ UNCHANGED <<mails, sent, served>>
           /\ receipt' \in [Receipts -> [period : Periods, status : Statuses]]
           /\ \A q \in Receipts : q # r =>
                 /\ receipt'[q].status = receipt[q].status
                 /\ receipt'[q].period = "ended" => receipt[q].period = "ended"
           /\ \/ /\ lock[Receipt(r)] = a /\ receipt[r].status = "pending"
                 /\ receipt'[r].status = "superseded"
              \/ /\ lock[Receipt(r)] # a /\ receipt[r].status # "pending"
                 /\ receipt'[r].status = receipt[r].status
                 /\ \A s \in Sessions : lock[Session(s)] # a
           /\ session' \in [Sessions -> [of : Receipts \cup {NoReceipt},
                                         state : {"none", "open", "canceled"} \cup Decisions,
                                         expired : BOOLEAN]]
           /\ \A s \in Sessions :
                 /\ session'[s].of = session[s].of
                 /\ lock[Session(s)] = a =>
                       /\ session'[s].state = "canceled" /\ session[s].of = r
                       /\ session[s].state # "none"
                 /\ lock[Session(s)] # a => session'[s].state = session[s].state
<1> USE ReceiptConstants, RowFacts DEF ReceiptInv
<1> DEFINE r == req[a].r
           closed == [receipt EXCEPT
                        ![r].period = "ended",
                        ![r].status = IF Receipt(r) \in Holds(a)
                                      THEN "superseded" ELSE @]
<1>1. PICK next \in {NoReceipt} \cup {q \in Receipts : receipt[q].period = "future"} :
          receipt' = Opened(closed, next)
  BY DEF CheckInCommit
<1>2. /\ req[a].pc = "in_commit" /\ r \in Receipts /\ End(a) /\ UNCHANGED <<mails, sent, served>>
      /\ (lock[Receipt(r)] = a <=> receipt[r].status = "pending")
      /\ \A s \in Sessions : lock[Session(s)] = a =>
            session[s].of = r /\ session[s].state # "none" /\ lock[Receipt(r)] = a
  <2>1. req[a].pc = "in_commit" /\ End(a) /\ UNCHANGED <<mails, sent, served>>
    BY DEF CheckInCommit
  <2>2. Knows(a) /\ LocksOf(a)
    BY DEF RequestsKnow
  <2>3. r \in Receipts /\ (lock[Receipt(r)] = a <=> receipt[r].status = "pending")
    BY <2>1, <2>2 DEF Knows
  <2>4. \A s \in Sessions : lock[Session(s)] = a =>
            session[s].of = r /\ session[s].state # "none" /\ lock[Receipt(r)] = a
    BY <2>1, <2>2 DEF LocksOf, WithBooked
  <2> QED
    BY <2>1, <2>3, <2>4
<1>3. Receipt(r) \in Holds(a) <=> lock[Receipt(r)] = a
  BY <1>2 DEF Holds
<1> HIDE DEF r
<1> DEFINE status == IF lock[Receipt(r)] = a THEN "superseded" ELSE receipt[r].status
<1>4. /\ closed \in [Receipts -> [period : Periods, status : Statuses]]
      /\ closed[r].status = status
      /\ \A q \in Receipts : q # r => closed[q] = receipt[q]
  <2> DEFINE row == [receipt[r] EXCEPT !.period = "ended", !.status = status]
  <2>1. receipt[r] \in [period : Periods, status : Statuses] /\ status \in Statuses
    BY <1>2 DEF ReceiptTypeOK, Statuses
  <2> HIDE DEF status
  <2>2. row \in [period : Periods, status : Statuses] /\ row.status = status
    BY <2>1 DEF Periods
  <2>3. closed = [receipt EXCEPT ![r] = row]
    BY <1>2, <1>3, <2>1 DEF ReceiptTypeOK, status
  <2> HIDE DEF row, closed
  <2> QED
    BY <1>2, <2>2, <2>3 DEF ReceiptTypeOK
<1> HIDE DEF closed
<1>5. /\ receipt' \in [Receipts -> [period : Periods, status : Statuses]]
      /\ \A q \in Receipts :
            /\ receipt'[q].status = closed[q].status
            /\ receipt'[q].period = "ended" => closed[q].period = "ended"
  BY <1>1, <1>4 DEF Opened, Periods
<1>6. \A s \in Sessions :
         session'[s] = IF lock[Session(s)] = a THEN [session[s] EXCEPT !.state = "canceled"]
                       ELSE session[s]
  BY DEF CheckInCommit, Holds
<1>7. /\ session' \in [Sessions -> [of : Receipts \cup {NoReceipt},
                                    state : {"none", "open", "canceled"} \cup Decisions,
                                    expired : BOOLEAN]]
      /\ \A s \in Sessions :
            /\ session'[s].of = session[s].of
            /\ lock[Session(s)] = a => session'[s].state = "canceled"
            /\ lock[Session(s)] # a => session'[s].state = session[s].state
  <2> DEFINE Typed == [of : Receipts \cup {NoReceipt},
                       state : {"none", "open", "canceled"} \cup Decisions,
                       expired : BOOLEAN]
  <2>1. ASSUME NEW s \in Sessions
        PROVE  /\ [session[s] EXCEPT !.state = "canceled"] \in Typed
               /\ [session[s] EXCEPT !.state = "canceled"].of = session[s].of
               /\ [session[s] EXCEPT !.state = "canceled"].state = "canceled"
    <3>1. session[s] \in Typed
      BY DEF ReceiptTypeOK
    <3> QED
      BY <3>1
  <2>2. session' \in [Sessions -> Typed]
    BY <2>1 DEF CheckInCommit, ReceiptTypeOK
  <2> QED
    BY <1>6, <2>1, <2>2
<1>8. \/ /\ lock[Receipt(r)] = a /\ receipt[r].status = "pending"
         /\ receipt'[r].status = "superseded"
      \/ /\ lock[Receipt(r)] # a /\ receipt[r].status # "pending"
         /\ receipt'[r].status = receipt[r].status
         /\ \A s \in Sessions : lock[Session(s)] # a
  BY <1>2, <1>4, <1>5
<1> QED
  BY <1>2, <1>4, <1>5, <1>7, <1>8 DEF r

LEMMA CheckInCommitKeeps ==
    ASSUME ReceiptInv, NEW a \in Requests, CheckInCommit(a)
    PROVE  ReceiptInv'
<1> USE ReceiptConstants DEF ReceiptInv
<1> DEFINE r == req[a].r
<1>1. /\ r \in Receipts /\ End(a) /\ UNCHANGED <<mails, sent, served>>
      /\ receipt' \in [Receipts -> [period : Periods, status : Statuses]]
      /\ \A q \in Receipts : q # r =>
            /\ receipt'[q].status = receipt[q].status
            /\ receipt'[q].period = "ended" => receipt[q].period = "ended"
      /\ session' \in [Sessions -> [of : Receipts \cup {NoReceipt},
                                    state : {"none", "open", "canceled"} \cup Decisions,
                                    expired : BOOLEAN]]
  BY CheckInCommitFacts
<1>2. \/ /\ lock[Receipt(r)] = a /\ receipt[r].status = "pending"
         /\ receipt'[r].status = "superseded"
      \/ /\ lock[Receipt(r)] # a /\ receipt[r].status # "pending"
         /\ receipt'[r].status = receipt[r].status
         /\ \A s \in Sessions : lock[Session(s)] # a
  BY CheckInCommitFacts
<1>3. \A s \in Sessions :
        /\ session'[s].of = session[s].of
        /\ lock[Session(s)] = a =>
              /\ session'[s].state = "canceled" /\ session[s].of = r
              /\ session[s].state # "none"
        /\ lock[Session(s)] # a => session'[s].state = session[s].state
  BY CheckInCommitFacts
<1> HIDE DEF r
<1>4. RequestsKnow'
  <2>1. Respects(a)
    <3>1. \A q \in Receipts :
            /\ lock[Receipt(q)] \notin {a, Nobody} => receipt'[q].status = receipt[q].status
            /\ receipt[q].status # "pending" => receipt'[q].status # "pending"
      BY <1>1, <1>2
    <3>2. \A t \in Sessions : session[t].state # "none" =>
            session'[t].of = session[t].of /\ session'[t].state # "none"
      BY <1>3
    <3> QED
      BY <1>1, <3>1, <3>2, EndFacts DEF Respects
  <2> QED
    BY <1>1, <2>1, OthersKeep, EndFacts DEF RequestsKnow
<1>5. ReceiptTypeOK'
  BY <1>1, EndFacts DEF ReceiptTypeOK
<1>6. Prepared'
  <2>1. \A t \in Sessions : session'[t].state # "none" <=> session[t].state # "none"
    BY <1>3
  <2> QED
    BY <1>1, <1>3, <2>1 DEF Prepared, ReceiptTypeOK
<1>7. EndedPeriodIsClosed'
  BY <1>1, <1>2 DEF EndedPeriodIsClosed
<1>8. SessionsAgree'
  <2>1. \A t \in Sessions : session[t].state # "none" => session[t].of \in Receipts
    BY DEF Prepared
  <2>2. CASE lock[Receipt(r)] = a
    <3>1. \A t \in Sessions : session[t].of = r =>
              session[t].state \notin Decisions /\ session[t].state # "canceled"
      BY <1>2, <2>2 DEF SessionsAgree, Decisions
    <3>2. \A t \in Sessions : /\ session[t].of # r => session'[t].state = session[t].state
                              /\ session[t].of = r => session'[t].state \notin Decisions
      BY <1>3, <3>1 DEF Decisions
    <3>3. \A t \in Sessions : session'[t].state = "canceled" =>
              receipt'[session'[t].of].status = "superseded"
      BY <1>1, <1>2, <1>3, <2>1, <2>2, <3>2 DEF SessionsAgree
    <3>4. \A t \in Sessions : session'[t].state \in Decisions =>
              /\ session[t].of # r /\ session[t].state = session'[t].state
              /\ receipt'[session'[t].of].status = receipt[session[t].of].status
      BY <1>1, <1>3, <2>1, <3>2 DEF Decisions
    <3> QED
      BY <1>3, <3>2, <3>3, <3>4 DEF SessionsAgree
  <2>3. CASE lock[Receipt(r)] # a
    <3>1. \A t \in Sessions : session'[t].state = session[t].state /\ session'[t].of = session[t].of
      BY <1>2, <1>3, <2>3
    <3>2. \A q \in Receipts : receipt'[q].status = receipt[q].status
      BY <1>1, <1>2, <2>3
    <3> QED
      BY <2>1, <3>1, <3>2 DEF SessionsAgree, Decisions
  <2> QED
    BY <2>2, <2>3
<1>9. MailWithinLimits'
  BY <1>1, <1>3, MailStays DEF MailWithinLimits
<1> QED
  BY <1>4, <1>5, <1>6, <1>7, <1>8, <1>9
-----------------------------------------------------------------------------
LEMMA NextKeeps == ReceiptInv /\ [Next]_vars => ReceiptInv'
<1> SUFFICES ASSUME ReceiptInv, [Next]_vars PROVE ReceiptInv'
  OBVIOUS
<1>1. CASE UNCHANGED vars
  <2>1. UNCHANGED <<receipt, session, mails, sent, lock, req, served>>
    BY <1>1 DEF vars
  <2>2. Respects(Nobody)
    BY <2>1 DEF Respects
  <2>3. RequestsKnow'
    BY <2>2, OthersKeep, ReceiptConstants DEF RequestsKnow
  <2>4. MailWithinLimits'
    BY <2>1, MailStays DEF MailWithinLimits, ReceiptInv
  <2> QED
    BY <2>1, <2>3, <2>4 DEF ReceiptInv, ReceiptTypeOK, Prepared, EndedPeriodIsClosed,
                            SessionsAgree
<1>2. ASSUME NEW a \in Requests, RequestStep(a)
      PROVE  ReceiptInv'
  <2>1. CASE RollBack(a)
    BY <2>1, RefuseKeeps DEF RollBack
  <2> QED
    BY <1>2, <2>1, BeginKeeps, PrepareKeeps, SignReceiptKeeps, SignSessionKeeps,
       SignDecideKeeps, BookSessionKeeps, BookReceiptKeeps, BookCountKeeps, BookInsertKeeps,
       DeliverKeeps, CheckInAssignmentKeeps, CheckInReceiptKeeps, CheckInSessionKeeps,
       CheckInCommitKeeps DEF RequestStep
<1> QED
  BY <1>1, <1>2, CheckOutKeeps, ExpireKeeps DEF Next

(* The inductive invariant holds in every reachable state. *)
THEOREM ReceiptInvariant == Spec => []ReceiptInv
  BY InitInv, NextKeeps, PTL DEF Spec

(* Every row, lock and request has its type. *)
THEOREM ReceiptTypes == Spec => []ReceiptTypeOK
<1>1. ReceiptInv => ReceiptTypeOK
  BY DEF ReceiptInv
<1> QED
  BY <1>1, ReceiptInvariant, PTL

(* An ended custody period has no pending receipt. *)
THEOREM EndedIsClosed == Spec => []EndedPeriodIsClosed
<1>1. ReceiptInv => EndedPeriodIsClosed
  BY DEF ReceiptInv
<1> QED
  BY <1>1, ReceiptInvariant, PTL

(* Sessions are consumed by the one decision their receipt carries, and     *)
(* canceled only with a receipt that is superseded.                         *)
THEOREM SessionsTellTheSame == Spec => []SessionsAgree
<1>1. ReceiptInv => SessionsAgree
  BY DEF ReceiptInv
<1> QED
  BY <1>1, ReceiptInvariant, PTL

(* E-mails are booked before they are sent, and never beyond the limits of  *)
(* the session and of the receipt.                                          *)
THEOREM MailIsLimited == Spec => []MailWithinLimits
<1>1. ReceiptInv => MailWithinLimits
  BY DEF ReceiptInv
<1> QED
  BY <1>1, ReceiptInvariant, PTL

(* Without a request that has a session and waits for the receipt, nobody   *)
(* waits in a circle.  Whoever waits for a session of a receipt it holds    *)
(* waits for a request that holds that receipt too, and is itself; so those *)
(* who hold a receipt wait for nobody, then nobody waits for a receipt,     *)
(* nobody for an assignment, and who waits for a session holds nothing.     *)
LEMMA CirclesNeedMailing == ReceiptInv => DeadlockNeedsMailing
<1> SUFFICES ASSUME ReceiptInv, NEW S \in SUBSET Requests, Deadlocked(S),
                    \A a \in S : req[a].pc # "book_receipt"
             PROVE  FALSE
  BY DEF DeadlockNeedsMailing
<1> USE RowFacts DEF ReceiptInv
<1>1. \A a \in S : a \in Requests /\ Knows(a) /\ LocksOf(a)
  BY DEF RequestsKnow
<1>2. \A a \in S : \E b \in S : b # a /\ \E x \in Wants(a) : x \in Rows /\ lock[x] = b
  BY DEF Deadlocked, Holds
<1>3. \A a \in S : Wants(a) # {}
  BY <1>2
<1>4. \A a \in S : req[a].pc \notin {"sign_decide", "book_count", "book_insert", "in_commit", "idle"}
  BY <1>3 DEF Wants
<1>5. \A a \in S : req[a].pc # "sign_session" /\ req[a].pc # "in_sessions"
  <2> SUFFICES ASSUME NEW a \in S, req[a].pc \in {"sign_session", "in_sessions"} PROVE FALSE
    OBVIOUS
  <2>1. PICK b \in S, x \in Rows : b # a /\ x \in Wants(a) /\ lock[x] = b
    BY <1>2
  <2>2. req[a].r \in Receipts /\ lock[Receipt(req[a].r)] = a
    BY <1>1 DEF Knows, WithReceipt
  <2>3. \E t \in Sessions : x = Session(t) /\ session[t].of = req[a].r
    BY <1>1, <2>1, ReceiptConstants DEF Wants, Knows
  <2>4. PICK t \in Sessions : x = Session(t) /\ session[t].of = req[a].r
    BY <2>3
  <2>5. lock[Session(t)] = b
    BY <2>1, <2>4
  <2>6. session[t].of = req[b].r /\ lock[Receipt(req[b].r)] = b
    BY <1>1, <1>4, <2>5 DEF LocksOf, WithBooked
  <2> QED
    BY <2>1, <2>2, <2>4, <2>6
<1>6. \A b \in S, r \in Receipts : lock[Receipt(r)] # b
  BY <1>1, <1>4, <1>5 DEF LocksOf, WithReceipt
<1>7. \A a \in S : req[a].pc \notin {"sign_receipt", "in_receipt", "prepare"}
  <2> SUFFICES ASSUME NEW a \in S, req[a].pc \in {"sign_receipt", "in_receipt", "prepare"}
               PROVE  FALSE
    OBVIOUS
  <2>1. Wants(a) = {Receipt(req[a].r)} /\ req[a].r \in Receipts
    BY <1>1 DEF Wants, Knows
  <2> QED
    BY <1>2, <1>6, <2>1
<1>8. \A b \in S : \A r \in Receipts : lock[Assignment(r)] # b
  BY <1>1, <1>4, <1>5, <1>7 DEF LocksOf
<1>9. \A b \in S : \A s \in Sessions : lock[Session(s)] # b
  BY <1>1, <1>4, <1>5 DEF LocksOf, WithBooked
<1>10. \A b \in S, x \in Rows : lock[x] # b
  BY <1>6, <1>8, <1>9
<1>11. S # {}
  BY DEF Deadlocked
<1> QED
  BY <1>2, <1>10, <1>11

(* Requests wait in a circle only if one of them is mailing a link. *)
THEOREM OnlyMailingDeadlocks == Spec => []DeadlockNeedsMailing
  BY CirclesNeedMailing, ReceiptInvariant, PTL

(* Only the decision and the check-in write the status of a receipt, and    *)
(* both have it locked and pending.                                         *)
LEMMA NextKeepsEvidence ==
    ASSUME ReceiptInv, [Next]_vars, NEW r \in Receipts, receipt[r].status # "pending"
    PROVE  receipt'[r].status = receipt[r].status
<1> USE DEF ReceiptInv
<1>1. CASE UNCHANGED receipt
  BY <1>1
<1>2. ASSUME NEW q \in Receipts, CheckOut(q)
      PROVE  receipt'[r].status = receipt[r].status
  BY <1>2, ReceiptConstants DEF CheckOut, Opened, ReceiptTypeOK
<1>3. ASSUME NEW a \in Requests, SignDecide(a)
      PROVE  receipt'[r].status = receipt[r].status
  <2>1. CASE Undecided(req[a].r) /\ \E decision \in Decisions :
                 receipt' = [receipt EXCEPT ![req[a].r].status = decision]
    <3>1. r # req[a].r
      BY <2>1 DEF Undecided
    <3> QED
      BY <2>1, <3>1 DEF ReceiptTypeOK
  <2>2. CASE Refuse(a)
    BY <2>2 DEF Refuse
  <2> QED
    BY <1>3, <2>1, <2>2 DEF SignDecide
<1>4. ASSUME NEW a \in Requests, CheckInCommit(a)
      PROVE  receipt'[r].status = receipt[r].status
  BY <1>4, CheckInCommitFacts
<1>5. ASSUME NEW a \in Requests, RequestStep(a), ~SignDecide(a), ~CheckInCommit(a)
      PROVE  UNCHANGED receipt
  BY <1>5 DEF RequestStep, PrepareBegin, CheckInBegin, SignBegin, BookBegin, Serve, Prepare,
              SignReceipt, SignSession, BookSession, BookReceipt, BookCount, BookInsert,
              Deliver, CheckInAssignment, CheckInReceipt, CheckInSession, RollBack, Refuse
<1> QED
  BY <1>1, <1>2, <1>3, <1>4, <1>5 DEF Next, vars, Expire

(* A receipt that is decided or superseded is never rewritten. *)
THEOREM EvidenceStays == Spec => EvidenceIsFinal
<1>1. ReceiptInv /\ [Next]_vars =>
        [\A r \in Receipts : receipt[r].status # "pending"
            => receipt'[r].status = receipt[r].status]_vars
  BY NextKeepsEvidence
<1> QED
  BY <1>1, ReceiptInvariant, PTL DEF Spec, EvidenceIsFinal
=============================================================================
