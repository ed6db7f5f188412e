----------------------- MODULE ScheduledReportsProofs -----------------------
(***************************************************************************)
(* Proofs about ScheduledReports, for any number of runs, fire times,      *)
(* channels and retry requests: a firing runs once, the schedule is bound  *)
(* to the newest run, it reports success only for what was delivered, and  *)
(* a retry that lost its claim sends at most once more.                    *)
(***************************************************************************)
EXTENDS ScheduledReports, TLAPS

(* A ledger that calls every target failed that still misses the report of  *)
(* run e.                                                                   *)
Covers(ledger, e) == \A t \in Targets : <<e, t>> \in missing => ledger[t] = "failed"

BeforeSending == {"idle", "claimed", "started", "compiling", "storing", "email"}
HasStarted == {"started", "compiling", "storing", "email", "channels", "summary",
               "ledger", "done", "not_generated"}

(* What a run may rely on: its fire time is taken, its archive is stored,   *)
(* its ledger and then the one of its archive cover what was not delivered, *)
(* and it is bound only once it has written the summary.                    *)
RunKnows(e) ==
    /\ run[e].pc # "idle" /\ run[e].fire # NoFire => run[e].fire \in accepted
    /\ run[e].stamp <= clock
    /\ run[e].pc \in HasStarted => run[e].stamp # 0
    /\ run[e].pc \in {"email", "channels", "summary", "ledger"} /\ run[e].keep
          => archive[e].status = "success"
    /\ run[e].pc \in BeforeSending =>
          \A t \in Targets : run[e].ledger[t] = "none" /\ <<e, t>> \notin missing
    /\ run[e].pc = "channels" => \A t \in run[e].todo : run[e].ledger[t] = "none"
    /\ run[e].pc \in {"channels", "summary", "ledger"} => Covers(run[e].ledger, e)
    /\ Failures(archive[e].ledger) # {} =>
          run[e].pc = "done" /\ Covers(archive[e].ledger, e)
    /\ summary.bound = e =>
          run[e].pc \in {"ledger", "done", "dead"} /\ archive[e].status = "success"

(* A retry works on a run that is done, and its ledger covers what was not  *)
(* delivered; it counts a late send only after it has lost the claim.       *)
RetryKnows(r) ==
    /\ retry[r].pc \notin {"idle", "open"} =>
          /\ retry[r].of \in Runs /\ run[retry[r].of].pc = "done"
          /\ Covers(retry[r].ledger, retry[r].of)
    /\ retry[r].late # 0 =>
          /\ retry[r].late = 1 /\ retry[r].pc \in {"renew", "complete"}
          /\ archive[retry[r].of].token # r

(* No two runs started at the same time. *)
StampsDiffer ==
    \A d, e \in Runs : d # e /\ run[d].stamp = run[e].stamp => run[d].stamp = 0

ReportInv ==
    /\ ReportTypeOK /\ StampsDiffer
    /\ \A e \in Runs : RunKnows(e)
    /\ \A r \in Retries : RetryKnows(r)
    /\ FiredOnce /\ NewestRunIsBound /\ SuccessIsDelivered

(* The rows as they are typed. *)
RunRow == [pc : {"idle"} \cup RunUnderWay \cup RunEnded,
           fire : Fires \cup {NoFire}, stamp : Nat,
           keep : BOOLEAN, todo : SUBSET Channels, ledger : Ledgers]
ArchiveRow == [status : {"none", "running", "success", "failed"},
               ledger : Ledgers, token : Retries \cup {NoRetry}, live : BOOLEAN]
RetryRow == [pc : RetrySteps, of : Runs \cup {NoRun}, todo : SUBSET Targets,
             ledger : Ledgers, seen : Statuses, late : Nat]
SummaryRow == [lastRun : Nat, status : Statuses, bound : Runs \cup {NoRun}]

LEMMA TypeOK ==
    ReportTypeOK <=>
        /\ attached \subseteq Channels /\ edits \in 0 .. MaxEdits /\ accepted \subseteq Fires
        /\ summary \in SummaryRow /\ run \in [Runs -> RunRow]
        /\ archive \in [Runs -> ArchiveRow] /\ retry \in [Retries -> RetryRow]
        /\ clock \in Nat /\ requests \in 0 .. MaxRequests /\ crashes \in 0 .. MaxCrashes
        /\ missing \subseteq Runs \X Targets
BY DEF ReportTypeOK, SummaryRow, RunRow, ArchiveRow, RetryRow

LEMMA TypeOKPrimed ==
    ReportTypeOK' <=>
        /\ attached' \subseteq Channels /\ edits' \in 0 .. MaxEdits /\ accepted' \subseteq Fires
        /\ summary' \in SummaryRow /\ run' \in [Runs -> RunRow]
        /\ archive' \in [Runs -> ArchiveRow] /\ retry' \in [Retries -> RetryRow]
        /\ clock' \in Nat /\ requests' \in 0 .. MaxRequests /\ crashes' \in 0 .. MaxCrashes
        /\ missing' \subseteq Runs \X Targets
BY DEF ReportTypeOK, SummaryRow, RunRow, ArchiveRow, RetryRow

LEMMA LedgerFacts ==
    /\ EmptyLedger \in Ledgers
    /\ \A t \in Targets : EmptyLedger[t] = "none"
    /\ Failures(EmptyLedger) = {}
    /\ \A l \in Ledgers, t \in Targets, o \in Outcomes : [l EXCEPT ![t] = o] \in Ledgers
    /\ \A l : DeliveryStatus(l) \in Statuses
    /\ \A l : DeliveryStatus(l) = "success" => \A t \in Targets : l[t] # "failed"
<1>1. /\ EmptyLedger \in Ledgers /\ \A t \in Targets : EmptyLedger[t] = "none"
      /\ Failures(EmptyLedger) = {}
  BY DEF EmptyLedger, Ledgers, Outcomes, Failures
<1>2. \A l \in Ledgers, t \in Targets, o \in Outcomes : [l EXCEPT ![t] = o] \in Ledgers
  BY DEF Ledgers
<1>3. \A l : DeliveryStatus(l) \in Statuses
             /\ (DeliveryStatus(l) = "success" => \A t \in Targets : l[t] # "failed")
  BY DEF DeliveryStatus, Statuses
<1> QED
  BY <1>1, <1>2, <1>3

(* Initially nothing has run. *)
LEMMA InitInv == Init => ReportInv
<1> SUFFICES ASSUME Init PROVE ReportInv
  OBVIOUS
<1> USE ReportConstants DEF Init
<1>1. ReportTypeOK
  <2>1. summary \in SummaryRow
    BY DEF SummaryRow, Statuses
  <2>2. run \in [Runs -> RunRow]
    BY LedgerFacts DEF RunRow
  <2>3. archive \in [Runs -> ArchiveRow]
    BY LedgerFacts DEF ArchiveRow
  <2>4. NoRequest \in RetryRow
    BY LedgerFacts DEF RetryRow, NoRequest, RetrySteps, Statuses
  <2>5. retry \in [Retries -> RetryRow]
    BY <2>4
  <2>6. edits \in 0 .. MaxEdits /\ requests \in 0 .. MaxRequests /\ crashes \in 0 .. MaxCrashes
        /\ clock \in Nat
    <3>1. edits = 0 /\ requests = 0 /\ crashes = 0 /\ clock = 0
      OBVIOUS
    <3> HIDE DEF Init
    <3> QED
      BY <3>1
  <2>7. attached \subseteq Channels /\ accepted \subseteq Fires /\ missing \subseteq Runs \X Targets
    OBVIOUS
  <2> QED
    BY <2>1, <2>2, <2>3, <2>5, <2>6, <2>7 DEF ReportTypeOK, SummaryRow, RunRow, ArchiveRow, RetryRow
<1>2. StampsDiffer /\ FiredOnce
  BY DEF StampsDiffer, FiredOnce
<1>3. ASSUME NEW e \in Runs
      PROVE  RunKnows(e)
  <2>1. /\ run[e].pc = "idle" /\ run[e].fire = NoFire /\ run[e].stamp = 0 /\ clock = 0
        /\ run[e].ledger = EmptyLedger /\ archive[e].ledger = EmptyLedger
        /\ summary.bound = NoRun /\ missing = {}
    OBVIOUS
  <2>2. \A t \in Targets : run[e].ledger[t] = "none" /\ <<e, t>> \notin missing
    BY <2>1, LedgerFacts
  <2>3. Failures(archive[e].ledger) = {} /\ summary.bound # e
    BY <2>1, LedgerFacts
  <2> HIDE DEF Init
  <2> QED
    BY <2>1, <2>2, <2>3 DEF RunKnows, HasStarted
<1>4. \A r \in Retries : RetryKnows(r)
  BY DEF RetryKnows, NoRequest
<1>5. NewestRunIsBound /\ SuccessIsDelivered
  BY DEF NewestRunIsBound, SuccessIsDelivered
<1> QED
  BY <1>1, <1>2, <1>3, <1>4, <1>5 DEF ReportInv
-----------------------------------------------------------------------------
(* What a step of run e leaves alone: the other runs, what they delivered,  *)
(* and every retry, as those work on runs that are done.                    *)
LEMMA RunOthers ==
    ASSUME ReportInv, NEW e \in Runs, run[e].pc # "done", ReportTypeOK',
           \A d \in Runs : d # e => run'[d] = run[d] /\ archive'[d] = archive[d],
           \A d \in Runs, t \in Targets : d # e => (<<d, t>> \in missing' <=> <<d, t>> \in missing),
           accepted \subseteq accepted', clock <= clock', retry' = retry,
           summary'.bound \in {summary.bound, e, NoRun},
           archive'[e].token = archive[e].token
    PROVE  /\ \A d \in Runs : d # e => RunKnows(d)'
           /\ \A r \in Retries : RetryKnows(r)'
<1> USE ReportConstants DEF ReportInv
<1>1. ASSUME NEW d \in Runs, d # e
      PROVE  RunKnows(d)'
  <2>1. RunKnows(d) /\ run'[d] = run[d] /\ archive'[d] = archive[d]
        /\ \A t \in Targets : <<d, t>> \in missing' <=> <<d, t>> \in missing
    BY <1>1
  <2>2. run[d].stamp \in Nat /\ clock \in Nat /\ clock' \in Nat
    BY TypeOK, TypeOKPrimed DEF RunRow
  <2>4. summary'.bound = d => summary.bound = d
    BY <1>1
  <2>5. run'[d].stamp <= clock'
    BY <2>1, <2>2 DEF RunKnows
  <2>6. /\ run'[d].pc \in {"channels", "summary", "ledger"} => Covers(run[d].ledger, d)'
        /\ Failures(archive'[d].ledger) # {} =>
              run'[d].pc = "done" /\ Covers(archive[d].ledger, d)'
    BY <2>1 DEF RunKnows, Covers
  <2>7. summary'.bound = d =>
          run'[d].pc \in {"ledger", "done", "dead"} /\ archive'[d].status = "success"
    BY <2>1, <2>4 DEF RunKnows
  <2> QED
    BY <2>1, <2>5, <2>6, <2>7 DEF RunKnows, Covers
<1>2. ASSUME NEW r \in Retries
      PROVE  RetryKnows(r)'
  <2>1. RetryKnows(r) /\ retry'[r] = retry[r]
    OBVIOUS
  <2>2. retry[r].pc \notin {"idle", "open"} =>
          /\ retry[r].of \in Runs /\ retry[r].of # e
          /\ run'[retry[r].of].pc = "done" /\ Covers(retry[r].ledger, retry[r].of)'
          /\ archive'[retry[r].of].token = archive[retry[r].of].token
    BY <2>1 DEF RetryKnows, Covers
  <2> QED
    BY <2>1, <2>2 DEF RetryKnows
<1> QED
  BY <1>1, <1>2

RunSteps == {"idle"} \cup RunUnderWay \cup RunEnded

LEMMA RunSet ==
    ASSUME ReportTypeOK, NEW e \in Runs, NEW new \in RunRow, run' = [run EXCEPT ![e] = new]
    PROVE  run' \in [Runs -> RunRow] /\ run'[e] = new
           /\ \A d \in Runs : d # e => run'[d] = run[d]
BY TypeOK

LEMMA ArchiveSet ==
    ASSUME ReportTypeOK, NEW e \in Runs, NEW new \in ArchiveRow,
           archive' = [archive EXCEPT ![e] = new]
    PROVE  archive' \in [Runs -> ArchiveRow] /\ archive'[e] = new
           /\ \A d \in Runs : d # e => archive'[d] = archive[d]
BY TypeOK

LEMMA RowTypes ==
    ASSUME ReportTypeOK, NEW e \in Runs
    PROVE  /\ run[e] \in RunRow /\ archive[e] \in ArchiveRow
           /\ run[e].stamp \in Nat /\ run[e].ledger \in Ledgers
           /\ run[e].todo \subseteq Channels /\ run[e].pc \in RunSteps
BY TypeOK DEF RunRow, RunSteps

LEMMA MoveFacts ==
    ASSUME ReportTypeOK, NEW e \in Runs, NEW to \in RunSteps, Move(e, to)
    PROVE  /\ run' \in [Runs -> RunRow]
           /\ \A d \in Runs : d # e => run'[d] = run[d]
           /\ run'[e].pc = to /\ run'[e].fire = run[e].fire /\ run'[e].stamp = run[e].stamp
           /\ run'[e].keep = run[e].keep /\ run'[e].todo = run[e].todo
           /\ run'[e].ledger = run[e].ledger
<1> DEFINE new == [run[e] EXCEPT !.pc = to]
<1>1. run[e] \in RunRow
  BY RowTypes
<1>2. /\ new \in RunRow
      /\ new.pc = to /\ new.fire = run[e].fire /\ new.stamp = run[e].stamp
      /\ new.keep = run[e].keep /\ new.todo = run[e].todo /\ new.ledger = run[e].ledger
  BY <1>1 DEF RunRow, RunSteps
<1>3. run' = [run EXCEPT ![e] = new]
  BY DEF Move
<1> HIDE DEF new
<1> QED
  BY <1>2, <1>3, RunSet

(* A step of a run that is under way.  The summary is written by the newest *)
(* run only, so no other run that has ended was bound until then; nothing   *)
(* is sent by a run that is bound.                                          *)
LEMMA RunStepKeeps ==
    ASSUME ReportInv, NEW e \in Runs, run[e].pc \notin {"idle", "done"}, ReportTypeOK',
           \A d \in Runs : d # e => run'[d] = run[d] /\ archive'[d] = archive[d],
           run'[e].fire = run[e].fire, run'[e].stamp = run[e].stamp,
           \A d \in Runs, t \in Targets : d # e => (<<d, t>> \in missing' <=> <<d, t>> \in missing),
           run[e].pc \in {"ledger", "dead"} => missing' = missing,
           UNCHANGED <<accepted, clock, retry>>,
           \/ summary' = summary
           \/ /\ Newest(e) /\ run[e].stamp # 0
              /\ summary'.lastRun = summary.lastRun /\ summary'.bound \in {e, NoRun}
              /\ summary'.status = "success" /\ summary'.bound = e
                    => \A t \in Targets : <<e, t>> \notin missing',
           archive'[e].token = archive[e].token,
           RunKnows(e)',
           run'[e].stamp # 0 /\ run'[e].stamp = summary'.lastRun
               /\ run'[e].pc \in {"ledger", "done", "not_generated"}
               => summary'.bound = IF run'[e].pc # "not_generated" /\ run'[e].keep
                                   THEN e ELSE NoRun
    PROVE  ReportInv'
<1> USE ReportConstants DEF ReportInv
<1>1. clock \in Nat /\ clock <= clock' /\ accepted \subseteq accepted'
  BY TypeOK
<1>2. summary'.bound \in {summary.bound, e, NoRun}
  OBVIOUS
<1>3. /\ \A d \in Runs : RunKnows(d)'
      /\ \A r \in Retries : RetryKnows(r)'
  BY <1>1, <1>2, RunOthers
<1>4. StampsDiffer'
  BY DEF StampsDiffer
<1>5. FiredOnce'
  BY DEF FiredOnce
<1>6. NewestRunIsBound'
  <2>1. ASSUME NEW d \in Runs, d # e, run'[d].stamp # 0, run'[d].stamp = summary'.lastRun,
               run'[d].pc \in {"ledger", "done", "not_generated"}
        PROVE  summary'.bound = IF run'[d].pc # "not_generated" /\ run'[d].keep
                                THEN d ELSE NoRun
    <3>1. run'[d] = run[d]
      BY <2>1
    <3>2. summary' = summary
      BY <2>1, <3>1 DEF StampsDiffer, Newest
    <3> QED
      BY <2>1, <3>1, <3>2 DEF NewestRunIsBound
  <2>2. summary'.bound # NoRun => archive'[summary'.bound].status = "success"
    <3>1. summary'.bound \in Runs \cup {NoRun}
      BY TypeOKPrimed DEF SummaryRow
    <3> QED
      BY <1>3, <3>1 DEF RunKnows
  <2> QED
    BY <2>1, <2>2 DEF NewestRunIsBound
<1>7. SuccessIsDelivered'
  <2>1. CASE summary' = summary
    <3>1. summary.bound \in Runs \cup {NoRun}
      BY TypeOK DEF SummaryRow
    <3>2. summary.bound = e => missing' = missing
      BY DEF RunKnows
    <3> QED
      BY <2>1, <3>1, <3>2 DEF SuccessIsDelivered
  <2>2. CASE summary' # summary
    BY <2>2 DEF SuccessIsDelivered
  <2> QED
    BY <2>1, <2>2
<1> QED
  BY <1>3, <1>4, <1>5, <1>6, <1>7

LEMMA BeginKeeps ==
    ASSUME ReportInv, NEW e \in Runs, NEW f \in Fires \cup {NoFire}, Begin(e, f)
    PROVE  ReportInv'
<1> USE ReportConstants DEF ReportInv
<1> DEFINE new == [run[e] EXCEPT !.pc = "claimed", !.fire = f]
<1>1. /\ run[e].pc = "idle" /\ (f # NoFire => f \notin accepted)
      /\ run' = [run EXCEPT ![e].pc = "claimed", ![e].fire = f]
      /\ accepted' = accepted \cup ({f} \ {NoFire})
      /\ UNCHANGED <<attached, edits, summary, archive, retry, clock, requests, crashes, missing>>
  BY DEF Begin, FireClaimable
<1>2. run[e] \in RunRow /\ RunKnows(e)
  BY RowTypes
<1>3. /\ new \in RunRow
      /\ new.pc = "claimed" /\ new.fire = f /\ new.stamp = run[e].stamp
      /\ new.keep = run[e].keep /\ new.todo = run[e].todo /\ new.ledger = run[e].ledger
  BY <1>2 DEF RunRow, RunUnderWay
<1>4. run' = [run EXCEPT ![e] = new]
  BY <1>1
<1> HIDE DEF new
<1>5. run' \in [Runs -> RunRow] /\ run'[e] = new /\ \A d \in Runs : d # e => run'[d] = run[d]
  BY <1>3, <1>4, RunSet
<1>6. ReportTypeOK'
  BY <1>1, <1>5, TypeOK, TypeOKPrimed
<1>7. RunKnows(e)'
  BY <1>1, <1>2, <1>3, <1>5 DEF RunKnows, HasStarted, BeforeSending, Failures
<1>8. /\ \A d \in Runs : d # e => RunKnows(d)'
      /\ \A r \in Retries : RetryKnows(r)'
  <2>1. clock <= clock' /\ accepted \subseteq accepted'
    BY <1>1, TypeOK
  <2> QED
    BY <1>1, <1>5, <1>6, <2>1, RunOthers
<1>9. StampsDiffer' /\ SuccessIsDelivered' /\ NewestRunIsBound'
  BY <1>1, <1>3, <1>5 DEF StampsDiffer, SuccessIsDelivered, NewestRunIsBound
<1>10. FiredOnce'
  <2>1. \A d \in Runs : d # e /\ run'[d].pc # "idle" /\ run'[d].fire # NoFire
                          => run'[d].fire # run'[e].fire
    BY <1>1, <1>3, <1>5 DEF RunKnows
  <2> QED
    BY <1>3, <1>5, <2>1 DEF FiredOnce
<1> QED
  BY <1>6, <1>7, <1>8, <1>9, <1>10

LEMMA StepNames ==
    /\ {"denied", "started", "compiling", "storing", "email", "channels", "summary", "ledger",
        "not_generated", "done", "dead"} \subseteq RunSteps
    /\ RunUnderWay \cap {"idle", "done"} = {}
BY DEF RunSteps, RunUnderWay, RunEnded

LEMMA StartKeeps ==
    ASSUME ReportInv, NEW e \in Runs, Start(e)
    PROVE  ReportInv'
<1> USE ReportConstants DEF ReportInv
<1>1. /\ run[e].pc = "claimed" /\ run[e] \in RunRow /\ RunKnows(e)
      /\ UNCHANGED <<attached, edits, accepted, summary, archive, retry, requests, crashes, missing>>
  BY RowTypes DEF Start
<1>2. CASE Move(e, "denied") /\ UNCHANGED clock
  <2>1. /\ run' \in [Runs -> RunRow]
        /\ \A d \in Runs : d # e => run'[d] = run[d]
        /\ run'[e].pc = "denied" /\ run'[e].fire = run[e].fire /\ run'[e].stamp = run[e].stamp
        /\ run'[e].ledger = run[e].ledger
    BY <1>2, MoveFacts, StepNames
  <2>2. ReportTypeOK'
    BY <1>1, <1>2, <2>1, TypeOK, TypeOKPrimed
  <2>3. RunKnows(e)'
    BY <1>1, <1>2, <2>1 DEF RunKnows, HasStarted, BeforeSending, Failures, Covers
  <2> QED
    BY <1>1, <1>2, <2>1, <2>2, <2>3, RunStepKeeps
<1>3. CASE clock' = clock + 1 /\ run' = [run EXCEPT ![e].pc = "started", ![e].stamp = clock + 1]
  <2> DEFINE now == clock + 1
             new == [run[e] EXCEPT !.pc = "started", !.stamp = now]
  <2>1. clock \in Nat /\ now \in Nat /\ clock' \in Nat /\ clock <= clock'
    BY <1>3, TypeOK
  <2>2. run' = [run EXCEPT ![e] = new]
    BY <1>3
  <2> HIDE DEF now
  <2>3. /\ new \in RunRow
        /\ new.pc = "started" /\ new.fire = run[e].fire /\ new.stamp = now
        /\ new.keep = run[e].keep /\ new.ledger = run[e].ledger
    BY <1>1, <2>1 DEF RunRow, RunUnderWay
  <2> HIDE DEF new
  <2>4. run' \in [Runs -> RunRow] /\ run'[e] = new /\ \A d \in Runs : d # e => run'[d] = run[d]
    BY <2>3, <2>2, RunSet
  <2>5. ReportTypeOK'
    BY <1>1, <2>1, <2>4, TypeOK, TypeOKPrimed
  <2>6. RunKnows(e)'
    BY <1>1, <1>3, <2>1, <2>3, <2>4 DEF now, RunKnows, BeforeSending, Failures, Covers
  <2>7. /\ \A d \in Runs : d # e => RunKnows(d)'
        /\ \A r \in Retries : RetryKnows(r)'
    BY <1>1, <2>1, <2>4, <2>5, RunOthers
  <2>8. StampsDiffer'
    <3>1. \A d \in Runs : run[d].stamp \in Nat /\ run[d].stamp <= clock
      BY RowTypes DEF RunKnows
    <3>2. \A d \in Runs : d # e => run'[d].stamp # run'[e].stamp
      BY <2>1, <2>3, <2>4, <3>1 DEF now
    <3> QED
      BY <2>4, <3>2 DEF StampsDiffer
  <2>9. FiredOnce'
    BY <1>1, <2>3, <2>4 DEF FiredOnce
  <2>10. SuccessIsDelivered' /\ NewestRunIsBound'
    BY <1>1, <2>3, <2>4 DEF SuccessIsDelivered, NewestRunIsBound
  <2> QED
    BY <2>5, <2>6, <2>7, <2>8, <2>9, <2>10
<1> QED
  BY <1>2, <1>3 DEF Start

(* A newer start time takes the schedule away from every older run. *)
LEMMA MarkKeeps ==
    ASSUME ReportInv, NEW e \in Runs, Mark(e)
    PROVE  ReportInv'
<1> USE ReportConstants DEF ReportInv
<1> DEFINE last == IF run[e].stamp > summary.lastRun THEN run[e].stamp ELSE summary.lastRun
<1>1. /\ run[e].pc = "started" /\ run[e] \in RunRow /\ RunKnows(e) /\ Move(e, "compiling")
      /\ summary' = [summary EXCEPT !.lastRun = last]
      /\ UNCHANGED <<attached, edits, accepted, archive, retry, clock, requests, crashes, missing>>
  BY RowTypes DEF Mark
<1>2. /\ run' \in [Runs -> RunRow]
      /\ \A d \in Runs : d # e => run'[d] = run[d]
      /\ run'[e].pc = "compiling" /\ run'[e].fire = run[e].fire /\ run'[e].stamp = run[e].stamp
      /\ run'[e].ledger = run[e].ledger
  BY <1>1, MoveFacts, StepNames
<1>3. summary \in SummaryRow /\ last \in Nat /\ run[e].stamp \in Nat
  BY TypeOK, RowTypes DEF SummaryRow
<1>4. last \in {summary.lastRun, run[e].stamp}
  OBVIOUS
<1> HIDE DEF last
<1>5. /\ summary' \in SummaryRow /\ summary'.lastRun = last
      /\ summary'.bound = summary.bound /\ summary'.status = summary.status
  BY <1>1, <1>3 DEF SummaryRow
<1>6. ReportTypeOK'
  BY <1>1, <1>2, <1>5, TypeOK, TypeOKPrimed
<1>7. RunKnows(e)'
  BY <1>1, <1>2, <1>5 DEF RunKnows, HasStarted, BeforeSending, Failures, Covers
<1>8. /\ \A d \in Runs : d # e => RunKnows(d)'
      /\ \A r \in Retries : RetryKnows(r)'
  <2>1. clock <= clock' /\ accepted \subseteq accepted'
    BY <1>1, TypeOK
  <2> QED
    BY <1>1, <1>2, <1>5, <1>6, <2>1, RunOthers
<1>9. StampsDiffer' /\ FiredOnce'
  BY <1>1, <1>2 DEF StampsDiffer, FiredOnce
<1>10. SuccessIsDelivered'
  BY <1>1, <1>5 DEF SuccessIsDelivered
<1>11. NewestRunIsBound'
  <2>1. ASSUME NEW d \in Runs, run'[d].stamp # 0, run'[d].stamp = summary'.lastRun,
               run'[d].pc \in {"ledger", "done", "not_generated"}
        PROVE  summary'.bound = IF run'[d].pc # "not_generated" /\ run'[d].keep
                                THEN d ELSE NoRun
    <3>1. d # e /\ run'[d] = run[d]
      BY <1>2, <2>1
    <3>2. run[d].stamp = summary.lastRun
      BY <1>4, <1>5, <2>1, <3>1 DEF StampsDiffer
    <3> QED
      BY <1>5, <2>1, <3>1, <3>2 DEF NewestRunIsBound
  <2>2. summary'.bound # NoRun => archive'[summary'.bound].status = "success"
    BY <1>1, <1>5 DEF NewestRunIsBound
  <2> QED
    BY <2>1, <2>2 DEF NewestRunIsBound
<1> QED
  BY <1>6, <1>7, <1>8, <1>9, <1>10, <1>11

LEMMA SummarisedFacts ==
    ASSUME ReportTypeOK, NEW e \in Runs, NEW status \in Statuses, NEW bound \in {e, NoRun},
           summary' = Summarised(e, status, bound)
    PROVE  /\ summary' \in SummaryRow /\ summary'.lastRun = summary.lastRun
           /\ ~Newest(e) => summary' = summary
           /\ Newest(e) => summary'.status = status /\ summary'.bound = bound
BY TypeOK DEF SummaryRow, Summarised

(* A run that is not generated binds nothing. *)
LEMMA NotGeneratedKeeps ==
    ASSUME ReportInv, NEW e \in Runs, run[e].pc \in {"compiling", "storing"},
           Move(e, "not_generated"), summary' = Summarised(e, "not_generated", NoRun),
           archive' \in [Runs -> ArchiveRow],
           \A d \in Runs : d # e => archive'[d] = archive[d],
           archive'[e].token = archive[e].token, archive'[e].ledger = archive[e].ledger,
           UNCHANGED <<attached, edits, accepted, retry, clock, requests, crashes, missing>>
    PROVE  ReportInv'
<1> USE ReportConstants DEF ReportInv
<1>1. run[e] \in RunRow /\ RunKnows(e)
  BY RowTypes
<1>2. /\ run' \in [Runs -> RunRow]
      /\ \A d \in Runs : d # e => run'[d] = run[d]
      /\ run'[e].pc = "not_generated" /\ run'[e].fire = run[e].fire
      /\ run'[e].stamp = run[e].stamp /\ run'[e].ledger = run[e].ledger
  BY MoveFacts, StepNames
<1>3. /\ summary' \in SummaryRow /\ summary'.lastRun = summary.lastRun
      /\ ~Newest(e) => summary' = summary
      /\ Newest(e) => summary'.status = "not_generated" /\ summary'.bound = NoRun
  BY SummarisedFacts DEF Statuses
<1>4. ReportTypeOK'
  BY <1>2, <1>3, TypeOK, TypeOKPrimed
<1>5. summary'.bound # e /\ run[e].stamp # 0
  BY <1>1, <1>3 DEF RunKnows, HasStarted
<1>6. RunKnows(e)'
  BY <1>1, <1>2, <1>5 DEF RunKnows, HasStarted, BeforeSending, Failures, Covers
<1>7. run'[e].stamp = summary'.lastRun => summary'.bound = NoRun
  BY <1>2, <1>3 DEF Newest
<1> QED
  BY <1>2, <1>3, <1>4, <1>5, <1>6, <1>7, RunStepKeeps

LEMMA CompileKeeps ==
    ASSUME ReportInv, NEW e \in Runs, Compile(e)
    PROVE  ReportInv'
<1> USE ReportConstants DEF ReportInv
<1>1. /\ run[e].pc = "compiling" /\ run[e] \in RunRow /\ archive[e] \in ArchiveRow /\ RunKnows(e)
      /\ UNCHANGED <<attached, edits, accepted, retry, clock, requests, crashes, missing>>
  BY RowTypes DEF Compile
<1>2. CASE Move(e, "not_generated") /\ summary' = Summarised(e, "not_generated", NoRun)
           /\ UNCHANGED archive
  BY <1>1, <1>2, NotGeneratedKeeps, TypeOK
<1>3. CASE Move(e, "storing") /\ archive' = [archive EXCEPT ![e].status = "running"]
           /\ UNCHANGED summary
  <2> DEFINE new == [archive[e] EXCEPT !.status = "running"]
  <2>1. new \in ArchiveRow /\ new.token = archive[e].token /\ new.ledger = archive[e].ledger
    BY <1>1 DEF ArchiveRow
  <2>2. archive' = [archive EXCEPT ![e] = new]
    BY <1>3
  <2> HIDE DEF new
  <2>3. archive' \in [Runs -> ArchiveRow] /\ archive'[e] = new
        /\ \A d \in Runs : d # e => archive'[d] = archive[d]
    BY <2>1, <2>2, ArchiveSet
  <2>4. /\ run' \in [Runs -> RunRow]
        /\ \A d \in Runs : d # e => run'[d] = run[d]
        /\ run'[e].pc = "storing" /\ run'[e].fire = run[e].fire
        /\ run'[e].stamp = run[e].stamp /\ run'[e].ledger = run[e].ledger
    BY <1>3, MoveFacts, StepNames
  <2>5. ReportTypeOK'
    BY <1>1, <1>3, <2>3, <2>4, TypeOK, TypeOKPrimed
  <2>6. RunKnows(e)'
    BY <1>1, <1>3, <2>1, <2>3, <2>4 DEF RunKnows, HasStarted, BeforeSending, Failures, Covers
  <2> QED
    BY <1>1, <1>3, <2>1, <2>3, <2>4, <2>5, <2>6, RunStepKeeps
<1>4. CASE run' = [run EXCEPT ![e].pc = "email", ![e].keep = FALSE]
           /\ UNCHANGED <<summary, archive>>
  <2> DEFINE new == [run[e] EXCEPT !.pc = "email", !.keep = FALSE]
  <2>1. /\ new \in RunRow
        /\ new.pc = "email" /\ new.fire = run[e].fire /\ new.stamp = run[e].stamp
        /\ new.ledger = run[e].ledger
    BY <1>1 DEF RunRow, RunUnderWay
  <2>2. ~new.keep
    BY <1>1 DEF RunRow
  <2>3. run' = [run EXCEPT ![e] = new]
    BY <1>4
  <2> HIDE DEF new
  <2>4. run' \in [Runs -> RunRow] /\ run'[e] = new /\ \A d \in Runs : d # e => run'[d] = run[d]
    BY <2>1, <2>3, RunSet
  <2>5. ReportTypeOK'
    BY <1>1, <1>4, <2>4, TypeOK, TypeOKPrimed
  <2>6. RunKnows(e)'
    BY <1>1, <1>4, <2>1, <2>2, <2>4 DEF RunKnows, HasStarted, BeforeSending, Failures, Covers
  <2> QED
    BY <1>1, <1>4, <2>1, <2>4, <2>5, <2>6, RunStepKeeps
<1> QED
  BY <1>2, <1>3, <1>4 DEF Compile

LEMMA StoreKeeps ==
    ASSUME ReportInv, NEW e \in Runs, Store(e)
    PROVE  ReportInv'
<1> USE ReportConstants DEF ReportInv
<1>1. /\ run[e].pc = "storing" /\ archive[e] \in ArchiveRow /\ RunKnows(e)
      /\ UNCHANGED <<attached, edits, accepted, retry, clock, requests, crashes, missing>>
  BY RowTypes DEF Store
<1>2. ASSUME NEW status \in {"success", "failed"},
             archive' = [archive EXCEPT ![e].status = status]
      PROVE  /\ archive' \in [Runs -> ArchiveRow]
             /\ archive'[e].status = status /\ archive'[e].token = archive[e].token
             /\ archive'[e].ledger = archive[e].ledger
             /\ \A d \in Runs : d # e => archive'[d] = archive[d]
  <2> DEFINE new == [archive[e] EXCEPT !.status = status]
  <2>1. /\ new \in ArchiveRow /\ new.token = archive[e].token /\ new.ledger = archive[e].ledger
        /\ new.status = status
    BY <1>1 DEF ArchiveRow
  <2>2. archive' = [archive EXCEPT ![e] = new]
    BY <1>2
  <2> HIDE DEF new
  <2> QED
    BY <2>1, <2>2, ArchiveSet
<1>3. CASE archive' = [archive EXCEPT ![e].status = "success"] /\ Move(e, "email")
           /\ UNCHANGED summary
  <2>1. /\ run' \in [Runs -> RunRow]
        /\ \A d \in Runs : d # e => run'[d] = run[d]
        /\ run'[e].pc = "email" /\ run'[e].fire = run[e].fire
        /\ run'[e].stamp = run[e].stamp /\ run'[e].ledger = run[e].ledger
    BY <1>3, MoveFacts, StepNames
  <2>2. ReportTypeOK'
    BY <1>1, <1>2, <1>3, <2>1, TypeOK, TypeOKPrimed
  <2>3. RunKnows(e)'
    BY <1>1, <1>2, <1>3, <2>1 DEF RunKnows, HasStarted, BeforeSending, Failures, Covers
  <2> QED
    BY <1>1, <1>2, <1>3, <2>1, <2>2, <2>3, RunStepKeeps
<1>4. CASE archive' = [archive EXCEPT ![e].status = "failed"] /\ Move(e, "not_generated")
           /\ summary' = Summarised(e, "not_generated", NoRun)
  BY <1>1, <1>2, <1>4, NotGeneratedKeeps
<1> QED
  BY <1>3, <1>4 DEF Store

(* One send of a run: what failed is missing and is so in its ledger. *)
LEMMA SendKeeps ==
    ASSUME ReportInv, NEW e \in Runs, run[e].pc \in {"email", "channels"},
           NEW t \in Targets, NEW outcome \in {"ok", "failed"}, NEW todo \in SUBSET Channels,
           run[e].ledger[t] = "none", t \notin todo,
           run[e].pc = "channels" => todo \subseteq run[e].todo,
           run' = [run EXCEPT ![e].pc = "channels", ![e].todo = todo, ![e].ledger[t] = outcome],
           missing' = Attempted(e, t, outcome),
           UNCHANGED <<attached, edits, accepted, summary, archive, retry, clock, requests, crashes>>
    PROVE  ReportInv'
<1> USE ReportConstants DEF ReportInv
<1>1. run[e] \in RunRow /\ RunKnows(e) /\ run[e].ledger \in Ledgers
  BY RowTypes
<1> DEFINE ledger == [run[e].ledger EXCEPT ![t] = outcome]
           new == [run[e] EXCEPT !.pc = "channels", !.todo = todo, !.ledger = ledger]
<1>2. /\ ledger \in Ledgers /\ ledger[t] = outcome
      /\ \A u \in Targets : u # t => ledger[u] = run[e].ledger[u]
  BY <1>1, LedgerFacts DEF Outcomes, Ledgers
<1>3. run' = [run EXCEPT ![e] = new]
  <2>1. run \in [Runs -> RunRow]
    BY TypeOK
  <2> QED
    BY <1>1, <2>1 DEF RunRow
<1> HIDE DEF ledger
<1>4. /\ new \in RunRow
      /\ new.pc = "channels" /\ new.fire = run[e].fire /\ new.stamp = run[e].stamp
      /\ new.keep = run[e].keep /\ new.todo = todo /\ new.ledger = ledger
  BY <1>1, <1>2 DEF RunRow, RunUnderWay
<1> HIDE DEF new
<1>5. run' \in [Runs -> RunRow] /\ run'[e] = new /\ \A d \in Runs : d # e => run'[d] = run[d]
  BY <1>3, <1>4, RunSet
<1>6. /\ missing' \subseteq Runs \X Targets
      /\ \A d \in Runs, u \in Targets : d # e => (<<d, u>> \in missing' <=> <<d, u>> \in missing)
      /\ \A u \in Targets : <<e, u>> \in missing' => <<e, u>> \in missing \/ (u = t /\ outcome = "failed")
  BY TypeOK DEF Attempted
<1>7. ReportTypeOK'
  BY <1>5, <1>6, TypeOK, TypeOKPrimed
<1>8. \A u \in Targets : <<e, u>> \in missing => run[e].ledger[u] = "failed"
  BY <1>1 DEF RunKnows, BeforeSending, Covers
<1>9. \A u \in Targets : <<e, u>> \in missing' => ledger[u] = "failed"
  BY <1>2, <1>6, <1>8
<1>10. \A u \in todo : ledger[u] = "none"
  <2>1. \A u \in todo : u \in Targets /\ u # t /\ run[e].ledger[u] = "none"
    BY <1>1 DEF RunKnows, BeforeSending, Targets
  <2> QED
    BY <1>2, <2>1
<1>11. RunKnows(e)'
  <2>1. Failures(archive[e].ledger) = {} /\ summary.bound # e /\ run[e].stamp # 0
        /\ (run[e].keep => archive[e].status = "success")
    BY <1>1 DEF RunKnows, HasStarted
  <2>2. Covers(run[e].ledger, e)'
    BY <1>4, <1>5, <1>9 DEF Covers
  <2>3. Failures(archive[e].ledger)' = {}
    BY <2>1 DEF Failures
  <2>4. /\ run[e].fire # NoFire => run'[e].fire \in accepted'
        /\ run'[e].stamp <= clock' /\ run'[e].stamp # 0
        /\ run'[e].keep => archive'[e].status = "success"
        /\ run'[e].pc = "channels" /\ run'[e].fire = run[e].fire
    BY <1>1, <1>4, <1>5, <2>1 DEF RunKnows
  <2>5. \A u \in run'[e].todo : run'[e].ledger[u] = "none"
    BY <1>4, <1>5, <1>10
  <2> QED
    BY <2>1, <2>2, <2>3, <2>4, <2>5 DEF RunKnows, BeforeSending
<1> QED
  BY <1>4, <1>5, <1>6, <1>7, <1>11, RunStepKeeps

LEMMA SendEmailKeeps ==
    ASSUME ReportInv, NEW e \in Runs, SendEmail(e)
    PROVE  ReportInv'
<1>1. PICK outcome \in {"ok", "failed"} :
        /\ run' = [run EXCEPT ![e].pc = "channels", ![e].todo = attached,
                              ![e].ledger[Email] = outcome]
        /\ missing' = Attempted(e, Email, outcome)
  BY DEF SendEmail
<1>2. /\ run[e].pc = "email" /\ attached \subseteq Channels
      /\ UNCHANGED <<attached, edits, accepted, summary, archive, retry, clock, requests, crashes>>
  BY TypeOK DEF SendEmail, ReportInv
<1>3. Email \in Targets /\ Email \notin attached
  BY <1>2, ReportConstants DEF Targets
<1>4. run[e].ledger[Email] = "none"
  BY <1>2, <1>3 DEF ReportInv, RunKnows, BeforeSending
<1> QED
  BY <1>1, <1>2, <1>3, <1>4, SendKeeps

LEMMA SendChannelKeeps ==
    ASSUME ReportInv, NEW e \in Runs, SendChannel(e)
    PROVE  ReportInv'
<1> USE ReportConstants DEF ReportInv
<1>1. /\ run[e].pc = "channels" /\ RunKnows(e) /\ run[e] \in RunRow /\ run[e].todo \subseteq Channels
      /\ UNCHANGED <<attached, edits, accepted, summary, archive, retry, clock, requests, crashes>>
  BY RowTypes DEF SendChannel
<1>2. ASSUME NEW c \in run[e].todo, NEW outcome \in {"ok", "failed"},
             run' = [run EXCEPT ![e].todo = @ \ {c}, ![e].ledger[c] = outcome],
             missing' = Attempted(e, c, outcome)
      PROVE  ReportInv'
  <2> DEFINE todo == run[e].todo \ {c}
  <2>1. run' = [run EXCEPT ![e].pc = "channels", ![e].todo = todo, ![e].ledger[c] = outcome]
    <3>1. run \in [Runs -> RunRow]
      BY TypeOK
    <3>2. [run[e] EXCEPT !.todo = todo, !.ledger[c] = outcome]
              = [run[e] EXCEPT !.pc = "channels", !.todo = todo, !.ledger[c] = outcome]
      BY <1>1 DEF RunRow
    <3> QED
      BY <1>2, <3>1, <3>2
  <2>2. c \in Targets /\ run[e].ledger[c] = "none" /\ todo \in SUBSET Channels
        /\ todo \subseteq run[e].todo /\ c \notin todo
    BY <1>1 DEF RunKnows, Targets
  <2> HIDE DEF todo
  <2> QED
    BY <1>1, <1>2, <2>1, <2>2, SendKeeps
<1>3. CASE Move(e, "summary") /\ UNCHANGED missing
  <2>1. /\ run' \in [Runs -> RunRow]
        /\ \A d \in Runs : d # e => run'[d] = run[d]
        /\ run'[e].pc = "summary" /\ run'[e].fire = run[e].fire /\ run'[e].keep = run[e].keep
        /\ run'[e].stamp = run[e].stamp /\ run'[e].ledger = run[e].ledger
    BY <1>3, MoveFacts, StepNames
  <2>2. ReportTypeOK'
    BY <1>1, <1>3, <2>1, TypeOK, TypeOKPrimed
  <2>3. RunKnows(e)'
    BY <1>1, <1>3, <2>1 DEF RunKnows, HasStarted, BeforeSending, Failures, Covers
  <2> QED
    BY <1>1, <1>3, <2>1, <2>2, <2>3, RunStepKeeps
<1> QED
  BY <1>2, <1>3 DEF SendChannel

(* The end of a run forgets its ledger. *)
LEMMA DoneFacts ==
    ASSUME ReportTypeOK, NEW e \in Runs,
           run' = [run EXCEPT ![e].pc = "done", ![e].ledger = EmptyLedger]
    PROVE  /\ run' \in [Runs -> RunRow]
           /\ \A d \in Runs : d # e => run'[d] = run[d]
           /\ run'[e].pc = "done" /\ run'[e].fire = run[e].fire /\ run'[e].stamp = run[e].stamp
           /\ run'[e].keep = run[e].keep
<1> DEFINE new == [run[e] EXCEPT !.pc = "done", !.ledger = EmptyLedger]
<1>1. run[e] \in RunRow
  BY RowTypes
<1>2. /\ new \in RunRow /\ new.pc = "done" /\ new.fire = run[e].fire
      /\ new.stamp = run[e].stamp /\ new.keep = run[e].keep
  BY <1>1, LedgerFacts DEF RunRow, RunEnded
<1>3. run' = [run EXCEPT ![e] = new]
  OBVIOUS
<1> HIDE DEF new
<1> QED
  BY <1>2, <1>3, RunSet

(* The summary says success only when the ledger has no failure, and then   *)
(* nothing is missing.                                                      *)
LEMMA WriteSummaryKeeps ==
    ASSUME ReportInv, NEW e \in Runs, WriteSummary(e)
    PROVE  ReportInv'
<1> USE ReportConstants DEF ReportInv
<1> DEFINE bound == IF run[e].keep THEN e ELSE NoRun
           status == DeliveryStatus(run[e].ledger)
<1>1. /\ run[e].pc = "summary" /\ RunKnows(e) /\ run[e] \in RunRow
      /\ summary' = Summarised(e, status, bound)
      /\ UNCHANGED <<attached, edits, accepted, archive, retry, clock, requests, crashes, missing>>
  BY RowTypes DEF WriteSummary
<1>2. /\ run' \in [Runs -> RunRow]
      /\ \A d \in Runs : d # e => run'[d] = run[d]
      /\ run'[e].fire = run[e].fire /\ run'[e].stamp = run[e].stamp /\ run'[e].keep = run[e].keep
      /\ \/ run[e].keep /\ run'[e].pc = "ledger" /\ run'[e].ledger = run[e].ledger
         \/ ~run[e].keep /\ run'[e].pc = "done"
  <2>1. CASE run[e].keep
    BY <2>1, MoveFacts, StepNames DEF WriteSummary
  <2>2. CASE ~run[e].keep
    BY <2>2, DoneFacts DEF WriteSummary
  <2> QED
    BY <2>1, <2>2
<1>3. status \in Statuses /\ bound \in {e, NoRun}
      /\ (status = "success" => \A t \in Targets : <<e, t>> \notin missing)
  BY <1>1, LedgerFacts DEF RunKnows, Covers
<1> HIDE DEF status
<1>4. /\ summary' \in SummaryRow /\ summary'.lastRun = summary.lastRun
      /\ ~Newest(e) => summary' = summary
      /\ Newest(e) => summary'.status = status /\ summary'.bound = bound
  BY <1>1, <1>3, SummarisedFacts
<1>5. ReportTypeOK'
  BY <1>1, <1>2, <1>4, TypeOK, TypeOKPrimed
<1>6. run[e].stamp # 0 /\ summary.bound # e /\ (run[e].keep => archive[e].status = "success")
      /\ Covers(run[e].ledger, e) /\ Failures(archive[e].ledger) = {}
  BY <1>1 DEF RunKnows, HasStarted
<1>7. RunKnows(e)'
  <2>1. summary'.bound = e => run'[e].pc = "ledger" /\ archive'[e].status = "success"
    BY <1>1, <1>2, <1>4, <1>6
  <2>2. run'[e].pc = "ledger" => Covers(run[e].ledger, e)'
    BY <1>1, <1>2, <1>6 DEF Covers
  <2>3. Failures(archive[e].ledger)' = {}
    BY <1>1, <1>6 DEF Failures
  <2>4. /\ run'[e].fire # NoFire => run'[e].fire \in accepted'
        /\ run'[e].stamp <= clock' /\ run'[e].stamp # 0
        /\ run'[e].pc = "ledger" /\ run'[e].keep => archive'[e].status = "success"
        /\ run'[e].pc \in {"ledger", "done"}
    BY <1>1, <1>2, <1>6 DEF RunKnows
  <2> QED
    BY <2>1, <2>2, <2>3, <2>4 DEF RunKnows, BeforeSending
<1>8. run'[e].stamp = summary'.lastRun
        => summary'.bound = IF run'[e].pc # "not_generated" /\ run'[e].keep THEN e ELSE NoRun
  BY <1>2, <1>4 DEF Newest
<1>9. \/ summary' = summary
      \/ /\ Newest(e) /\ run[e].stamp # 0
         /\ summary'.lastRun = summary.lastRun /\ summary'.bound \in {e, NoRun}
         /\ summary'.status = "success" /\ summary'.bound = e
               => \A t \in Targets : <<e, t>> \notin missing'
  BY <1>1, <1>3, <1>4, <1>6
<1> HIDE DEF bound
<1> QED
  BY <1>1, <1>2, <1>5, <1>7, <1>8, <1>9, RunStepKeeps

LEMMA WriteLedgerKeeps ==
    ASSUME ReportInv, NEW e \in Runs, WriteLedger(e)
    PROVE  ReportInv'
<1> USE ReportConstants DEF ReportInv
<1>1. /\ run[e].pc = "ledger" /\ RunKnows(e) /\ run[e].ledger \in Ledgers
      /\ archive[e] \in ArchiveRow
      /\ archive' = [archive EXCEPT ![e].ledger = run[e].ledger]
      /\ run' = [run EXCEPT ![e].pc = "done", ![e].ledger = EmptyLedger]
      /\ UNCHANGED <<attached, edits, accepted, summary, retry, clock, requests, crashes, missing>>
  BY RowTypes DEF WriteLedger
<1>2. /\ run' \in [Runs -> RunRow]
      /\ \A d \in Runs : d # e => run'[d] = run[d]
      /\ run'[e].pc = "done" /\ run'[e].fire = run[e].fire /\ run'[e].stamp = run[e].stamp
      /\ run'[e].keep = run[e].keep
  BY <1>1, DoneFacts
<1>3. /\ archive' \in [Runs -> ArchiveRow]
      /\ \A d \in Runs : d # e => archive'[d] = archive[d]
      /\ archive'[e].status = archive[e].status /\ archive'[e].token = archive[e].token
      /\ archive'[e].ledger = run[e].ledger
  <2> DEFINE new == [archive[e] EXCEPT !.ledger = run[e].ledger]
  <2>1. /\ new \in ArchiveRow /\ new.token = archive[e].token /\ new.ledger = run[e].ledger
        /\ new.status = archive[e].status
    BY <1>1 DEF ArchiveRow
  <2>2. archive' = [archive EXCEPT ![e] = new]
    BY <1>1
  <2> HIDE DEF new
  <2> QED
    BY <2>1, <2>2, ArchiveSet
<1>4. ReportTypeOK'
  BY <1>1, <1>2, <1>3, TypeOK, TypeOKPrimed
<1>5. RunKnows(e)'
  <2>1. Covers(archive[e].ledger, e)'
    BY <1>1, <1>3 DEF RunKnows, Covers
  <2> QED
    BY <1>1, <1>2, <1>3, <2>1 DEF RunKnows, HasStarted, BeforeSending
<1>6. run'[e].stamp # 0 /\ run'[e].stamp = summary'.lastRun
        => summary'.bound = IF run'[e].pc # "not_generated" /\ run'[e].keep THEN e ELSE NoRun
  BY <1>1, <1>2 DEF NewestRunIsBound
<1> QED
  BY <1>1, <1>2, <1>3, <1>4, <1>5, <1>6, RunStepKeeps

LEMMA RunCrashKeeps ==
    ASSUME ReportInv, NEW e \in Runs, RunCrash(e)
    PROVE  ReportInv'
<1> USE ReportConstants DEF ReportInv
<1> DEFINE new == [run[e] EXCEPT !.pc = "dead", !.todo = {}, !.ledger = EmptyLedger]
<1>1. /\ run[e].pc \in RunUnderWay /\ RunKnows(e) /\ run[e] \in RunRow
      /\ crashes' \in 0 .. MaxCrashes /\ run' = [run EXCEPT ![e] = new]
      /\ UNCHANGED <<attached, edits, accepted, summary, archive, retry, clock, requests, missing>>
  <2>1. crashes \in 0 .. MaxCrashes /\ run[e] \in RunRow
    BY RowTypes, TypeOK
  <2>2. crashes < MaxCrashes /\ crashes' = crashes + 1
    BY DEF RunCrash
  <2>3. crashes' \in 0 .. MaxCrashes
    BY <2>1, <2>2
  <2> QED
    BY <2>1, <2>3 DEF RunCrash
<1>2. new \in RunRow /\ new.pc = "dead" /\ new.fire = run[e].fire /\ new.stamp = run[e].stamp
  BY <1>1, LedgerFacts DEF RunRow, RunEnded
<1> HIDE DEF new
<1>3. run' \in [Runs -> RunRow] /\ run'[e] = new /\ \A d \in Runs : d # e => run'[d] = run[d]
  BY <1>1, <1>2, RunSet
<1>4. ReportTypeOK'
  BY <1>1, <1>3, TypeOK, TypeOKPrimed
<1>5. run[e].pc \notin {"idle", "done"}
  BY <1>1, StepNames
<1>6. RunKnows(e)'
  <2>1. Failures(archive[e].ledger)' = {}
    BY <1>1, <1>5 DEF RunKnows, Failures
  <2> QED
    BY <1>1, <1>2, <1>3, <1>5, <2>1 DEF RunKnows, HasStarted, BeforeSending
<1> QED
  BY <1>1, <1>2, <1>3, <1>4, <1>5, <1>6, RunStepKeeps
-----------------------------------------------------------------------------
LEMMA RetrySet ==
    ASSUME ReportTypeOK, NEW r \in Retries, NEW new \in RetryRow, retry' = [retry EXCEPT ![r] = new]
    PROVE  retry' \in [Retries -> RetryRow] /\ retry'[r] = new
           /\ \A q \in Retries : q # r => retry'[q] = retry[q]
BY TypeOK

(* A step of no run: a retry r, the lease of an archive or an edit.  Runs   *)
(* stay, what was missing may be made up for, a ledger is replaced by one   *)
(* that covers what is missing, and nobody but r gets a claim.              *)
LEMMA RetryStepKeeps ==
    ASSUME ReportInv, NEW r \in Retries \cup {NoRetry}, ReportTypeOK',
           UNCHANGED <<run, accepted, clock>>, missing' \subseteq missing,
           \A q \in Retries : q # r => retry'[q] = retry[q],
           \A e \in Runs :
               /\ archive'[e].status = archive[e].status
               /\ \/ archive'[e].ledger = archive[e].ledger
                  \/ run[e].pc = "done" /\ Covers(archive[e].ledger, e)'
               /\ \A q \in Retries : q # r /\ archive'[e].token = q => archive[e].token = q,
           summary'.bound = summary.bound, summary'.lastRun = summary.lastRun,
           \/ summary'.status = summary.status
           \/ summary'.status = "success" /\ summary'.bound # NoRun
                 => \A t \in Targets : <<summary'.bound, t>> \notin missing',
           r \in Retries => RetryKnows(r)'
    PROVE  ReportInv'
<1> USE ReportConstants DEF ReportInv
<1>1. ASSUME NEW e \in Runs
      PROVE  RunKnows(e)'
  <2>1. RunKnows(e) /\ run'[e] = run[e]
    OBVIOUS
  <2>2. /\ run[e].pc \in {"channels", "summary", "ledger"} => Covers(run[e].ledger, e)'
        /\ Failures(archive'[e].ledger) # {} => run[e].pc = "done" /\ Covers(archive[e].ledger, e)'
    BY <2>1 DEF RunKnows, Covers, Failures
  <2>3. run[e].pc \in BeforeSending =>
          \A t \in Targets : run[e].ledger[t] = "none" /\ <<e, t>> \notin missing'
    BY <2>1 DEF RunKnows
  <2> QED
    BY <2>1, <2>2, <2>3 DEF RunKnows
<1>2. ASSUME NEW q \in Retries
      PROVE  RetryKnows(q)'
  <2>1. CASE q = r
    BY <2>1
  <2>2. CASE q # r
    BY <2>2 DEF RetryKnows, Covers
  <2> QED
    BY <2>1, <2>2
<1>3. StampsDiffer' /\ FiredOnce'
  BY DEF StampsDiffer, FiredOnce
<1>4. NewestRunIsBound'
  <2>1. summary.bound \in Runs \cup {NoRun}
    BY TypeOK DEF SummaryRow
  <2> QED
    BY <2>1 DEF NewestRunIsBound
<1>5. SuccessIsDelivered'
  BY DEF SuccessIsDelivered
<1> QED
  BY <1>1, <1>2, <1>3, <1>4, <1>5

LEMMA EditChannelsKeeps == ReportInv /\ EditChannels => ReportInv'
<1> SUFFICES ASSUME ReportInv, EditChannels PROVE ReportInv'
  OBVIOUS
<1> USE DEF ReportInv
<1>1. UNCHANGED <<accepted, summary, run, archive, retry, clock, requests, crashes, missing>>
  BY DEF EditChannels
<1>2. edits' \in 0 .. MaxEdits
  <2>1. edits \in 0 .. MaxEdits /\ edits < MaxEdits /\ edits' = edits + 1
    BY TypeOK DEF EditChannels
  <2> QED
    BY <2>1, ReportConstants
<1>3. attached' \subseteq Channels
  BY TypeOK DEF EditChannels
<1>4. ReportTypeOK'
  BY <1>1, <1>2, <1>3, TypeOK, TypeOKPrimed
<1> QED
  BY <1>1, <1>4, RetryStepKeeps, ReportConstants

LEMMA LeaseRunsOutKeeps ==
    ASSUME ReportInv, NEW e \in Runs, LeaseRunsOut(e)
    PROVE  ReportInv'
<1> USE DEF ReportInv
<1> DEFINE new == [archive[e] EXCEPT !.live = FALSE]
<1>1. /\ archive' = [archive EXCEPT ![e] = new] /\ archive[e] \in ArchiveRow
      /\ UNCHANGED <<attached, edits, accepted, summary, run, retry, clock, requests, crashes, missing>>
  BY RowTypes DEF LeaseRunsOut
<1>2. /\ new \in ArchiveRow /\ new.token = archive[e].token /\ new.ledger = archive[e].ledger
      /\ new.status = archive[e].status
  BY <1>1 DEF ArchiveRow
<1> HIDE DEF new
<1>3. archive' \in [Runs -> ArchiveRow] /\ archive'[e] = new
      /\ \A d \in Runs : d # e => archive'[d] = archive[d]
  BY <1>1, <1>2, ArchiveSet
<1>4. ReportTypeOK'
  BY <1>1, <1>3, TypeOK, TypeOKPrimed
<1>5. \A d \in Runs : /\ archive'[d].status = archive[d].status
                      /\ archive'[d].ledger = archive[d].ledger
                      /\ archive'[d].token = archive[d].token
  BY <1>2, <1>3
<1> QED
  BY <1>1, <1>4, <1>5, RetryStepKeeps, ReportConstants

(* A request that only reads, moves on or is answered. *)
LEMMA QuietRetryKeeps ==
    ASSUME ReportInv, NEW r \in Retries, NEW new \in RetryRow, retry' = [retry EXCEPT ![r] = new],
           requests' \in 0 .. MaxRequests, crashes' \in 0 .. MaxCrashes,
           UNCHANGED <<attached, edits, accepted, summary, run, archive, clock, missing>>,
           new.pc \notin {"idle", "open"} =>
               /\ new.of \in Runs /\ run[new.of].pc = "done" /\ Covers(new.ledger, new.of),
           new.late # 0 =>
               /\ new.late = 1 /\ new.pc \in {"renew", "complete"}
               /\ archive[new.of].token # r
    PROVE  ReportInv'
<1> USE DEF ReportInv
<1>1. retry' \in [Retries -> RetryRow] /\ retry'[r] = new
      /\ \A q \in Retries : q # r => retry'[q] = retry[q]
  BY RetrySet
<1>2. ReportTypeOK'
  BY <1>1, TypeOK, TypeOKPrimed
<1>3. RetryKnows(r)'
  BY <1>1 DEF RetryKnows, Covers
<1> QED
  BY <1>1, <1>2, <1>3, RetryStepKeeps

LEMMA NoRequestFacts ==
    NoRequest \in RetryRow /\ NoRequest.pc = "idle" /\ NoRequest.late = 0
BY LedgerFacts DEF NoRequest, RetryRow, RetrySteps, Statuses

LEMMA EndRequestKeeps ==
    ASSUME ReportInv, NEW r \in Retries, EndRequest(r),
           requests' \in 0 .. MaxRequests, crashes' \in 0 .. MaxCrashes,
           UNCHANGED <<attached, edits, accepted, summary, run, archive, clock, missing>>
    PROVE  ReportInv'
BY NoRequestFacts, QuietRetryKeeps DEF EndRequest

LEMMA RetryTypes ==
    ASSUME ReportInv, NEW r \in Retries
    PROVE  /\ retry[r] \in RetryRow /\ RetryKnows(r)
           /\ requests \in 0 .. MaxRequests /\ crashes \in 0 .. MaxCrashes
           /\ summary \in SummaryRow
BY TypeOK DEF ReportInv

LEMMA RetryOpenKeeps ==
    ASSUME ReportInv, NEW r \in Retries, RetryOpen(r)
    PROVE  ReportInv'
<1> DEFINE new == [retry[r] EXCEPT !.pc = "open", !.seen = summary.status]
<1>1. /\ retry[r].pc = "idle" /\ requests < MaxRequests /\ requests' = requests + 1
      /\ retry' = [retry EXCEPT ![r] = new]
      /\ UNCHANGED <<attached, edits, accepted, summary, run, archive, clock, crashes, missing>>
  BY DEF RetryOpen
<1>2. requests' \in 0 .. MaxRequests /\ crashes' \in 0 .. MaxCrashes
  BY <1>1, RetryTypes, ReportConstants
<1>3. retry[r] \in RetryRow /\ summary.status \in Statuses /\ RetryKnows(r)
  BY RetryTypes DEF SummaryRow
<1>4. new \in RetryRow /\ new.pc = "open" /\ new.late = retry[r].late
  BY <1>3 DEF RetryRow, RetrySteps
<1>5. retry[r].late = 0
  BY <1>1, <1>3 DEF RetryKnows
<1> HIDE DEF new
<1> QED
  BY <1>1, <1>2, <1>4, <1>5, QuietRetryKeeps

(* Only the archive of a run that is done has failures. *)
LEMMA RetryReadKeeps ==
    ASSUME ReportInv, NEW r \in Retries, RetryRead(r)
    PROVE  ReportInv'
<1> DEFINE e == summary.bound
           new == [retry[r] EXCEPT !.pc = "read", !.of = e,
                                   !.todo = Failures(archive[e].ledger),
                                   !.ledger = archive[e].ledger]
<1>1. /\ retry[r].pc = "open" /\ requests' \in 0 .. MaxRequests /\ crashes' \in 0 .. MaxCrashes
      /\ UNCHANGED <<attached, edits, accepted, summary, run, archive, clock, missing>>
  BY RetryTypes DEF RetryRead
<1>2. CASE EndRequest(r)
  BY <1>1, <1>2, EndRequestKeeps
<1>3. CASE ~EndRequest(r)
  <2>1. /\ e # NoRun /\ Failures(archive[e].ledger) # {} /\ retry' = [retry EXCEPT ![r] = new]
    BY <1>3 DEF RetryRead
  <2>2. retry[r] \in RetryRow /\ RetryKnows(r) /\ e \in Runs
    BY <2>1, RetryTypes DEF SummaryRow
  <2>3. RunKnows(e) /\ archive[e].ledger \in Ledgers /\ Failures(archive[e].ledger) \subseteq Targets
    BY <2>2, TypeOK DEF ReportInv, ArchiveRow, Failures
  <2>4. run[e].pc = "done" /\ Covers(archive[e].ledger, e) /\ retry[r].late = 0
    BY <1>1, <2>1, <2>2, <2>3 DEF RunKnows, RetryKnows
  <2> HIDE DEF e
  <2>5. /\ new \in RetryRow /\ new.pc = "read" /\ new.of = e /\ new.ledger = archive[e].ledger
        /\ new.late = retry[r].late
    BY <2>2, <2>3 DEF RetryRow, RetrySteps
  <2> HIDE DEF new
  <2> QED
    BY <1>1, <2>1, <2>2, <2>4, <2>5, QuietRetryKeeps
<1> QED
  BY <1>2, <1>3

LEMMA RetryMoveFacts ==
    ASSUME ReportTypeOK, NEW r \in Retries, NEW to \in RetrySteps, RetryMove(r, to)
    PROVE  /\ retry' \in [Retries -> RetryRow]
           /\ \A q \in Retries : q # r => retry'[q] = retry[q]
           /\ retry'[r].pc = to /\ retry'[r].of = retry[r].of /\ retry'[r].late = retry[r].late
           /\ retry'[r].ledger = retry[r].ledger
<1> DEFINE new == [retry[r] EXCEPT !.pc = to]
<1>1. retry[r] \in RetryRow
  BY TypeOK
<1>2. /\ new \in RetryRow
      /\ new.pc = to /\ new.of = retry[r].of /\ new.late = retry[r].late
      /\ new.ledger = retry[r].ledger
  BY <1>1 DEF RetryRow
<1>3. retry' = [retry EXCEPT ![r] = new]
  BY DEF RetryMove
<1> HIDE DEF new
<1> QED
  BY <1>2, <1>3, RetrySet

(* A claim that is renewed or taken by r from nobody or from one whose      *)
(* lease ran out.                                                           *)
LEMMA ClaimKeeps ==
    ASSUME ReportInv, NEW r \in Retries, retry[r].pc \in {"read", "renew"},
           NEW token \in Retries, token = r \/ token = archive[retry[r].of].token,
           NEW to \in {"renew", "send"}, RetryMove(r, to),
           retry[r].late = 0,
           archive' = [archive EXCEPT ![retry[r].of].token = token, ![retry[r].of].live = TRUE],
           UNCHANGED <<attached, edits, accepted, summary, run, clock, requests, crashes, missing>>
    PROVE  ReportInv'
<1> USE DEF ReportInv
<1> DEFINE e == retry[r].of
           new == [archive[e] EXCEPT !.token = token, !.live = TRUE]
<1>1. e \in Runs /\ archive[e] \in ArchiveRow /\ RetryKnows(r)
  BY RowTypes DEF RetryKnows
<1>2. archive' = [archive EXCEPT ![e] = new]
  OBVIOUS
<1>3. /\ retry' \in [Retries -> RetryRow]
      /\ \A q \in Retries : q # r => retry'[q] = retry[q]
      /\ retry'[r].pc = to /\ retry'[r].of = e /\ retry'[r].late = 0
      /\ retry'[r].ledger = retry[r].ledger
  BY RetryMoveFacts DEF RetrySteps
<1>4. token = r \/ token = archive[e].token
  OBVIOUS
<1> HIDE DEF e
<1>5. /\ new \in ArchiveRow /\ new.token = token /\ new.ledger = archive[e].ledger
      /\ new.status = archive[e].status
  BY <1>1 DEF ArchiveRow
<1> HIDE DEF new
<1>6. archive' \in [Runs -> ArchiveRow] /\ archive'[e] = new
      /\ \A d \in Runs : d # e => archive'[d] = archive[d]
  BY <1>1, <1>2, <1>5, ArchiveSet
<1>7. ReportTypeOK'
  BY <1>3, <1>6, TypeOK, TypeOKPrimed
<1>8. RetryKnows(r)'
  <2>1. run[e].pc = "done" /\ Covers(retry[r].ledger, e)
    BY <1>1 DEF RetryKnows, e
  <2>2. Covers(retry[r].ledger, retry[r].of)'
    BY <1>3, <2>1 DEF Covers
  <2> QED
    BY <1>1, <1>3, <2>1, <2>2 DEF RetryKnows
<1>9. \A d \in Runs :
         /\ archive'[d].status = archive[d].status /\ archive'[d].ledger = archive[d].ledger
         /\ \A q \in Retries : q # r /\ archive'[d].token = q => archive[d].token = q
  BY <1>4, <1>5, <1>6
<1>10. /\ UNCHANGED <<run, accepted, clock, summary>> /\ missing' \subseteq missing
       /\ r \in Retries \cup {NoRetry}
       /\ \A q \in Retries : q # r => retry'[q] = retry[q]
  BY <1>3
<1>11. ReportInv
  OBVIOUS
<1> HIDE DEF ReportInv
<1> QED
  BY ONLY <1>7, <1>8, <1>9, <1>10, <1>11, RetryStepKeeps

LEMMA RetryClaimKeeps ==
    ASSUME ReportInv, NEW r \in Retries, RetryClaim(r)
    PROVE  ReportInv'
<1>1. /\ retry[r].pc = "read" /\ RetryKnows(r)
      /\ requests' \in 0 .. MaxRequests /\ crashes' \in 0 .. MaxCrashes
      /\ UNCHANGED <<attached, edits, accepted, summary, run, clock, requests, crashes, missing>>
  BY RetryTypes DEF RetryClaim
<1>2. CASE archive[retry[r].of].live
  BY <1>1, <1>2, EndRequestKeeps DEF RetryClaim
<1>3. CASE ~archive[retry[r].of].live
  <2>1. /\ archive' = [archive EXCEPT ![retry[r].of].token = r, ![retry[r].of].live = TRUE]
        /\ RetryMove(r, "renew")
    BY <1>3 DEF RetryClaim
  <2>2. retry[r].late = 0
    BY <1>1 DEF RetryKnows
  <2> QED
    BY <1>1, <2>1, <2>2, ClaimKeeps
<1> QED
  BY <1>2, <1>3

(* The fan-out goes on only with the claim, and then no send was late. *)
LEMMA RetryRenewKeeps ==
    ASSUME ReportInv, NEW r \in Retries, RetryRenew(r)
    PROVE  ReportInv'
<1> USE DEF ReportInv
<1>1. /\ retry[r].pc = "renew" /\ RetryKnows(r)
      /\ requests' \in 0 .. MaxRequests /\ crashes' \in 0 .. MaxCrashes
      /\ UNCHANGED <<attached, edits, accepted, summary, run, clock, requests, crashes, missing>>
  BY RetryTypes DEF RetryRenew
<1>2. retry[r].of \in Runs /\ run[retry[r].of].pc = "done" /\ Covers(retry[r].ledger, retry[r].of)
  BY <1>1 DEF RetryKnows
<1>3. CASE retry[r].todo # {} /\ OwnsClaim(r)
  <2>1. /\ archive' = [archive EXCEPT ![retry[r].of].live = TRUE] /\ RetryMove(r, "send")
        /\ archive[retry[r].of].token = r
    BY <1>3 DEF RetryRenew, OwnsClaim
  <2>2. retry[r].late = 0
    BY <1>1, <2>1 DEF RetryKnows
  <2>3. archive' = [archive EXCEPT ![retry[r].of].token = r, ![retry[r].of].live = TRUE]
    <3> DEFINE e == retry[r].of
    <3>1. archive \in [Runs -> ArchiveRow] /\ archive[e] \in ArchiveRow
      BY <1>2, TypeOK
    <3>2. [archive[e] EXCEPT !.live = TRUE] = [archive[e] EXCEPT !.token = r, !.live = TRUE]
      BY <2>1, <3>1 DEF ArchiveRow
    <3> QED
      BY <1>2, <2>1, <3>1, <3>2
  <2> QED
    BY <1>1, <2>1, <2>2, <2>3, ClaimKeeps
<1>4. CASE ~(retry[r].todo # {} /\ OwnsClaim(r))
  <2>1. RetryMove(r, "complete") /\ UNCHANGED archive
    BY <1>4 DEF RetryRenew
  <2> DEFINE new == [retry[r] EXCEPT !.pc = "complete"]
  <2>2. retry[r] \in RetryRow /\ retry' = [retry EXCEPT ![r] = new]
    BY <2>1, TypeOK DEF RetryMove
  <2>3. /\ new \in RetryRow /\ new.pc = "complete" /\ new.of = retry[r].of
        /\ new.ledger = retry[r].ledger /\ new.late = retry[r].late
    BY <2>2 DEF RetryRow, RetrySteps
  <2>4. retry[r].late # 0 => retry[r].late = 1 /\ archive[retry[r].of].token # r
    BY <1>1 DEF RetryKnows
  <2> HIDE DEF new
  <2> QED
    BY <1>1, <1>2, <2>1, <2>2, <2>3, <2>4, QuietRetryKeeps
<1> QED
  BY <1>3, <1>4

(* One send: what it reached is no longer missing, what it did not reach is *)
(* failed in the ledger.  It is late only when the claim was lost since the *)
(* renewal just before, so it is the first late one.                        *)
LEMMA RetrySendKeeps ==
    ASSUME ReportInv, NEW r \in Retries, RetrySend(r)
    PROVE  ReportInv'
<1> USE DEF ReportInv
<1>1. /\ retry[r].pc = "send" /\ RetryKnows(r) /\ retry[r] \in RetryRow
      /\ UNCHANGED <<attached, edits, accepted, summary, run, archive, clock, requests, crashes>>
  BY RetryTypes DEF RetrySend
<1>2. PICK t \in retry[r].todo, outcome \in {"ok", "failed"} :
          /\ retry' = [retry EXCEPT
                ![r].pc = "renew", ![r].todo = @ \ {t}, ![r].ledger[t] = outcome,
                ![r].late = IF Contactable(t) /\ archive[retry[r].of].token # r
                            THEN @ + 1 ELSE @]
          /\ missing' = MadeUp(retry[r].of, t, outcome)
  BY DEF RetrySend
<1> DEFINE e == retry[r].of
           ledger == [retry[r].ledger EXCEPT ![t] = outcome]
           todo == retry[r].todo \ {t}
           late == IF Contactable(t) /\ archive[e].token # r
                   THEN retry[r].late + 1 ELSE retry[r].late
           new == [retry[r] EXCEPT !.pc = "renew", !.todo = todo, !.ledger = ledger, !.late = late]
<1>3. /\ e \in Runs /\ run[e].pc = "done" /\ Covers(retry[r].ledger, e) /\ retry[r].late = 0
      /\ t \in Targets /\ retry[r].ledger \in Ledgers /\ retry[r].todo \subseteq Targets
  BY <1>1, <1>2 DEF RetryKnows, RetryRow
<1>4. ledger \in Ledgers
  BY <1>3, LedgerFacts DEF Outcomes
<1>5. late \in Nat /\ (late # 0 => late = 1 /\ archive[e].token # r)
  BY <1>3
<1>6. todo \subseteq Targets
  BY <1>3
<1>7. retry' = [retry EXCEPT ![r] = new]
  <2>1. retry \in [Retries -> RetryRow]
    BY TypeOK
  <2> QED
    BY <1>2, <2>1
<1>8. missing' \subseteq missing /\ (outcome = "ok" => <<e, t>> \notin missing')
  BY <1>2 DEF MadeUp
<1>9. \A u \in Targets : <<e, u>> \in missing' => ledger[u] = "failed"
  <2>1. ASSUME NEW u \in Targets, <<e, u>> \in missing'
        PROVE  ledger[u] = "failed"
    <3>1. CASE u = t
      BY <1>3, <1>8, <2>1, <3>1 DEF Ledgers
    <3>2. CASE u # t
      BY <1>3, <1>8, <2>1, <3>2 DEF Ledgers, Covers
    <3> QED
      BY <3>1, <3>2
  <2> QED
    BY <2>1
<1> HIDE DEF e, ledger, todo, late
<1>10. /\ new \in RetryRow /\ new.pc = "renew" /\ new.of = retry[r].of
       /\ new.ledger = ledger /\ new.late = late
  BY <1>1, <1>4, <1>5, <1>6 DEF RetryRow, RetrySteps
<1> HIDE DEF new
<1>11. retry' \in [Retries -> RetryRow] /\ retry'[r] = new
       /\ \A q \in Retries : q # r => retry'[q] = retry[q]
  BY <1>7, <1>10, RetrySet
<1>12. ReportTypeOK'
  BY <1>1, <1>8, <1>11, TypeOK, TypeOKPrimed
<1>13. RetryKnows(r)'
  <2>1. new.of = e
    BY <1>10 DEF e
  <2>2. Covers(retry[r].ledger, retry[r].of)'
    BY <1>9, <1>10, <1>11, <2>1 DEF Covers
  <2> QED
    BY <1>1, <1>3, <1>5, <1>10, <1>11, <2>1, <2>2 DEF RetryKnows
<1>14. /\ UNCHANGED <<run, accepted, clock, summary, archive>>
       /\ r \in Retries \cup {NoRetry} /\ ReportInv
  BY <1>1
<1> HIDE DEF ReportInv
<1> QED
  BY ONLY <1>8, <1>11, <1>12, <1>13, <1>14, RetryStepKeeps

(* The ledger replaces the one of the archive, which the retry still owns;  *)
(* it covers what is missing.                                               *)
LEMMA RetryCompleteKeeps ==
    ASSUME ReportInv, NEW r \in Retries, RetryComplete(r)
    PROVE  ReportInv'
<1> USE DEF ReportInv
<1>1. /\ retry[r].pc = "complete" /\ RetryKnows(r) /\ retry[r] \in RetryRow
      /\ requests' \in 0 .. MaxRequests /\ crashes' \in 0 .. MaxCrashes
      /\ UNCHANGED <<attached, edits, accepted, summary, run, clock, requests, crashes, missing>>
  BY RetryTypes DEF RetryComplete
<1>2. CASE ~OwnsClaim(r)
  BY <1>1, <1>2, EndRequestKeeps DEF RetryComplete
<1>3. CASE OwnsClaim(r)
  <2> DEFINE e == retry[r].of
             new == [archive[e] EXCEPT !.ledger = retry[r].ledger, !.token = NoRetry, !.live = FALSE]
  <2>1. /\ archive' = [archive EXCEPT ![e].ledger = retry[r].ledger,
                                      ![e].token = NoRetry, ![e].live = FALSE]
        /\ RetryMove(r, "status") \/ EndRequest(r)
    BY <1>3 DEF RetryComplete
  <2>2. /\ e \in Runs /\ archive[e] \in ArchiveRow /\ run[e].pc = "done"
        /\ Covers(retry[r].ledger, e) /\ retry[r].ledger \in Ledgers /\ retry[r].late = 0
    <3>1. e \in Runs /\ run[e].pc = "done" /\ Covers(retry[r].ledger, e) /\ retry[r].late = 0
      BY <1>1, <1>3 DEF RetryKnows, OwnsClaim
    <3> QED
      BY <1>1, <3>1, RowTypes DEF RetryRow
  <2>3. archive' = [archive EXCEPT ![e] = new]
    BY <2>1
  <2>4. /\ retry' \in [Retries -> RetryRow]
        /\ \A q \in Retries : q # r => retry'[q] = retry[q]
        /\ \/ retry'[r].pc = "status" /\ retry'[r].of = e /\ retry'[r].late = 0
              /\ retry'[r].ledger = retry[r].ledger
           \/ retry'[r].pc = "idle" /\ retry'[r].late = 0
    <3>1. CASE RetryMove(r, "status")
      BY <2>2, <3>1, RetryMoveFacts DEF RetrySteps
    <3>2. CASE EndRequest(r)
      BY <3>2, NoRequestFacts, RetrySet DEF EndRequest
    <3> QED
      BY <2>1, <3>1, <3>2
  <2> HIDE DEF e
  <2>5. /\ new \in ArchiveRow /\ new.token = NoRetry /\ new.ledger = retry[r].ledger
        /\ new.status = archive[e].status
    BY <2>2 DEF ArchiveRow
  <2> HIDE DEF new
  <2>6. archive' \in [Runs -> ArchiveRow] /\ archive'[e] = new
        /\ \A d \in Runs : d # e => archive'[d] = archive[d]
    BY <2>2, <2>3, <2>5, ArchiveSet
  <2>7. ReportTypeOK'
    BY <1>1, <2>4, <2>6, TypeOK, TypeOKPrimed
  <2>8. RetryKnows(r)'
    <3>1. retry'[r].ledger = retry[r].ledger /\ retry'[r].of = e => Covers(retry[r].ledger, retry[r].of)'
      BY <1>1, <2>2 DEF Covers
    <3> QED
      BY <1>1, <2>2, <2>4, <3>1 DEF RetryKnows
  <2>9. \A d \in Runs :
           /\ archive'[d].status = archive[d].status
           /\ \/ archive'[d].ledger = archive[d].ledger
              \/ run[d].pc = "done" /\ Covers(archive[d].ledger, d)'
           /\ \A q \in Retries : q # r /\ archive'[d].token = q => archive[d].token = q
    <3>1. ASSUME NEW d \in Runs, d = e
          PROVE  run[d].pc = "done" /\ Covers(archive[d].ledger, d)'
      BY <1>1, <2>2, <2>5, <2>6, <3>1 DEF Covers
    <3> QED
      BY <2>2, <2>5, <2>6, <3>1, ReportConstants
  <2>10. /\ UNCHANGED <<run, accepted, clock, summary>> /\ missing' \subseteq missing
         /\ r \in Retries \cup {NoRetry} /\ ReportInv
    BY <1>1
  <2> HIDE DEF ReportInv
  <2> QED
    BY ONLY <2>4, <2>7, <2>8, <2>9, <2>10, RetryStepKeeps
<1> QED
  BY <1>2, <1>3

(* The status of the retry's ledger: success only when nothing is missing. *)
LEMMA RetryStatusKeeps ==
    ASSUME ReportInv, NEW r \in Retries, RetryStatus(r)
    PROVE  ReportInv'
<1> USE DEF ReportInv
<1> DEFINE e == retry[r].of
           status == DeliveryStatus(retry[r].ledger)
<1>1. /\ retry[r].pc = "status" /\ RetryKnows(r) /\ summary \in SummaryRow
      /\ EndRequest(r)
      /\ summary' = IF summary.bound = e THEN [summary EXCEPT !.status = status] ELSE summary
      /\ UNCHANGED <<attached, edits, accepted, run, archive, clock, requests, crashes, missing>>
  BY RetryTypes DEF RetryStatus, StillBound
<1>2. Covers(retry[r].ledger, e)
  BY <1>1 DEF RetryKnows
<1>3. status \in Statuses /\ (status = "success" => \A t \in Targets : <<e, t>> \notin missing)
  BY <1>2, LedgerFacts DEF Covers
<1> HIDE DEF e, status
<1>4. /\ summary' \in SummaryRow /\ summary'.bound = summary.bound
      /\ summary'.lastRun = summary.lastRun
      /\ summary'.status = summary.status \/ (summary'.status = status /\ summary.bound = e)
  BY <1>1, <1>3 DEF SummaryRow
<1>5. /\ retry' \in [Retries -> RetryRow] /\ retry'[r] = NoRequest
      /\ \A q \in Retries : q # r => retry'[q] = retry[q]
  BY <1>1, NoRequestFacts, RetrySet DEF EndRequest
<1>6. ReportTypeOK'
  BY <1>1, <1>4, <1>5, TypeOK, TypeOKPrimed
<1>7. RetryKnows(r)'
  BY <1>5, NoRequestFacts DEF RetryKnows
<1>8. \/ summary'.status = summary.status
      \/ summary'.status = "success" /\ summary'.bound # NoRun
            => \A t \in Targets : <<summary'.bound, t>> \notin missing'
  BY <1>1, <1>3, <1>4
<1>9. /\ UNCHANGED <<run, accepted, clock, archive>> /\ missing' \subseteq missing
      /\ r \in Retries \cup {NoRetry} /\ ReportInv
  BY <1>1
<1> HIDE DEF ReportInv
<1> QED
  BY ONLY <1>4, <1>5, <1>6, <1>7, <1>8, <1>9, RetryStepKeeps

LEMMA RetryCrashKeeps ==
    ASSUME ReportInv, NEW r \in Retries, RetryCrash(r)
    PROVE  ReportInv'
<1>1. /\ crashes < MaxCrashes /\ crashes' = crashes + 1 /\ EndRequest(r)
      /\ UNCHANGED <<attached, edits, accepted, summary, run, archive, clock, requests, missing>>
  BY DEF RetryCrash
<1>2. crashes' \in 0 .. MaxCrashes /\ requests' \in 0 .. MaxRequests
  BY <1>1, RetryTypes, ReportConstants
<1> QED
  BY <1>1, <1>2, EndRequestKeeps
-----------------------------------------------------------------------------
LEMMA NextKeeps == ReportInv /\ [Next]_vars => ReportInv'
<1> SUFFICES ASSUME ReportInv, [Next]_vars PROVE ReportInv'
  OBVIOUS
<1>1. CASE EditChannels
  BY <1>1, EditChannelsKeeps
<1>2. ASSUME NEW e \in Runs, RunStep(e) PROVE ReportInv'
  BY <1>2, BeginKeeps, StartKeeps, MarkKeeps, CompileKeeps, StoreKeeps, SendEmailKeeps,
     SendChannelKeeps, WriteSummaryKeeps, WriteLedgerKeeps, RunCrashKeeps DEF RunStep
<1>3. ASSUME NEW r \in Retries, RetryStep(r) PROVE ReportInv'
  BY <1>3, RetryOpenKeeps, RetryReadKeeps, RetryClaimKeeps, RetryRenewKeeps, RetrySendKeeps,
     RetryCompleteKeeps, RetryStatusKeeps, RetryCrashKeeps DEF RetryStep
<1>4. ASSUME NEW e \in Runs, LeaseRunsOut(e) PROVE ReportInv'
  BY <1>4, LeaseRunsOutKeeps
<1>5. CASE UNCHANGED vars
  BY <1>5 DEF vars, ReportInv, ReportTypeOK, StampsDiffer, RunKnows, RetryKnows, Covers, Failures,
     FiredOnce, NewestRunIsBound, SuccessIsDelivered
<1> QED
  BY <1>1, <1>2, <1>3, <1>4, <1>5 DEF Next

(* The inductive invariant: what the runs and the retries rely on. *)
THEOREM ReportInvariant == Spec => []ReportInv
<1>1. ReportInv /\ [Next]_vars => ReportInv'
  BY NextKeeps
<1> QED
  BY <1>1, InitInv, PTL DEF Spec

(* Every variable of the scheduled report keeps its type. *)
THEOREM ReportTypes == Spec => []ReportTypeOK
<1>1. ReportInv => ReportTypeOK
  BY DEF ReportInv
<1> QED
  BY <1>1, ReportInvariant, PTL

(* _claim_fire: at most one run for a fire time gets past the insert of the *)
(* unique row, for any number of redeliveries.                              *)
THEOREM RunsOnce == Spec => []FiredOnce
<1>1. ReportInv => FiredOnce
  BY DEF ReportInv
<1> QED
  BY <1>1, ReportInvariant, PTL

(* _persist_run_summary and the retry of the status: once the run that      *)
(* started last has ended the schedule is bound to its archive, whose file  *)
(* exists, whatever older runs and retries still write.                     *)
THEOREM BoundToNewest == Spec => []NewestRunIsBound
<1>1. ReportInv => NewestRunIsBound
  BY DEF ReportInv
<1> QED
  BY <1>1, ReportInvariant, PTL

(* last_status says success for the bound archive only when every target    *)
(* got the report.                                                          *)
THEOREM SuccessIsTrue == Spec => []SuccessIsDelivered
<1>1. ReportInv => SuccessIsDelivered
  BY DEF ReportInv
<1> QED
  BY <1>1, ReportInvariant, PTL

(* _renew_retry_claim before every target: a retry that lost its claim      *)
(* sends at most once more.                                                 *)
THEOREM OneLateSend == Spec => []OverlapIsOneSend
<1>1. ReportInv => OverlapIsOneSend
  <2> SUFFICES ASSUME ReportInv, NEW r \in Retries PROVE retry[r].late <= 1
    BY DEF OverlapIsOneSend
  <2>1. retry[r].late \in Nat /\ (retry[r].late # 0 => retry[r].late = 1)
    BY RetryTypes DEF RetryRow, RetryKnows
  <2> QED
    BY <2>1
<1> QED
  BY <1>1, ReportInvariant, PTL
=============================================================================
