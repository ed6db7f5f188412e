-------------------------- MODULE ScheduledReports --------------------------
(***************************************************************************)
(* One scheduled report: the runs that compile and deliver it, started by  *)
(* the scheduler for an intended fire time or by "Run now", and the        *)
(* requests of "Retry delivery" that send the failed targets of the last   *)
(* run again.  Runs overlap, the broker hands the same firing out more     *)
(* than once, workers and web requests die between two statements, and a   *)
(* retry holds a lease that may run out while it is sending.               *)
(*                                                                         *)
(* A run that keeps its output makes one archive, named after the run.     *)
(* Start times are drawn from a counter, as two runs never start in the    *)
(* same microsecond.  The lease of a retry claim is live or run out; how   *)
(* long that takes is left open.  Whether the schedule is paused, and      *)
(* scope, approval and principal decide only whether a run or a retry is   *)
(* refused, so a refusal is possible wherever the code checks them.  A     *)
(* task or request that is refused before it wrote anything is no step.    *)
(***************************************************************************)
EXTENDS Naturals, FiniteSets

CONSTANTS
    Runs,       \* executions of generate_scheduled_report_task
    NoRun,
    Fires,      \* intended fire times the scheduler injects
    NoFire,     \* "Run now" passes no fire time
    Retries,    \* web workers that serve "Retry delivery", one request after the other
    NoRetry,
    Email,      \* the aggregate e-mail target
    Channels,   \* notification channels
    MaxRequests,\* bound: requests to "Retry delivery"
    MaxEdits,   \* bound: changes of the schedule's configuration
    MaxCrashes  \* bound: tasks and requests that die

ASSUME ReportConstants ==
    /\ NoRun \notin Runs /\ NoFire \notin Fires /\ NoRetry \notin Retries
    /\ Email \notin Channels
    /\ MaxRequests \in Nat /\ MaxEdits \in Nat /\ MaxCrashes \in Nat

VARIABLES
    attached,   \* the attached, enabled channels
    edits,      \* changes of them so far
    accepted,   \* the ScheduledReportFire rows
    summary,    \* last_run, last_status and last_run_archive
    run,        \* what each run holds in memory
    archive,    \* ReportGenerationArchive rows, and their retry claim
    retry,      \* what each retry request holds in memory
    clock,      \* start times given out
    requests,   \* retry requests so far
    crashes,
    missing     \* history: <<run, target>> that failed and was not made up for

vars == <<attached, edits, accepted, summary, run, archive, retry, clock,
          requests, crashes, missing>>

Targets == {Email} \cup Channels
Outcomes == {"none", "ok", "failed"}
Ledgers == [Targets -> Outcomes]
EmptyLedger == [t \in Targets |-> "none"]
Statuses == {"", "success", "partial", "failed", "not_generated"}

RunUnderWay == {"claimed", "started", "compiling", "storing", "email",
                "channels", "summary", "ledger"}
RunEnded == {"denied", "not_generated", "done", "dead"}
RetrySteps == {"idle", "open", "read", "renew", "send", "complete", "status"}

ReportTypeOK ==
    /\ attached \subseteq Channels
    /\ edits \in 0 .. MaxEdits
    /\ accepted \subseteq Fires
    /\ summary \in [lastRun : Nat, status : Statuses, bound : Runs \cup {NoRun}]
    /\ run \in [Runs -> [pc : {"idle"} \cup RunUnderWay \cup RunEnded,
                         fire : Fires \cup {NoFire}, stamp : Nat,
                         keep : BOOLEAN, todo : SUBSET Channels,
                         ledger : Ledgers]]
    /\ archive \in [Runs -> [status : {"none", "running", "success", "failed"},
                             ledger : Ledgers, token : Retries \cup {NoRetry},
                             live : BOOLEAN]]
    /\ retry \in [Retries -> [pc : RetrySteps, of : Runs \cup {NoRun},
                              todo : SUBSET Targets, ledger : Ledgers,
                              seen : Statuses, late : Nat]]
    /\ clock \in Nat
    /\ requests \in 0 .. MaxRequests
    /\ crashes \in 0 .. MaxCrashes
    /\ missing \subseteq Runs \X Targets

NoRequest == [pc |-> "idle", of |-> NoRun, todo |-> {}, ledger |-> EmptyLedger,
              seen |-> "", late |-> 0]

Init ==
    /\ attached = Channels
    /\ edits = 0
    /\ accepted = {}
    /\ summary = [lastRun |-> 0, status |-> "", bound |-> NoRun]
    /\ run = [e \in Runs |-> [pc |-> "idle", fire |-> NoFire, stamp |-> 0,
                              keep |-> TRUE, todo |-> {},
                              ledger |-> EmptyLedger]]
    /\ archive = [e \in Runs |-> [status |-> "none", ledger |-> EmptyLedger,
                                  token |-> NoRetry, live |-> FALSE]]
    /\ retry = [r \in Retries |-> NoRequest]
    /\ clock = 0
    /\ requests = 0
    /\ crashes = 0
    /\ missing = {}
-----------------------------------------------------------------------------
(* A channel is attached, detached, enabled or disabled. *)
EditChannels ==
    /\ edits < MaxEdits
    /\ edits' = edits + 1
    /\ \E c \in Channels :
          attached' = IF c \in attached THEN attached \ {c} ELSE attached \cup {c}
    /\ UNCHANGED <<accepted, summary, run, archive, retry, clock, requests,
                   crashes,
                   missing>>
-----------------------------------------------------------------------------
(* A run.  Move(e, to) advances the program counter of run e. *)
Move(e, to) == run' = [run EXCEPT ![e].pc = to]

FireClaimableAlways(f) == TRUE

(* The insert of the unique (schedule, fire time) row is the fence against  *)
(* a redelivered firing; "Run now" has no fire time and is never refused.   *)
FireClaimable(f) == f \notin accepted

Begin(e, f) ==
    /\ run[e].pc = "idle"
    /\ f # NoFire => FireClaimable(f)
    /\ run' = [run EXCEPT ![e].pc = "claimed", ![e].fire = f]
    /\ accepted' = accepted \cup ({f} \ {NoFire})
    /\ UNCHANGED <<attached, edits, summary, archive, retry, clock, requests,
                   crashes, missing>>

(* The scope is not authorised or the principal is gone, or the run takes   *)
(* its start time.                                                          *)
Start(e) ==
    /\ run[e].pc = "claimed"
    /\ \/ /\ Move(e, "denied")
          /\ UNCHANGED clock
       \/ /\ clock' = clock + 1
          /\ run' = [run EXCEPT ![e].pc = "started", ![e].stamp = clock + 1]
    /\ UNCHANGED <<attached, edits, accepted, summary, archive, retry,
                   requests, crashes, missing>>

(* last_run only moves forward, in one conditional update. *)
Mark(e) ==
    /\ run[e].pc = "started"
    /\ summary' = [summary EXCEPT !.lastRun =
                        IF run[e].stamp > @ THEN run[e].stamp ELSE @]
    /\ Move(e, "compiling")
    /\ UNCHANGED <<attached, edits, accepted, archive, retry, clock, requests,
                   crashes, missing>>

NewestUnchecked(e) == TRUE

(* The summary of the schedule is written only by the newest started run. *)
Newest(e) == summary.lastRun = run[e].stamp

Summarised(e, status, bound) ==
    IF Newest(e) THEN [summary EXCEPT !.status = status, !.bound = bound]
                 ELSE summary

(* Compiling fails, or the archive row is created as running, or the        *)
(* schedule keeps no archive.                                               *)
Compile(e) ==
    /\ run[e].pc = "compiling"
    /\ \/ /\ Move(e, "not_generated")
          /\ summary' = Summarised(e, "not_generated", NoRun)
          /\ UNCHANGED archive
       \/ /\ Move(e, "storing")
          /\ archive' = [archive EXCEPT ![e].status = "running"]
          /\ UNCHANGED summary
       \/ /\ run' = [run EXCEPT ![e].pc = "email", ![e].keep = FALSE]
          /\ UNCHANGED <<summary, archive>>
    /\ UNCHANGED <<attached, edits, accepted, retry, clock, requests, crashes,
                   missing>>

(* Writing the file: a storage failure marks the archive failed and the run *)
(* ends as a failed generation.                                             *)
Store(e) ==
    /\ run[e].pc = "storing"
    /\ \/ /\ archive' = [archive EXCEPT ![e].status = "success"]
          /\ Move(e, "email")
          /\ UNCHANGED summary
       \/ /\ archive' = [archive EXCEPT ![e].status = "failed"]
          /\ Move(e, "not_generated")
          /\ summary' = Summarised(e, "not_generated", NoRun)
    /\ UNCHANGED <<attached, edits, accepted, retry, clock, requests, crashes,
                   missing>>

(* A send is reported as it went: target t of run e still misses the report *)
(* until one send reached it.                                               *)
Attempted(e, t, outcome) ==
    IF outcome = "failed" THEN missing \cup {<<e, t>>} ELSE missing

MadeUp(e, t, outcome) ==
    IF outcome = "ok" THEN missing \ {<<e, t>>} ELSE missing

(* The e-mail goes first (a schedule without recipients is one with fewer   *)
(* channels); then the attached, enabled channels are read.                 *)
SendEmail(e) ==
    /\ run[e].pc = "email"
    /\ \E outcome \in {"ok", "failed"} :
          /\ run' = [run EXCEPT ![e].pc = "channels", ![e].todo = attached,
                                ![e].ledger[Email] = outcome]
          /\ missing' = Attempted(e, Email, outcome)
    /\ UNCHANGED <<attached, edits, accepted, summary, archive, retry, clock,
                   requests, crashes>>

SendChannel(e) ==
    /\ run[e].pc = "channels"
    /\ \/ \E c \in run[e].todo, outcome \in {"ok", "failed"} :
             /\ run' = [run EXCEPT ![e].todo = @ \ {c}, ![e].ledger[c] = outcome]
             /\ missing' = Attempted(e, c, outcome)
       \/ /\ run[e].todo = {}
          /\ Move(e, "summary")
          /\ UNCHANGED missing
    /\ UNCHANGED <<attached, edits, accepted, summary, archive, retry, clock,
                   requests, crashes>>

(* What a ledger adds up to. *)
DeliveryStatus(ledger) ==
    IF \A t \in Targets : ledger[t] # "failed" THEN "success"
    ELSE IF \E t \in Targets : ledger[t] = "ok" THEN "partial" ELSE "failed"

(* The summary is persisted first and the ledger in a second statement. *)
WriteSummary(e) ==
    /\ run[e].pc = "summary"
    /\ summary' = Summarised(e, DeliveryStatus(run[e].ledger),
                             IF run[e].keep THEN e ELSE NoRun)
    /\ IF run[e].keep
       THEN Move(e, "ledger")
       ELSE run' = [run EXCEPT ![e].pc = "done", ![e].ledger = EmptyLedger]
    /\ UNCHANGED <<attached, edits, accepted, archive, retry, clock, requests,
                   crashes, missing>>

WriteLedger(e) ==
    /\ run[e].pc = "ledger"
    /\ archive' = [archive EXCEPT ![e].ledger = run[e].ledger]
    /\ run' = [run EXCEPT ![e].pc = "done", ![e].ledger = EmptyLedger]
    /\ UNCHANGED <<attached, edits, accepted, summary, retry, clock, requests,
                   crashes, missing>>

RunCrash(e) ==
    /\ crashes < MaxCrashes
    /\ run[e].pc \in RunUnderWay
    /\ crashes' = crashes + 1
    /\ run' = [run EXCEPT ![e].pc = "dead", ![e].todo = {}, ![e].ledger = EmptyLedger]
    /\ UNCHANGED <<attached, edits, accepted, summary, archive, retry, clock,
                   requests, missing>>
-----------------------------------------------------------------------------
(* A retry.  RetryMove(r, to) advances its program counter, EndRequest(r)   *)
(* answers the request.                                                     *)
RetryMove(r, to) == retry' = [retry EXCEPT ![r].pc = to]

EndRequest(r) == retry' = [retry EXCEPT ![r] = NoRequest]

Failures(ledger) == {t \in Targets : ledger[t] = "failed"}

(* The view loads the schedule: its status is as of now. *)
RetryOpen(r) ==
    /\ retry[r].pc = "idle"
    /\ requests < MaxRequests
    /\ requests' = requests + 1
    /\ retry' = [retry EXCEPT ![r].pc = "open", ![r].seen = summary.status]
    /\ UNCHANGED <<attached, edits, accepted, summary, run, archive, clock,
                   crashes, missing>>

(* The bound archive and its ledger are read afresh, but without a lock and *)
(* before the claim.  Without a file, a failed target, an active schedule,  *)
(* an authorised scope or a readable file the request is refused.           *)
RetryRead(r) ==
    /\ retry[r].pc = "open"
    /\ LET e == summary.bound IN
       \/ /\ e # NoRun
          /\ archive[e].status = "success"
          /\ Failures(archive[e].ledger) # {}
          /\ retry' = [retry EXCEPT ![r].pc = "read", ![r].of = e,
                                    ![r].todo = Failures(archive[e].ledger),
                                    ![r].ledger = archive[e].ledger]
       \/ EndRequest(r)
    /\ UNCHANGED <<attached, edits, accepted, summary, run, archive, clock,
                   requests, crashes, missing>>

(* One conditional update takes the claim when it is free or has run out. *)
RetryClaim(r) ==
    /\ retry[r].pc = "read"
    /\ IF archive[retry[r].of].live
       THEN /\ EndRequest(r)
            /\ UNCHANGED archive
       ELSE /\ archive' = [archive EXCEPT ![retry[r].of].token = r,
                                          ![retry[r].of].live = TRUE]
            /\ RetryMove(r, "renew")
    /\ UNCHANGED <<attached, edits, accepted, summary, run, clock, requests,
                   crashes, missing>>

OwnsClaimUnchecked(r) == TRUE

OwnsClaim(r) == archive[retry[r].of].token = r

(* The lease is renewed before every target; a lost claim ends the fan-out. *)
RetryRenew(r) ==
    /\ retry[r].pc = "renew"
    /\ IF retry[r].todo # {} /\ OwnsClaim(r)
       THEN /\ archive' = [archive EXCEPT ![retry[r].of].live = TRUE]
            /\ RetryMove(r, "send")
       ELSE /\ RetryMove(r, "complete")
            /\ UNCHANGED archive
    /\ UNCHANGED <<attached, edits, accepted, summary, run, clock, requests,
                   crashes, missing>>

(* A detached or disabled channel fails without being contacted. *)
Contactable(t) == t = Email \/ t \in attached

(* One target, the e-mail first.  late counts the targets contacted while   *)
(* another request holds the claim.                                         *)
RetrySend(r) ==
    /\ retry[r].pc = "send"
    /\ \E t \in retry[r].todo, outcome \in {"ok", "failed"} :
          /\ Email \in retry[r].todo => t = Email
          /\ outcome = "ok" => Contactable(t)
          /\ retry' = [retry EXCEPT
                ![r].pc = "renew", ![r].todo = @ \ {t}, ![r].ledger[t] = outcome,
                ![r].late = IF Contactable(t) /\ archive[retry[r].of].token # r
                            THEN @ + 1 ELSE @]
          /\ missing' = MadeUp(retry[r].of, t, outcome)
    /\ UNCHANGED <<attached, edits, accepted, summary, run, archive, clock,
                   requests, crashes>>

(* The ledger is written and the claim released while the token still owns  *)
(* it; the status the view read decides whether the summary follows.        *)
RetryComplete(r) ==
    /\ retry[r].pc = "complete"
    /\ IF OwnsClaim(r)
       THEN /\ archive' = [archive EXCEPT ![retry[r].of].ledger = retry[r].ledger,
                                          ![retry[r].of].token = NoRetry,
                                          ![retry[r].of].live = FALSE]
            /\ IF retry[r].seen # DeliveryStatus(retry[r].ledger)
               THEN RetryMove(r, "status") ELSE EndRequest(r)
       ELSE /\ EndRequest(r)
            /\ UNCHANGED archive
    /\ UNCHANGED <<attached, edits, accepted, summary, run, clock, requests,
                   crashes, missing>>

StillBoundUnchecked(r) == TRUE

(* The summary follows only while the archive is still the bound one. *)
StillBound(r) == summary.bound = retry[r].of

RetryStatus(r) ==
    /\ retry[r].pc = "status"
    /\ summary' = IF StillBound(r)
                  THEN [summary EXCEPT !.status = DeliveryStatus(retry[r].ledger)]
                  ELSE summary
    /\ EndRequest(r)
    /\ UNCHANGED <<attached, edits, accepted, run, archive, clock, requests,
                   crashes, missing>>

(* A request dies: its claim stays behind until the lease runs out. *)
RetryCrash(r) ==
    /\ crashes < MaxCrashes
    /\ retry[r].pc \in {"renew", "send", "complete", "status"}
    /\ crashes' = crashes + 1
    /\ EndRequest(r)
    /\ UNCHANGED <<attached, edits, accepted, summary, run, archive, clock,
                   requests, missing>>

(* RETRY_CLAIM_LEASE passes without a renewal. *)
LeaseRunsOut(e) ==
    /\ archive[e].live
    /\ archive' = [archive EXCEPT ![e].live = FALSE]
    /\ UNCHANGED <<attached, edits, accepted, summary, run, retry, clock,
                   requests, crashes, missing>>
-----------------------------------------------------------------------------
RunStep(e) ==
    \/ \E f \in Fires \cup {NoFire} : Begin(e, f)
    \/ Start(e) \/ Mark(e) \/ Compile(e) \/ Store(e)
    \/ SendEmail(e) \/ SendChannel(e) \/ WriteSummary(e) \/ WriteLedger(e)
    \/ RunCrash(e)

RetryStep(r) ==
    \/ RetryOpen(r) \/ RetryRead(r) \/ RetryClaim(r) \/ RetryRenew(r)
    \/ RetrySend(r) \/ RetryComplete(r) \/ RetryStatus(r) \/ RetryCrash(r)

Next ==
    \/ EditChannels
    \/ \E e \in Runs : RunStep(e)
    \/ \E r \in Retries : RetryStep(r)
    \/ \E e \in Runs : LeaseRunsOut(e)

Spec == Init /\ [][Next]_vars
-----------------------------------------------------------------------------
(* A firing is executed at most once, however often the broker hands it out *)
(* and in whatever order: at most one run for a fire time gets past         *)
(* _claim_fire.                                                             *)
FiredOnce ==
    \A d, e \in Runs :
        d # e /\ run[d].pc # "idle" /\ run[e].pc # "idle" /\ run[d].fire # NoFire
            => run[d].fire # run[e].fire

(* Retry delivery acts on the newest run: once the run that started last    *)
(* has ended, the schedule is bound to its archive, or to none when it kept *)
(* none or was not generated, whatever older runs and retries still write.  *)
(* What is bound has its file.                                              *)
NewestRunIsBound ==
    /\ \A e \in Runs :
          /\ run[e].stamp # 0 /\ run[e].stamp = summary.lastRun
          /\ run[e].pc \in {"ledger", "done", "not_generated"}
          => summary.bound = IF run[e].pc # "not_generated" /\ run[e].keep
                             THEN e ELSE NoRun
    /\ summary.bound # NoRun => archive[summary.bound].status = "success"

(* last_status never claims more than was delivered: when it says success   *)
(* for the bound archive, every target of that run got the report, from the *)
(* run or from some retry of it.                                            *)
SuccessIsDelivered ==
    summary.status = "success" /\ summary.bound # NoRun =>
        \A t \in Targets : <<summary.bound, t>> \notin missing

(* A retry that lost its lease to another request makes at most one more    *)
(* send, the one in flight: _renew_retry_claim stops the rest.              *)
OverlapIsOneSend == \A r \in Retries : retry[r].late <= 1

(* "prior successful sends are never repeated (targets whose recorded       *)
(* outcome was already ok are not contacted again)": a retry never sends to *)
(* a target whose recorded outcome is ok.  The code does not meet this      *)
(* (README, section 6); no run states it.                                   *)
RecordedSuccessNotRepeated ==
    [][ \A r \in Retries : \A t \in Targets :
          retry[r].pc = "send" /\ retry'[r].pc = "renew"
              /\ t \in retry[r].todo \ retry'[r].todo /\ Contactable(t)
          => archive[retry[r].of].ledger[t] # "ok" ]_vars
=============================================================================
