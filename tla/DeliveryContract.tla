-------------------------- MODULE DeliveryContract --------------------------
(***************************************************************************)
(* What durable webhook delivery promises, without rows, leases, packages  *)
(* or time: a delivery is open until it is settled once and for all, at    *)
(* most one worker sends it at a time, and a worker sends at most one.     *)
(***************************************************************************)
CONSTANTS Deliveries, Workers, NoWorker

VARIABLES outcome, sender

vars == <<outcome, sender>>

Outcomes == {"absent", "open", "success", "dead"}

Init == /\ outcome = [d \in Deliveries |-> "absent"]
        /\ sender = [d \in Deliveries |-> NoWorker]

\* A delivery is recorded.
Accept(d) ==
    /\ outcome[d] = "absent"
    /\ outcome' = [outcome EXCEPT ![d] = "open"]
    /\ UNCHANGED sender

\* An idle worker starts to send an open delivery nobody is sending.
Begin(d, w) ==
    /\ outcome[d] = "open"
    /\ sender[d] = NoWorker
    /\ \A e \in Deliveries : sender[e] # w
    /\ sender' = [sender EXCEPT ![d] = w]
    /\ UNCHANGED outcome

\* The sender reports an outcome, or leaves the delivery open: for a retry, or
\* because it died.
End(d, o) ==
    /\ sender[d] # NoWorker
    /\ o \in {"open", "success", "dead"}
    /\ outcome' = [outcome EXCEPT ![d] = o]
    /\ sender' = [sender EXCEPT ![d] = NoWorker]

\* A delivery nobody is sending turns out to have no usable target.
Reject(d) ==
    /\ outcome[d] = "open"
    /\ sender[d] = NoWorker
    /\ outcome' = [outcome EXCEPT ![d] = "dead"]
    /\ UNCHANGED sender

Next == \E d \in Deliveries :
    \/ Accept(d)
    \/ \E w \in Workers : Begin(d, w)
    \/ \E o \in Outcomes : End(d, o)
    \/ Reject(d)

Spec == Init /\ [][Next]_vars
=============================================================================
