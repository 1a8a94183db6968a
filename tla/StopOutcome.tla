---------------------------- MODULE StopOutcome ----------------------------
(***************************************************************************)
(* What the delivery services promise about one stop and its proof,        *)
(* whatever requests run concurrently: the stop walks through its statuses *)
(* in order and is finished once; it is delivered together with its proof, *)
(* or by the decision of an operator, which alone may overrule a stop that *)
(* was failed or skipped.                                                  *)
(***************************************************************************)
CONSTANT Stops
VARIABLES status, proof

Init == /\ status = [s \in Stops |-> "PENDING"]
        /\ proof = [s \in Stops |-> "none"]

\* The driver works on the stop.
Advance(s, to) ==
    /\ \/ status[s] = "PENDING" /\ to \in {"EN_ROUTE", "ARRIVED"}
       \/ status[s] = "EN_ROUTE" /\ to = "ARRIVED"
       \/ status[s] = "ARRIVED" /\ to = "UNLOADING"
    /\ status' = [status EXCEPT ![s] = to]
    /\ UNCHANGED proof

\* The stop is given up: skipped before the driver set out, failed after.
GiveUp(s) ==
    /\ \/ /\ status[s] = "PENDING"
          /\ status' = [status EXCEPT ![s] = "SKIPPED"]
       \/ /\ status[s] \in {"EN_ROUTE", "ARRIVED", "UNLOADING"}
          /\ status' = [status EXCEPT ![s] = "FAILED"]
    /\ UNCHANGED proof

\* The driver is at the stop and no proof exists yet.
Deliver(s) ==
    /\ status[s] \in {"ARRIVED", "UNLOADING"}
    /\ proof[s] = "none"
    /\ status' = [status EXCEPT ![s] = "DELIVERED"]
    /\ proof' = [proof EXCEPT ![s] = "submitted"]

Overrule(s) ==
    /\ status' = [status EXCEPT ![s] = "DELIVERED"]
    /\ \/ UNCHANGED proof
       \/ proof' = [proof EXCEPT ![s] = "override"]

Next == \E s \in Stops : \/ \E to \in {"EN_ROUTE", "ARRIVED", "UNLOADING"} : Advance(s, to)
                         \/ GiveUp(s)
                         \/ Deliver(s)
                         \/ Overrule(s)

Spec == Init /\ [][Next]_<<status, proof>>
=============================================================================
