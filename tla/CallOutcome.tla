---------------------------- MODULE CallOutcome ----------------------------
(***************************************************************************)
(* What the call service promises of a call: it rings, one decision (an    *)
(* answer, a refusal, the timeout or a hang-up) ends the ringing for good, *)
(* and a call that was hung up stays so.                                   *)
(***************************************************************************)
CONSTANT Call
VARIABLE status

Init == status = [c \in Call |-> "none"]

Ring(c) == status[c] = "none" /\ status' = [status EXCEPT ![c] = "PENDING"]
Decide(c, d) == status[c] = "PENDING" /\ status' = [status EXCEPT ![c] = d]
HangUp(c) == status[c] # "none" /\ status' = [status EXCEPT ![c] = "ENDED"]

Next == \E c \in Call : \/ Ring(c)
                        \/ \E d \in {"ACTIVE", "DECLINED", "TIMEOUT"} : Decide(c, d)
                        \/ HangUp(c)
Spec == Init /\ [][Next]_status
=============================================================================
