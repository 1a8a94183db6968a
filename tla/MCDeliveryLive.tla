-------------------------- MODULE MCDeliveryLive --------------------------
(***************************************************************************)
(* DeliveryLifecycle with a history variable, to ask whether automatic     *)
(* completion can be lost.                                                 *)
(***************************************************************************)
EXTENDS DeliveryLifecycle

\* TRUE from the step that finished the last stop of an EN_ROUTE delivery, by a
\* request other than an override, for as long as the delivery stays EN_ROUTE.
VARIABLE due

ByOverride == \E p \in Procs : req[p].pc = "overrideCommit" /\ req'[p].pc = "idle"

\* The delivery is under way: createDelivery, assign, accept and start are done,
\* and stops may have been reached by depart and arrive.
LiveInit ==
    /\ dstatus = "EN_ROUTE" /\ driver \in Drivers
    /\ sstatus \in [Stops -> {"PENDING", "ARRIVED"}]
    /\ pod = [s \in Stops |-> "none"]
    /\ podEvents = [s \in Stops |-> 0]
    /\ idem = [d \in Drivers |-> [k \in Keys |-> None]]
    /\ ticket = [t \in Tickets |->
                   [state |-> "NONE", stop |-> None, receiver |-> FALSE]]
    /\ req = [p \in Procs |-> Idle]
    /\ due = FALSE

LiveNext ==
    /\ Next
    /\ due' = /\ dstatus = "EN_ROUTE" /\ dstatus' = "EN_ROUTE"
              /\ AllStopsTerminal'
              /\ due \/ (~AllStopsTerminal /\ ~ByOverride)

LiveSpec == LiveInit /\ [][LiveNext]_<<vars, due>> /\ Fairness

\* The request that finishes the last stop closes the delivery, whichever
\* requests finish the last stops together: failStop, skipStop and submitPod
\* run completeDeliveryIfEligible after their own commit, so the later of two
\* evaluations sees both.
LastStopCloses == due ~> ~due
=============================================================================
