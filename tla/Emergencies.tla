---------------------------- MODULE Emergencies ----------------------------
(***************************************************************************)
(* emergencies.service.ts: the emergencies of one driver and the column    *)
(* drivers.operational_status.  A request is a slot p of Procs: a read     *)
(* with its checks, then one transaction.  A check that fails throws       *)
(* without effect and is no step.                                          *)
(***************************************************************************)
EXTENDS Naturals, FiniteSets

CONSTANTS Emergency,   \* emergencies that may be stored (bound)
          Procs,
          None

VARIABLES status,       \* emergencies.status, None: no such row
          operational,  \* drivers.operational_status
          delivering,   \* the driver has an ACCEPTED or EN_ROUTE delivery
          alerted,      \* emergencies announced to fleet:monitoring
          req

vars == <<status, operational, delivering, alerted, req>>

Open == {"TRIGGERED", "ACKNOWLEDGED"}
Closed == {"RESOLVED", "FALSE_ALARM"}
Idle == [pc |-> "idle", row |-> None]
Active == {e \in Emergency : status[e] \in Open}

Init == /\ status = [e \in Emergency |-> None]
        /\ operational \in {"OFFLINE", "AVAILABLE"}
        /\ delivering \in BOOLEAN /\ alerted = {}
        /\ req = [p \in Procs |-> Idle]

Goto(p, r) == req' = [req EXCEPT ![p] = r]
At(p, pc) == req[p].pc = pc

\* triggerEmergency: the driver is there, no emergency of his is open ...
BeginTrigger(p) ==
    /\ At(p, "idle") /\ Active = {}
    /\ Goto(p, [Idle EXCEPT !.pc = "trigger"])
    /\ UNCHANGED <<status, operational, delivering, alerted>>

\* ... then one transaction, which also sends the alert before it commits.
Trigger(p, e) ==
    /\ At(p, "trigger") /\ status[e] = None
    /\ status' = [status EXCEPT ![e] = "TRIGGERED"]
    /\ operational' = "EMERGENCY"
    /\ alerted' = alerted \cup {e}
    /\ Goto(p, Idle)
    /\ UNCHANGED delivering

\* The transaction may fail after the alert went out.
TriggerFails(p, e) ==
    /\ At(p, "trigger") /\ status[e] = None
    /\ alerted' \in {alerted, alerted \cup {e}}
    /\ Goto(p, Idle)
    /\ UNCHANGED <<status, operational, delivering>>

\* updateEmergencyStatus: the row is read and must not be closed ...
BeginUpdate(p, e) ==
    /\ At(p, "idle") /\ e \in Active
    /\ Goto(p, [pc |-> "update", row |-> e])
    /\ UNCHANGED <<status, operational, delivering, alerted>>

\* ... and is written by its id; closing it sets the driver's status from his
\* deliveries, whatever other emergencies he has.
Update(p, new) ==
    /\ At(p, "update")
    /\ status' = [status EXCEPT ![req[p].row] = new]
    /\ operational' = IF new \notin Closed THEN operational
                      ELSE IF delivering THEN "ON_DELIVERY" ELSE "AVAILABLE"
    /\ Goto(p, Idle)
    /\ UNCHANGED <<delivering, alerted>>

\* A delivery of the driver is accepted or ends (DeliveryLifecycle), which does
\* not touch operational_status.
DeliveryChanges ==
    /\ delivering' = ~delivering
    /\ UNCHANGED <<status, operational, alerted, req>>

Next == \/ \E p \in Procs : \/ BeginTrigger(p)
                            \/ \E e \in Emergency : Trigger(p, e) \/ TriggerFails(p, e) \/ BeginUpdate(p, e)
                            \/ \E new \in Closed \cup {"ACKNOWLEDGED"} : Update(p, new)
        \/ DeliveryChanges

Spec == Init /\ [][Next]_vars

-----------------------------------------------------------------------------
\* A driver has at most one emergency that is not closed, as the comment on
\* triggerEmergency's check says.
SingleActiveEmergency == Cardinality(Active) <= 1
=============================================================================
