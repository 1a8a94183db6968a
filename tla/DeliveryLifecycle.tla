------------------------- MODULE DeliveryLifecycle -------------------------
(***************************************************************************)
(* One delivery with its stops, proofs of delivery and conflict tickets,   *)
(* under concurrent HTTP requests: deliveries.service.ts,                  *)
(* delivery-stops.service.ts, pod.service.ts and                           *)
(* delivery-conflicts.service.ts over the PostgreSQL tables they share.    *)
(*                                                                         *)
(* A request is a slot p of Procs.  Every handler reads the rows it checks *)
(* in a first statement (its Begin action: a failed check throws and has   *)
(* no effect, so it is no step), and writes them in later statements.      *)
(* Another request may run between any two of them.  A transaction whose   *)
(* first write another request can observe only as a row lock is split at  *)
(* that write; one that does all its work on a row it holds is one step.   *)
(* An UPDATE whose condition reads a second table is split too: PostgreSQL *)
(* (READ COMMITTED) evaluates it on the snapshot of the statement, then    *)
(* waits for the row, and tests again only what the row itself says.       *)
(***************************************************************************)
EXTENDS Naturals

CONSTANTS Stops,      \* the stops of the delivery
          Drivers,    \* the drivers it may be assigned to
          Keys,       \* idempotency keys a client may send
          Tickets,    \* identifiers for conflict tickets (bounds the number)
          Procs,      \* request slots (bounds the number in flight)
          None,       \* an absent stop, driver, key or ticket
          Failures    \* TRUE: a request may die between two statements

ASSUME NoneAssumption == None \notin Stops \cup Drivers \cup Keys \cup Tickets
ASSUME FailuresAssumption == Failures \in BOOLEAN

VARIABLES dstatus,    \* deliveries.status
          driver,     \* deliveries.driver_id
          sstatus,    \* delivery_stops.status
          pod,        \* proof_of_delivery rows: who wrote the row of a stop
          podEvents,  \* number of POD_SUBMITTED delivery events of a stop
          idem,       \* idempotency_records: stop of the stored POD answer
          ticket,     \* delivery_conflicts rows
          req         \* the requests in flight

delivery == <<dstatus, driver>>
evidence == <<pod, podEvents, idem>>
vars == <<delivery, sstatus, evidence, ticket, req>>

-----------------------------------------------------------------------------
(* Statuses and rows. *)

TerminalDelivery == {"COMPLETED", "CANCELLED", "FAILED"}
DeliveryStatus ==
    {"DRAFT", "ASSIGNED", "ACCEPTED", "EN_ROUTE"} \cup TerminalDelivery

TerminalStop == {"DELIVERED", "FAILED", "SKIPPED"}
StopStatus == {"PENDING", "EN_ROUTE", "ARRIVED", "UNLOADING"} \cup TerminalStop

Resolutions == {"OPEN", "RESOLVED_OVERRIDDEN", "RESOLVED_DISCARDED"}

\* A ticket keeps the client's event: the stop it names and whether its
\* payload carries a receiver name (then an override stores a POD).
TicketRow == [state : Resolutions \cup {"NONE"},
              stop : Stops \cup {None}, receiver : BOOLEAN]

StopOps == {"depart", "arrive", "unload", "fail", "skip"}
WriteOps == {"assign", "accept", "start", "cancel"} \cup StopOps

Request ==
    [pc : {"idle", "write", "stopRow", "podTx", "podRow", "podClaimed", "eval",
           "claim", "ticket", "resolve", "override", "overrideCommit"},
     op : WriteOps \cup {"none"},
     stop : Stops \cup {None}, drv : Drivers \cup {None},
     key : Keys \cup {None}, tkt : Tickets \cup {None},
     receiver : BOOLEAN,
     out : Resolutions \cup {"COMPLETED", "FAILED", "none"}]

Idle == [pc |-> "idle", op |-> "none", stop |-> None, drv |-> None,
         key |-> None, tkt |-> None, receiver |-> FALSE, out |-> "none"]

\* About to write a delivery (s is None) or a stop, or at the stop's row.
Writing(pc, op, s, d) ==
    [pc |-> pc, op |-> op, stop |-> s, drv |-> d,
     key |-> None, tkt |-> None, receiver |-> FALSE, out |-> "none"]
\* Evaluating the stops, or about to store the outcome.
Completing(pc, out) ==
    [pc |-> pc, op |-> "none", stop |-> None, drv |-> None,
     key |-> None, tkt |-> None, receiver |-> FALSE, out |-> out]
Submitting(pc, s, d, k) ==
    [pc |-> pc, op |-> "none", stop |-> s, drv |-> d,
     key |-> k, tkt |-> None, receiver |-> FALSE, out |-> "none"]
\* Creating ticket t, or resolving it.
Handling(pc, t, s, receiver, out) ==
    [pc |-> pc, op |-> "none", stop |-> s, drv |-> None,
     key |-> None, tkt |-> t, receiver |-> receiver, out |-> out]

\* createDelivery: the transaction leaves a DRAFT with all stops PENDING.
Init ==
    /\ dstatus = "DRAFT"
    /\ driver = None
    /\ sstatus = [s \in Stops |-> "PENDING"]
    /\ pod = [s \in Stops |-> "none"]
    /\ podEvents = [s \in Stops |-> 0]
    /\ idem = [d \in Drivers |-> [k \in Keys |-> None]]
    /\ ticket = [t \in Tickets |->
                   [state |-> "NONE", stop |-> None, receiver |-> FALSE]]
    /\ req = [p \in Procs |-> Idle]

-----------------------------------------------------------------------------
(* Row locks held by open transactions. *)

\* The stop row is updated in p's open transaction.
HoldsStop(p, s) ==
    req[p].pc \in {"podClaimed", "overrideCommit"} /\ req[p].stop = s
StopFree(p, s) == \A q \in Procs \ {p} : ~HoldsStop(q, s)

\* The POD row of the stop is inserted or updated by p's open transaction.
HoldsPodRow(p, s) ==
    /\ req[p].pc \in {"override", "overrideCommit"}
    /\ req[p].stop = s
    /\ req[p].receiver
PodRowFree(p, s) == \A q \in Procs \ {p} : ~HoldsPodRow(q, s)

\* Fault: the first read of the ticket takes a lock that the update upgrades.
HoldsTicketFromRead(p, t) ==
    req[p].pc \in {"resolve", "override", "overrideCommit"} /\ req[p].tkt = t
HoldsTicket(p, t) ==
    req[p].pc \in {"override", "overrideCommit"} /\ req[p].tkt = t
TicketFree(p, t) == \A q \in Procs \ {p} : ~HoldsTicket(q, t)

\* The idempotency key is inserted by p's open transaction.
HoldsKey(p, d, k) ==
    req[p].pc \in {"podRow", "podClaimed"} /\ req[p].drv = d /\ req[p].key = k
KeyFree(p, d, k) ==
    k = None \/ \A q \in Procs \ {p} : ~HoldsKey(q, d, k)

-----------------------------------------------------------------------------
(* Requests: arrival with the first read, and the end. *)

Begin(p, r) == req[p].pc = "idle" /\ req' = [req EXCEPT ![p] = r]
Goto(p, r) == req' = [req EXCEPT ![p] = r]
Finish(p) == req' = [req EXCEPT ![p] = Idle]

\* The answer is sent, or the transaction rolls back and an error is sent:
\* nothing of this statement is stored.
Reject(p) ==
    Finish(p) /\ UNCHANGED <<delivery, sstatus, evidence, ticket>>

BeginAssign(p, d) ==
    /\ dstatus \in {"DRAFT", "ASSIGNED"}
    /\ Begin(p, Writing("write", "assign", None, d))
    /\ UNCHANGED <<delivery, sstatus, evidence, ticket>>

BeginAccept(p, d) ==
    /\ driver = d
    /\ dstatus = "ASSIGNED"
    /\ Begin(p, Writing("write", "accept", None, d))
    /\ UNCHANGED <<delivery, sstatus, evidence, ticket>>

BeginStart(p, d) ==
    /\ driver = d
    /\ dstatus = "ACCEPTED"
    /\ Begin(p, Writing("write", "start", None, d))
    /\ UNCHANGED <<delivery, sstatus, evidence, ticket>>

\* cancelDelivery only reads to check access: its status test is in the write.
BeginCancel(p) ==
    /\ Begin(p, Writing("write", "cancel", None, None))
    /\ UNCHANGED <<delivery, sstatus, evidence, ticket>>

BeginComplete(p) ==
    /\ dstatus = "EN_ROUTE"
    /\ Begin(p, Completing("eval", "none"))
    /\ UNCHANGED <<delivery, sstatus, evidence, ticket>>

\* Delivery statuses a stop operation is allowed in, and the stop statuses it
\* expects, both when it reads the row and when it updates it.
AllowedIn(op) ==
    IF op \in {"depart", "arrive"} THEN {"EN_ROUTE"}
                                   ELSE DeliveryStatus \ TerminalDelivery
\* Fault: a repeated arrival is accepted while unloading.
ExpectedArriveAgain(op) ==
    CASE op = "arrive" -> {"EN_ROUTE", "PENDING", "UNLOADING"}
      [] op = "unload" -> {"ARRIVED"}
      [] op = "fail"   -> {"ARRIVED", "UNLOADING", "EN_ROUTE"}
      [] OTHER         -> {"PENDING"}
Expected(op) ==
    CASE op = "depart" -> {"PENDING"}
      [] op = "arrive" -> {"EN_ROUTE", "PENDING"}
      [] op = "unload" -> {"ARRIVED"}
      [] op = "fail"   -> {"ARRIVED", "UNLOADING", "EN_ROUTE"}
      [] OTHER         -> {"PENDING"}
Becomes(op) ==
    CASE op = "depart" -> "EN_ROUTE"
      [] op = "arrive" -> "ARRIVED"
      [] op = "unload" -> "UNLOADING"
      [] op = "fail"   -> "FAILED"
      [] OTHER         -> "SKIPPED"

\* skipStop may come from an owner or administrator, so no driver is checked.
BeginStopOp(p, op, s) ==
    /\ op # "skip" => driver # None
    /\ dstatus \in AllowedIn(op)
    /\ sstatus[s] \in Expected(op)
    /\ Begin(p, Writing("write", op, s, None))
    /\ UNCHANGED <<delivery, sstatus, evidence, ticket>>

\* submitPod: a stored answer for the key, or a stop already DELIVERED, is
\* answered from the rows and changes nothing.
BeginPod(p, d, s, k) ==
    /\ driver = d
    /\ k # None => idem[d][k] = None
    /\ dstatus \notin TerminalDelivery
    /\ sstatus[s] \in {"UNLOADING", "ARRIVED"}
    /\ Begin(p, Submitting("podTx", s, d, k))
    /\ UNCHANGED <<delivery, sstatus, evidence, ticket>>

\* syncOutbox, one event of the batch: a CANCELLED delivery makes it a
\* conflict; otherwise it runs the stop operation or submitPod above.
\* t is the identifier the new ticket will get.
BeginOutbox(p, t, s, receiver) ==
    /\ dstatus = "CANCELLED"
    /\ ticket[t].state = "NONE"
    /\ \A q \in Procs : ~(req[q].pc = "ticket" /\ req[q].tkt = t)
    /\ Begin(p, Handling("ticket", t, s, receiver, "none"))
    /\ UNCHANGED <<delivery, sstatus, evidence, ticket>>

BeginResolve(p, t, resolution) ==
    /\ ticket[t].state = "OPEN"
    /\ Begin(p, Handling("resolve", t, None, FALSE, resolution))
    /\ UNCHANGED <<delivery, sstatus, evidence, ticket>>

-----------------------------------------------------------------------------
(* Writes of deliveries.service.ts. *)

\* assignDelivery, acceptDelivery and startDelivery update the row by its id:
\* the status they read is not tested again.
AssignWrite(p) ==
    /\ req[p].pc = "write" /\ req[p].op = "assign"
    /\ dstatus' = "ASSIGNED"
    /\ driver' = req[p].drv
    /\ Finish(p)
    /\ UNCHANGED <<sstatus, evidence, ticket>>

AcceptWrite(p) ==
    /\ req[p].pc = "write" /\ req[p].op = "accept"
    /\ dstatus' = "ACCEPTED"
    /\ Finish(p)
    /\ UNCHANGED <<driver, sstatus, evidence, ticket>>

StartWrite(p) ==
    /\ req[p].pc = "write" /\ req[p].op = "start"
    /\ dstatus' = "EN_ROUTE"
    /\ Finish(p)
    /\ UNCHANGED <<driver, sstatus, evidence, ticket>>

CancelWrite(p) ==
    /\ req[p].pc = "write" /\ req[p].op = "cancel"
    /\ dstatus \notin TerminalDelivery
    /\ dstatus' = "CANCELLED"
    /\ Finish(p)
    /\ UNCHANGED <<driver, sstatus, evidence, ticket>>

CancelRefused(p) ==
    /\ req[p].pc = "write" /\ req[p].op = "cancel"
    /\ dstatus \in TerminalDelivery
    /\ Reject(p)

AllStopsTerminal == \A s \in Stops : sstatus[s] \in TerminalStop
SomeStopDelivered == \E s \in Stops : sstatus[s] = "DELIVERED"

\* Fault: one finished stop is enough.
EligibleSome == \E s \in Stops : sstatus[s] \in TerminalStop
Eligible == Stops # {} /\ AllStopsTerminal

\* evaluateDeliveryCompletion, for completeDelivery and for
\* completeDeliveryIfEligible: both give up unless all stops are terminal.
Evaluate(p) ==
    /\ req[p].pc = "eval"
    /\ Eligible
    /\ Goto(p, Completing("claim", IF SomeStopDelivered THEN "COMPLETED"
                                                   ELSE "FAILED"))
    /\ UNCHANGED <<delivery, sstatus, evidence, ticket>>

EvaluateUnfinished(p) ==
    /\ req[p].pc = "eval"
    /\ ~Eligible
    /\ Reject(p)

\* updateMany ... where status = EN_ROUTE, and the rest of the transaction.
ClaimCompletion(p) ==
    /\ req[p].pc = "claim"
    /\ dstatus = "EN_ROUTE"
    /\ dstatus' = req[p].out
    /\ Finish(p)
    /\ UNCHANGED <<driver, sstatus, evidence, ticket>>

ClaimLost(p) ==
    /\ req[p].pc = "claim"
    /\ dstatus # "EN_ROUTE"
    /\ Reject(p)

-----------------------------------------------------------------------------
(* Writes of delivery-stops.service.ts. *)

\* updateStopIfOperational: one conditional UPDATE.  Its test of the delivery
\* is a sub-select, so it is made on the snapshot only.
\* Fault: the UPDATE does not test the stop.
StopAsExpectedAlways(p) == TRUE
StopAsExpected(p) == sstatus[req[p].stop] \in Expected(req[p].op)
\* Fault: the UPDATE does not test the delivery.
OperationalStop(p) == StopAsExpected(p)
Operational(p) == StopAsExpected(p) /\ dstatus \notin TerminalDelivery

\* Fault: skipStop does not evaluate the delivery.
FinishesFailed(op) == op = "fail"
Finishes(op) == op \in {"fail", "skip"}

\* The snapshot of the UPDATE matches: it goes on to the row.
StopScan(p) ==
    /\ req[p].pc = "write" /\ req[p].op \in StopOps
    /\ Operational(p)
    /\ Goto(p, Writing("stopRow", req[p].op, req[p].stop, None))
    /\ UNCHANGED <<delivery, sstatus, evidence, ticket>>

\* ... has the row, which still matches.  failStop and skipStop then store an
\* event and run completeDeliveryIfEligible.
StopWrite(p) ==
    /\ req[p].pc = "stopRow"
    /\ StopFree(p, req[p].stop)
    /\ StopAsExpected(p)
    /\ sstatus' = [sstatus EXCEPT ![req[p].stop] = Becomes(req[p].op)]
    /\ IF Finishes(req[p].op)
         THEN Goto(p, Completing("eval", "none"))
         ELSE Finish(p)
    /\ UNCHANGED <<delivery, evidence, ticket>>

\* No row matched: on the snapshot, or once the row was free.
StopRefused(p) ==
    /\ \/ req[p].pc = "write" /\ req[p].op \in StopOps /\ ~Operational(p)
       \/ req[p].pc = "stopRow" /\ StopFree(p, req[p].stop) /\ ~StopAsExpected(p)
    /\ Reject(p)

-----------------------------------------------------------------------------
(* The transaction of pod.service.ts submitPod. *)

\* Fault: the claim does not test the status of the stop.
ClaimedStatusAny(p) == TRUE
ClaimedStatus(p) == sstatus[req[p].stop] \in {"UNLOADING", "ARRIVED"}
Claimable(p) ==
    /\ req[p].key # None => idem[req[p].drv][req[p].key] = None
    /\ ClaimedStatus(p)
    /\ dstatus \notin TerminalDelivery

\* Insert the idempotency record (waits for a transaction that inserted the
\* same key), then issue the claim of the stop, whose snapshot matches.
PodScan(p) ==
    /\ req[p].pc = "podTx"
    /\ KeyFree(p, req[p].drv, req[p].key)
    /\ Claimable(p)
    /\ Goto(p, Submitting("podRow", req[p].stop, req[p].drv, req[p].key))
    /\ UNCHANGED <<delivery, sstatus, evidence, ticket>>

\* ... has the row, which still matches: it stays locked until the commit.
PodClaim(p) ==
    /\ req[p].pc = "podRow"
    /\ StopFree(p, req[p].stop)
    /\ ClaimedStatus(p)
    /\ Goto(p, Submitting("podClaimed", req[p].stop, req[p].drv, req[p].key))
    /\ UNCHANGED <<delivery, sstatus, evidence, ticket>>

\* The key is taken (the stored answer is returned) or no row matched: the
\* transaction rolls back.
PodRefused(p) ==
    /\ \/ req[p].pc = "podTx" /\ KeyFree(p, req[p].drv, req[p].key) /\ ~Claimable(p)
       \/ req[p].pc = "podRow" /\ StopFree(p, req[p].stop) /\ ~ClaimedStatus(p)
    /\ Reject(p)

\* Insert the POD row (waits for an override that holds it), the event and
\* the answer, commit, then completeDeliveryIfEligible.
PodCommit(p) ==
    LET s == req[p].stop  d == req[p].drv  k == req[p].key IN
    /\ req[p].pc = "podClaimed"
    /\ PodRowFree(p, s)
    /\ sstatus' = [sstatus EXCEPT ![s] = "DELIVERED"]
    /\ pod' = [pod EXCEPT ![s] = "submitted"]
    /\ podEvents' = [podEvents EXCEPT ![s] = podEvents[s] + 1]
    /\ idem' = IF k = None THEN idem ELSE [idem EXCEPT ![d][k] = s]
    /\ Goto(p, Completing("eval", "none"))
    /\ UNCHANGED <<delivery, ticket>>

-----------------------------------------------------------------------------
(* Writes of delivery-conflicts.service.ts. *)

CreateTicket(p) ==
    /\ req[p].pc = "ticket"
    /\ ticket' = [ticket EXCEPT ![req[p].tkt] =
                    [state |-> "OPEN", stop |-> req[p].stop,
                     receiver |-> req[p].receiver]]
    /\ Finish(p)
    /\ UNCHANGED <<delivery, sstatus, evidence>>

Resolved(t, resolution) == [state |-> resolution, stop |-> ticket[t].stop,
                            receiver |-> ticket[t].receiver]

\* resolveConflict without an override only sets the ticket.
ResolveWrite(p) ==
    /\ req[p].pc = "resolve" /\ req[p].out # "RESOLVED_OVERRIDDEN"
    /\ TicketFree(p, req[p].tkt)
    /\ ticket' = [ticket EXCEPT ![req[p].tkt] = Resolved(req[p].tkt, req[p].out)]
    /\ Finish(p)
    /\ UNCHANGED <<delivery, sstatus, evidence>>

\* An override updates the ticket and upserts the POD: both rows stay locked.
\* The status it read before the transaction is not tested again.
OverrideClaim(p) ==
    LET t == req[p].tkt IN
    /\ req[p].pc = "resolve" /\ req[p].out = "RESOLVED_OVERRIDDEN"
    /\ TicketFree(p, t)
    /\ ticket[t].receiver => PodRowFree(p, ticket[t].stop)
    /\ Goto(p, Handling("override", t, ticket[t].stop, ticket[t].receiver, req[p].out))
    /\ UNCHANGED <<delivery, sstatus, evidence, ticket>>

\* ... then updates the stop and reads all stops: its own is DELIVERED, the
\* others are as last committed.
OverrideStop(p) ==
    LET s == req[p].stop IN
    /\ req[p].pc = "override"
    /\ StopFree(p, s)
    /\ Goto(p, Handling("overrideCommit", req[p].tkt, s, req[p].receiver,
                   IF \A u \in Stops \ {s} : sstatus[u] \in TerminalStop
                     THEN "COMPLETED" ELSE "none"))
    /\ UNCHANGED <<delivery, sstatus, evidence, ticket>>

\* Fault: the delivery is written whatever was found.
DecidedUnchecked(p) == req[p].out
Decided(p) == IF req[p].out = "COMPLETED" THEN "COMPLETED" ELSE dstatus

\* ... then writes the delivery if all stops were terminal, and commits.
OverrideCommit(p) ==
    LET s == req[p].stop IN
    /\ req[p].pc = "overrideCommit"
    /\ ticket' = [ticket EXCEPT ![req[p].tkt] =
                    Resolved(req[p].tkt, "RESOLVED_OVERRIDDEN")]
    /\ pod' = IF req[p].receiver THEN [pod EXCEPT ![s] = "override"] ELSE pod
    /\ sstatus' = [sstatus EXCEPT ![s] = "DELIVERED"]
    /\ dstatus' = Decided(p)
    /\ Finish(p)
    /\ UNCHANGED <<driver, podEvents, idem>>

-----------------------------------------------------------------------------
(* Failures. *)

\* The process dies, or a statement errs: an open transaction rolls back and
\* what the request still had to do is never done.
Fail(p) ==
    /\ Failures
    /\ req[p].pc # "idle"
    /\ Reject(p)

\* PostgreSQL aborts one of two transactions that wait for each other:
\* submitPod holds the stop and needs the POD row, an override of the same
\* stop holds the POD row and needs the stop.
DeadlockVictim(p) ==
    /\ \E q \in Procs \ {p}, s \in Stops :
         \/ /\ req[p].pc = "podClaimed" /\ req[p].stop = s
            /\ req[q].pc = "override" /\ HoldsPodRow(q, s)
         \/ /\ req[q].pc = "podClaimed" /\ req[q].stop = s
            /\ req[p].pc = "override" /\ HoldsPodRow(p, s)
    /\ Reject(p)

-----------------------------------------------------------------------------
Arrive(p) ==
    \/ \E d \in Drivers : BeginAssign(p, d)
    \/ \E d \in Drivers : BeginAccept(p, d)
    \/ \E d \in Drivers : BeginStart(p, d)
    \/ BeginCancel(p)
    \/ BeginComplete(p)
    \/ \E op \in StopOps, s \in Stops : BeginStopOp(p, op, s)
    \/ \E d \in Drivers, s \in Stops, k \in Keys \cup {None} : BeginPod(p, d, s, k)
    \/ \E t \in Tickets, s \in Stops, receiver \in BOOLEAN :
         BeginOutbox(p, t, s, receiver)
    \/ \E t \in Tickets, r \in Resolutions : BeginResolve(p, t, r)

Proceed(p) ==
    \/ AssignWrite(p)
    \/ AcceptWrite(p)
    \/ StartWrite(p)
    \/ CancelWrite(p)
    \/ CancelRefused(p)
    \/ Evaluate(p)
    \/ EvaluateUnfinished(p)
    \/ ClaimCompletion(p)
    \/ ClaimLost(p)
    \/ StopScan(p)
    \/ StopWrite(p)
    \/ StopRefused(p)
    \/ PodScan(p)
    \/ PodClaim(p)
    \/ PodRefused(p)
    \/ PodCommit(p)
    \/ CreateTicket(p)
    \/ ResolveWrite(p)
    \/ OverrideClaim(p)
    \/ OverrideStop(p)
    \/ OverrideCommit(p)

Next == \E p \in Procs : Arrive(p) \/ Proceed(p) \/ Fail(p) \/ DeadlockVictim(p)

\* A statement that has been issued is eventually executed: lock waits are
\* served in order, and the deadlock detector breaks a cycle of waits.
Fairness == /\ \A p \in Procs : SF_vars(Proceed(p))
            /\ WF_vars(\E p \in Procs : DeadlockVictim(p))

Spec == Init /\ [][Next]_vars

-----------------------------------------------------------------------------
(* Properties. *)

\* The rows and the requests have their declared types (prisma/schema.prisma
\* enums and nullable columns).
TypeOK ==
    /\ dstatus \in DeliveryStatus
    /\ driver \in Drivers \cup {None}
    /\ sstatus \in [Stops -> StopStatus]
    /\ pod \in [Stops -> {"none", "submitted", "override"}]
    /\ podEvents \in [Stops -> Nat]
    /\ idem \in [Drivers -> [Keys -> Stops \cup {None}]]
    /\ ticket \in [Tickets -> TicketRow]
    /\ req \in [Procs -> Request]

\* What a request carries at each point: the rows it is about to write exist,
\* and a decision it is about to store is one the code can take.
RequestShape ==
    /\ \A p \in Procs :
         /\ req[p].pc = "write" /\ req[p].op \in StopOps => req[p].stop \in Stops
         /\ req[p].pc = "stopRow" => req[p].op \in StopOps /\ req[p].stop \in Stops
         /\ req[p].pc \in {"podTx", "podRow", "podClaimed"} =>
              req[p].stop \in Stops /\ req[p].drv \in Drivers
         /\ req[p].pc = "claim" => req[p].out \in {"COMPLETED", "FAILED"}
         /\ req[p].pc = "ticket" => req[p].tkt \in Tickets /\ req[p].stop \in Stops
         /\ req[p].pc = "resolve" =>
              req[p].out \in Resolutions
         /\ req[p].pc \in {"override", "overrideCommit"} =>
              req[p].stop \in Stops
         /\ req[p].pc \in {"resolve", "override", "overrideCommit"} =>
              req[p].tkt \in Tickets /\ ticket[req[p].tkt].state # "NONE"
    /\ \A t \in Tickets : ticket[t].state # "NONE" => ticket[t].stop \in Stops

\* A delivery is COMPLETED only with every stop terminal and one DELIVERED,
\* and FAILED only with every stop terminal, although the evaluator's read of
\* the stops and the write of the delivery are different statements and the
\* override writes the delivery without testing its status.
OutcomeMatchesStops ==
    /\ dstatus = "COMPLETED" => AllStopsTerminal /\ SomeStopDelivered
    /\ dstatus = "FAILED" => AllStopsTerminal

\* What makes OutcomeMatchesStops inductive: a decision taken from the stops
\* still holds when it is stored, because finished stops stay finished.
DecisionsHold ==
    \A p \in Procs :
       /\ req[p].pc = "claim" =>
            /\ AllStopsTerminal
            /\ req[p].out = "COMPLETED" => SomeStopDelivered
       /\ req[p].pc = "overrideCommit" /\ req[p].out = "COMPLETED" =>
            \A s \in Stops \ {req[p].stop} : sstatus[s] \in TerminalStop

\* However requests with the same or with different idempotency keys are
\* retried and overlap, submitPod stores at most one POD event per stop, and
\* the stop then is DELIVERED and has its POD row.
PodSubmittedOnce ==
    \A s \in Stops :
       /\ podEvents[s] <= 1
       /\ podEvents[s] = 1 => sstatus[s] = "DELIVERED" /\ pod[s] # "none"
       /\ pod[s] # "none" => sstatus[s] = "DELIVERED"

\* A stored idempotent answer tells the truth: the stop it names has been
\* delivered by submitPod, and no other key claims the same POD.
StoredAnswerIsTrue ==
    \A d \in Drivers, k \in Keys :
       idem[d][k] # None =>
          /\ podEvents[idem[d][k]] = 1
          /\ \A e \in Drivers, l \in Keys :
                idem[e][l] = idem[d][k] => e = d /\ l = k

\* A finished stop is never reopened: it keeps its status, except that an
\* override turns FAILED or SKIPPED into DELIVERED.
FinishedStopStays ==
    [][\A s \in Stops : sstatus[s] \in TerminalStop =>
          \/ sstatus'[s] = sstatus[s]
          \/ /\ sstatus'[s] = "DELIVERED"
             /\ \E p \in Procs : req[p].pc = "overrideCommit" /\ req[p].stop = s]_vars

Closed == dstatus \in TerminalDelivery
\* Statements that saw the delivery before it closed and have not ended.
UnderWay == {p \in Procs : req[p].pc \in {"stopRow", "podRow", "podClaimed"}}

\* Closing a delivery does not stop the updates whose statement had begun: the
\* sub-selects of updateStopIfOperational and submitPod are not read again.
\* But none gets under way any more, each may move its stop once and only if
\* the delivery was CANCELLED: under a COMPLETED or FAILED one the stop itself
\* refuses.  All else that moves stops of a closed delivery is an override.
LateUpdatesDrain ==
    [][Closed =>
          /\ UnderWay' \subseteq UnderWay
          /\ \A s \in Stops : sstatus'[s] # sstatus[s] =>
                \E p \in Procs :
                   /\ req[p].stop = s
                   /\ \/ req[p].pc = "overrideCommit"
                      \/ dstatus = "CANCELLED" /\ p \in UnderWay \ UnderWay']_vars

\* The rows of stops and proofs implement the promise of module StopOutcome:
\* statuses in order, delivered together with the proof or by an override.
Outcome == INSTANCE StopOutcome WITH status <- sstatus, proof <- pod
ImplementsStopOutcome == Outcome!Spec

\* Every request is answered: no lock wait and no cycle of waits lasts.
RequestsFinish == \A p \in Procs : req[p].pc # "idle" ~> req[p].pc = "idle"

-----------------------------------------------------------------------------
(* What the documents say of the same rows. *)

\* docs/distribution-system-docs/02-SRS.md, FR-CONFLICT-03: a command that no
\* longer matches the current state does not overwrite it.  Only an override
\* may then change a terminal delivery.
TerminalDeliveryStays ==
    [][dstatus' # dstatus /\ dstatus \in TerminalDelivery =>
          \E p \in Procs : req[p].pc = "overrideCommit"]_vars
=============================================================================
