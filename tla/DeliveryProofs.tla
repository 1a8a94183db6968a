-------------------------- MODULE DeliveryProofs --------------------------
(* Proofs about DeliveryLifecycle for any stops, drivers, keys, tickets and *)
(* any number of concurrent requests.                                       *)
EXTENDS MCDeliveryLive, TLAPS

TypeInv == TypeOK /\ RequestShape

\* The rows start out well typed.
LEMMA TypeInit == Init => TypeInv
BY NoneAssumption DEF Init, TypeInv, TypeOK, RequestShape, Idle, Request,
   DeliveryStatus, TerminalDelivery, StopStatus, TerminalStop, TicketRow,
   Resolutions, WriteOps, StopOps

\* The statuses a stop operation expects and stores.
LEMMA StopMoves ==
    ASSUME NEW op \in StopOps
    PROVE  /\ Becomes(op) \in StopStatus
           /\ Expected(op) \cap TerminalStop = {}
<1>1. CASE op = "depart"
  BY <1>1 DEF Becomes, Expected, StopStatus, TerminalStop
<1>2. CASE op = "arrive"
  BY <1>2 DEF Becomes, Expected, StopStatus, TerminalStop
<1>3. CASE op = "unload"
  BY <1>3 DEF Becomes, Expected, StopStatus, TerminalStop
<1>4. CASE op = "fail"
  BY <1>4 DEF Becomes, Expected, StopStatus, TerminalStop
<1>5. CASE op = "skip"
  BY <1>5 DEF Becomes, Expected, StopStatus, TerminalStop
<1> QED BY <1>1, <1>2, <1>3, <1>4, <1>5 DEF StopOps

\* A step that only changes the request of p to a well-formed one.
LEMMA TypeStutter == ASSUME TypeInv, UNCHANGED vars PROVE TypeInv'
BY DEF TypeInv, TypeOK, RequestShape, vars, delivery, evidence

\* The first read of every handler keeps the types.
LEMMA TypeArrive == ASSUME TypeInv, NEW p \in Procs, Arrive(p) PROVE TypeInv'
<1> USE DEF TypeInv, TypeOK, RequestShape, Begin, Idle, Writing,
            Completing, Submitting, Handling, Request, delivery,
            evidence, TicketRow, Resolutions, WriteOps, StopOps
<1>1. CASE \E d \in Drivers : BeginAssign(p, d)
  BY <1>1 DEF BeginAssign
<1>2. CASE \E d \in Drivers : BeginAccept(p, d)
  BY <1>2 DEF BeginAccept
<1>3. CASE \E d \in Drivers : BeginStart(p, d)
  BY <1>3 DEF BeginStart
<1>4. CASE BeginCancel(p)
  BY <1>4 DEF BeginCancel
<1>5. CASE BeginComplete(p)
  BY <1>5 DEF BeginComplete
<1>6. CASE \E op \in StopOps, s \in Stops : BeginStopOp(p, op, s)
  BY <1>6 DEF BeginStopOp
<1>7. CASE \E d \in Drivers, s \in Stops, k \in Keys \cup {None} : BeginPod(p, d, s, k)
  BY <1>7 DEF BeginPod
<1>8. CASE \E t \in Tickets, s \in Stops, receiver \in BOOLEAN :
              BeginOutbox(p, t, s, receiver)
  BY <1>8 DEF BeginOutbox
<1>9. CASE \E t \in Tickets, r \in Resolutions : BeginResolve(p, t, r)
  BY <1>9 DEF BeginResolve
<1> QED BY <1>1, <1>2, <1>3, <1>4, <1>5, <1>6, <1>7, <1>8, <1>9 DEF Arrive

\* A request that ends, or goes on to evaluate the delivery, leaves the
\* requests well-formed when no ticket disappears or changes its stop.
LEMMA ShapeDone ==
    ASSUME TypeInv, NEW p \in Procs,
           NEW r \in {Idle, Completing("eval", "none")},
           req' = [req EXCEPT ![p] = r],
           \A t \in Tickets : /\ ticket[t].state # "NONE" => ticket'[t].state # "NONE"
                              /\ ticket'[t].stop = ticket[t].stop
                              /\ ticket[t].state = "NONE" => ticket'[t].state = "NONE"
    PROVE  req' \in [Procs -> Request] /\ RequestShape'
<1>1. /\ r \in Request
      /\ r.pc \in {"idle", "eval"}
  <2>1. CASE r = Idle
    BY <2>1 DEF Idle, Request
  <2>2. CASE r = Completing("eval", "none")
    BY <2>2 DEF Completing, Request
  <2> QED BY <2>1, <2>2
<1>2. req' \in [Procs -> Request]
  BY <1>1 DEF TypeInv, TypeOK
<1>3. \A q \in Procs : req'[q] = IF q = p THEN r ELSE req[q]
  BY DEF TypeInv, TypeOK
<1>4. RequestShape'
  BY <1>1, <1>3 DEF RequestShape, TypeInv
<1> QED BY <1>2, <1>4

\* Every later statement of a handler keeps the types.
LEMMA TypeProceed == ASSUME TypeInv, NEW p \in Procs, Proceed(p) PROVE TypeInv'
<1> USE DEF TypeInv, TypeOK, RequestShape, Goto, Finish, Reject, Idle,
            Completing, Submitting, Handling, Request, delivery, evidence,
            TicketRow, Resolutions, DeliveryStatus, TerminalDelivery, StopStatus,
            TerminalStop
<1>1. CASE AssignWrite(p)
  BY <1>1 DEF AssignWrite
<1>2. CASE AcceptWrite(p)
  BY <1>2 DEF AcceptWrite
<1>3. CASE StartWrite(p)
  BY <1>3 DEF StartWrite
<1>4. CASE CancelWrite(p)
  BY <1>4 DEF CancelWrite
<1>5. CASE CancelRefused(p)
  BY <1>5 DEF CancelRefused
<1>6. CASE Evaluate(p)
  BY <1>6 DEF Evaluate
<1>7. CASE EvaluateUnfinished(p)
  BY <1>7 DEF EvaluateUnfinished
<1>8. CASE ClaimCompletion(p)
  BY <1>8 DEF ClaimCompletion
<1>9. CASE ClaimLost(p)
  BY <1>9 DEF ClaimLost
<1>10. CASE StopWrite(p)
  <2>1. Becomes(req[p].op) \in StopStatus
    BY <1>10, StopMoves DEF StopWrite
  <2>2. sstatus' \in [Stops -> StopStatus]
    BY <1>10, <2>1 DEF StopWrite
  <2>3. PICK r \in {Idle, Completing("eval", "none")} : req' = [req EXCEPT ![p] = r]
    BY <1>10 DEF StopWrite
  <2>4. ticket' = ticket
    BY <1>10 DEF StopWrite
  <2>5. req' \in [Procs -> Request] /\ RequestShape'
    BY <2>3, <2>4, ShapeDone
  <2> QED BY <1>10, <2>2, <2>5 DEF StopWrite
<1>11. CASE StopRefused(p)
  BY <1>11 DEF StopRefused
<1>12. CASE PodClaim(p)
  BY <1>12 DEF PodClaim
<1>20. CASE StopScan(p)
  BY <1>20 DEF StopScan, Writing, WriteOps, StopOps
<1>21. CASE PodScan(p)
  BY <1>21 DEF PodScan
<1>13. CASE PodRefused(p)
  BY <1>13 DEF PodRefused
<1>14. CASE PodCommit(p)
  BY <1>14 DEF PodCommit
<1>15. CASE CreateTicket(p)
  BY <1>15 DEF CreateTicket
<1>16. CASE ResolveWrite(p)
  BY <1>16 DEF ResolveWrite, Resolved
<1>17. CASE OverrideClaim(p)
  BY <1>17 DEF OverrideClaim
<1>18. CASE OverrideStop(p)
  BY <1>18 DEF OverrideStop
<1>19. CASE OverrideCommit(p)
  <2>1. dstatus' \in DeliveryStatus
    BY <1>19 DEF OverrideCommit, Decided
  <2>2. /\ sstatus' \in [Stops -> StopStatus]
        /\ pod' \in [Stops -> {"none", "submitted", "override"}]
    BY <1>19 DEF OverrideCommit
  <2>3. ticket' \in [Tickets -> TicketRow]
    BY <1>19 DEF OverrideCommit, Resolved
  <2>4. \A t \in Tickets : /\ ticket[t].state # "NONE" => ticket'[t].state # "NONE"
                           /\ ticket'[t].stop = ticket[t].stop
                           /\ ticket[t].state = "NONE" => ticket'[t].state = "NONE"
    BY <1>19 DEF OverrideCommit, Resolved
  <2>5. req' \in [Procs -> Request] /\ RequestShape'
    BY <1>19, <2>4, ShapeDone DEF OverrideCommit
  <2> QED BY <1>19, <2>1, <2>2, <2>3, <2>4, <2>5 DEF OverrideCommit
<1> QED BY <1>1, <1>2, <1>3, <1>4, <1>5, <1>6, <1>7, <1>8, <1>9, <1>10, <1>11, <1>12, <1>13, <1>14, <1>15, <1>16, <1>17, <1>18, <1>19, <1>20, <1>21
       DEF Proceed

\* A request that fails or is chosen by the deadlock detector keeps the types.
LEMMA TypeReject ==
    ASSUME TypeInv, NEW p \in Procs, Fail(p) \/ DeadlockVictim(p)
    PROVE  TypeInv'
<1>1. req' = [req EXCEPT ![p] = Idle]
  BY DEF Fail, DeadlockVictim, Reject, Finish
<1>2. UNCHANGED <<delivery, sstatus, evidence, ticket>>
  BY DEF Fail, DeadlockVictim, Reject
<1>3. req' \in [Procs -> Request] /\ RequestShape'
  BY <1>1, <1>2, ShapeDone
<1> QED BY <1>2, <1>3 DEF TypeInv, TypeOK, delivery, evidence

\* Every step keeps the types.
LEMMA TypeStep == ASSUME TypeInv, [Next]_vars PROVE TypeInv'
BY TypeStutter, TypeArrive, TypeProceed, TypeReject DEF Next

\* Every reachable state has well-typed rows, and every request carries
\* existing rows and a decision that may be stored.
THEOREM TypeCorrect == Spec => [](TypeOK /\ RequestShape)
<1>1. Init => TypeInv
  BY TypeInit
<1>2. TypeInv /\ [Next]_vars => TypeInv'
  BY TypeStep
<1> QED BY <1>1, <1>2, PTL DEF Spec, TypeInv

-----------------------------------------------------------------------------
\* A step leaves the stops alone, or writes one stop that p works on.
LEMMA StopStep ==
    ASSUME TypeInv, [Next]_vars
    PROVE  \/ sstatus' = sstatus
           \/ \E p \in Procs :
                \/ StopWrite(p)
                \/ PodCommit(p)
                \/ OverrideCommit(p)
BY DEF Next, vars, Arrive, BeginAssign, BeginAccept, BeginStart, BeginCancel,
   BeginComplete, BeginStopOp, BeginPod, BeginOutbox, BeginResolve, Proceed,
   AssignWrite, AcceptWrite, StartWrite, CancelWrite, CancelRefused, Evaluate,
   EvaluateUnfinished, ClaimCompletion, ClaimLost, StopScan, StopRefused, PodScan, PodClaim,
   PodRefused, CreateTicket, ResolveWrite, OverrideClaim, OverrideStop, Fail,
   DeadlockVictim, Reject

\* A finished stop stays finished and a delivered one stays delivered.
LEMMA FinishedStays ==
    ASSUME TypeInv, [Next]_vars, NEW s \in Stops
    PROVE  /\ sstatus[s] \in TerminalStop => sstatus'[s] \in TerminalStop
           /\ sstatus[s] = "DELIVERED" => sstatus'[s] = "DELIVERED"
<1> USE DEF TypeInv, TypeOK, RequestShape
<1>1. CASE sstatus' = sstatus
  BY <1>1
<1>2. ASSUME NEW p \in Procs, StopWrite(p)
      PROVE  sstatus[s] \in TerminalStop => sstatus'[s] = sstatus[s]
  <2>1. req[p].op \in StopOps /\ sstatus[req[p].stop] \in Expected(req[p].op)
    BY <1>2 DEF StopWrite, StopAsExpected
  <2>2. sstatus[req[p].stop] \notin TerminalStop
    BY <2>1, StopMoves
  <2> QED BY <1>2, <2>2 DEF StopWrite
<1>3. ASSUME NEW p \in Procs, PodCommit(p) \/ OverrideCommit(p)
      PROVE  sstatus'[s] \in {sstatus[s], "DELIVERED"}
  BY <1>3 DEF PodCommit, OverrideCommit
<1> QED BY <1>1, <1>2, <1>3, StopStep DEF TerminalStop

\* Only Evaluate and OverrideStop take a decision.
LEMMA DecisionStep ==
    ASSUME TypeInv, [Next]_vars, NEW p \in Procs
    PROVE  \/ req'[p] = req[p]
           \/ Evaluate(p)
           \/ OverrideStop(p)
           \/ req'[p].pc \notin {"claim", "overrideCommit"}
<1> USE DEF TypeInv, TypeOK, Idle, Writing, Completing, Submitting, Handling
<1>1. CASE UNCHANGED vars
  BY <1>1 DEF vars
<1>2. ASSUME NEW q \in Procs, Arrive(q)
      PROVE  req'[p] = req[p] \/ req'[p].pc \notin {"claim", "overrideCommit"}
  BY <1>2 DEF Arrive, Begin, BeginAssign, BeginAccept, BeginStart, BeginCancel,
     BeginComplete, BeginStopOp, BeginPod, BeginOutbox, BeginResolve
<1>3. ASSUME NEW q \in Procs, Proceed(q), ~Evaluate(q), ~OverrideStop(q)
      PROVE  req'[p] = req[p] \/ req'[p].pc \notin {"claim", "overrideCommit"}
  BY <1>3 DEF Proceed, Goto, Finish, Reject, AssignWrite, AcceptWrite, StartWrite,
     CancelWrite, CancelRefused, EvaluateUnfinished, ClaimCompletion, ClaimLost,
     StopScan, StopWrite, StopRefused, PodScan, PodClaim, PodRefused, PodCommit, CreateTicket,
     ResolveWrite, OverrideClaim, OverrideCommit
<1>4. ASSUME NEW q \in Procs, Fail(q) \/ DeadlockVictim(q)
      PROVE  req'[p] = req[p] \/ req'[p].pc \notin {"claim", "overrideCommit"}
  BY <1>4 DEF Fail, DeadlockVictim, Reject, Finish
<1>5. ASSUME NEW q \in Procs, q # p, Evaluate(q) \/ OverrideStop(q)
      PROVE  req'[p] = req[p]
  BY <1>5 DEF Evaluate, OverrideStop, Goto
<1> QED BY <1>1, <1>2, <1>3, <1>4, <1>5 DEF Next

OutcomeInv == TypeInv /\ OutcomeMatchesStops /\ DecisionsHold

\* No outcome is stored or decided at first.
LEMMA OutcomeInit == Init => OutcomeInv
BY TypeInit DEF Init, OutcomeInv, OutcomeMatchesStops, DecisionsHold, Idle

\* Every step keeps stored and decided outcomes in agreement with the stops.
LEMMA OutcomeStep == ASSUME OutcomeInv, [Next]_vars PROVE OutcomeInv'
<1>1. TypeInv /\ TypeInv'
  BY TypeStep DEF OutcomeInv
<1>2. /\ AllStopsTerminal => AllStopsTerminal'
      /\ SomeStopDelivered => SomeStopDelivered'
      /\ \A s \in Stops : sstatus[s] \in TerminalStop => sstatus'[s] \in TerminalStop
  BY <1>1, FinishedStays DEF AllStopsTerminal, SomeStopDelivered
<1>3. OutcomeMatchesStops'
  <2>1. CASE dstatus' = dstatus
    BY <1>2, <2>1 DEF OutcomeInv, OutcomeMatchesStops
  <2>2. CASE dstatus' \notin {"COMPLETED", "FAILED"}
    BY <2>2 DEF OutcomeMatchesStops
  <2>3. ASSUME NEW p \in Procs, ClaimCompletion(p)
        PROVE  OutcomeMatchesStops'
    <3>1. AllStopsTerminal /\ (dstatus' = "COMPLETED" => SomeStopDelivered)
      BY <2>3 DEF ClaimCompletion, OutcomeInv, DecisionsHold
    <3> QED BY <1>2, <3>1 DEF OutcomeMatchesStops
  <2>4. ASSUME NEW p \in Procs, OverrideCommit(p), dstatus' # dstatus
        PROVE  OutcomeMatchesStops'
    <3>1. req[p].stop \in Stops /\ req[p].pc = "overrideCommit"
      BY <1>1, <2>4 DEF OverrideCommit, TypeInv, RequestShape
    <3>2. req[p].out = "COMPLETED" /\ dstatus' = "COMPLETED"
      BY <2>4 DEF OverrideCommit, Decided
    <3>3. sstatus'[req[p].stop] = "DELIVERED"
      BY <1>1, <2>4, <3>1 DEF OverrideCommit, TypeInv, TypeOK
    <3>4. \A s \in Stops \ {req[p].stop} : sstatus'[s] \in TerminalStop
      BY <1>2, <3>1, <3>2 DEF OutcomeInv, DecisionsHold
    <3> QED BY <3>1, <3>2, <3>3, <3>4
            DEF OutcomeMatchesStops, AllStopsTerminal, SomeStopDelivered, TerminalStop
  <2>5. \/ dstatus' = dstatus
        \/ dstatus' \notin {"COMPLETED", "FAILED"}
        \/ \E p \in Procs : ClaimCompletion(p) \/ OverrideCommit(p)
    <3>1. CASE UNCHANGED vars
      BY <3>1 DEF vars, delivery
    <3>2. ASSUME NEW p \in Procs, Arrive(p) PROVE dstatus' = dstatus
      BY <3>2 DEF delivery, Arrive, BeginAssign, BeginAccept, BeginStart, BeginCancel,
         BeginComplete, BeginStopOp, BeginPod, BeginOutbox, BeginResolve
    <3>3. ASSUME NEW p \in Procs, Proceed(p), ~ClaimCompletion(p), ~OverrideCommit(p)
          PROVE  dstatus' = dstatus \/ dstatus' \notin {"COMPLETED", "FAILED"}
      BY <3>3 DEF delivery, Proceed, AssignWrite, AcceptWrite, StartWrite,
         CancelWrite, CancelRefused, Evaluate, EvaluateUnfinished, ClaimLost,
         StopScan, StopWrite, StopRefused, PodScan, PodClaim, PodRefused, PodCommit, CreateTicket,
         ResolveWrite, OverrideClaim, OverrideStop, Reject
    <3>4. ASSUME NEW p \in Procs, Fail(p) \/ DeadlockVictim(p) PROVE dstatus' = dstatus
      BY <3>4 DEF delivery, Fail, DeadlockVictim, Reject
    <3> QED BY <3>1, <3>2, <3>3, <3>4 DEF Next
  <2> QED BY <2>1, <2>2, <2>3, <2>4, <2>5
<1>4. DecisionsHold'
  <2> SUFFICES ASSUME NEW p \in Procs
               PROVE  /\ req'[p].pc = "claim" =>
                           /\ AllStopsTerminal'
                           /\ req'[p].out = "COMPLETED" => SomeStopDelivered'
                      /\ req'[p].pc = "overrideCommit" /\ req'[p].out = "COMPLETED" =>
                           \A s \in Stops \ {req'[p].stop} : sstatus'[s] \in TerminalStop
    BY DEF DecisionsHold
  <2>1. CASE req'[p] = req[p]
    BY <1>2, <2>1 DEF OutcomeInv, DecisionsHold
  <2>2. CASE Evaluate(p)
    BY <1>1, <1>2, <2>2
       DEF Evaluate, Goto, Completing, Eligible, TypeInv, TypeOK
  <2>3. CASE OverrideStop(p)
    BY <1>1, <1>2, <2>3 DEF OverrideStop, Goto, Handling, TypeInv, TypeOK
  <2>4. CASE req'[p].pc \notin {"claim", "overrideCommit"}
    BY <2>4
  <2> QED BY <1>1, <2>1, <2>2, <2>3, <2>4, DecisionStep
<1> QED BY <1>1, <1>3, <1>4 DEF OutcomeInv

\* A COMPLETED delivery has all stops terminal and one DELIVERED, a FAILED one
\* has all stops terminal, for any number of concurrent requests.
THEOREM OutcomeCorrect == Spec => []OutcomeMatchesStops
<1>1. Init => OutcomeInv
  BY OutcomeInit
<1>2. OutcomeInv /\ [Next]_vars => OutcomeInv'
  BY OutcomeStep
<1>3. OutcomeInv => OutcomeMatchesStops
  BY DEF OutcomeInv
<1> QED BY <1>1, <1>2, <1>3, PTL DEF Spec

-----------------------------------------------------------------------------
\* One request moves; it takes locks in four actions and otherwise holds none
\* afterwards.
LEMMA LockStep ==
    ASSUME TypeInv, [Next]_vars
    PROVE  \/ req' = req
           \/ \E p \in Procs :
                /\ \A q \in Procs \ {p} : req'[q] = req[q]
                /\ \/ PodScan(p)
                   \/ PodClaim(p)
                   \/ OverrideClaim(p)
                   \/ OverrideStop(p)
                   \/ req'[p].pc \notin {"podRow", "podClaimed", "override", "overrideCommit"}
<1> USE DEF TypeInv, TypeOK, Idle, Writing, Completing, Submitting, Handling
<1>1. CASE UNCHANGED vars
  BY <1>1 DEF vars
<1>2. ASSUME NEW p \in Procs, Arrive(p)
      PROVE  /\ \A q \in Procs \ {p} : req'[q] = req[q]
             /\ req'[p].pc \notin {"podRow", "podClaimed", "override", "overrideCommit"}
  BY <1>2 DEF Arrive, Begin, BeginAssign, BeginAccept, BeginStart, BeginCancel,
     BeginComplete, BeginStopOp, BeginPod, BeginOutbox, BeginResolve
<1>3. ASSUME NEW p \in Procs, Proceed(p)
      PROVE  /\ \A q \in Procs \ {p} : req'[q] = req[q]
             /\ \/ PodScan(p)
                \/ PodClaim(p)
                \/ OverrideClaim(p)
                \/ OverrideStop(p)
                \/ req'[p].pc \notin {"podRow", "podClaimed", "override", "overrideCommit"}
  <2>1. CASE PodScan(p) \/ PodClaim(p) \/ OverrideClaim(p) \/ OverrideStop(p)
    BY <2>1 DEF PodScan, PodClaim, OverrideClaim, OverrideStop, Goto
  <2>2. CASE ~(PodScan(p) \/ PodClaim(p) \/ OverrideClaim(p) \/ OverrideStop(p))
    BY <1>3, <2>2 DEF Proceed, Goto, Finish, Reject, AssignWrite, AcceptWrite,
       StartWrite, CancelWrite, CancelRefused, Evaluate, EvaluateUnfinished,
       ClaimCompletion, ClaimLost, StopScan, StopWrite, StopRefused, PodRefused, PodCommit,
       CreateTicket, ResolveWrite, OverrideCommit
  <2> QED BY <2>1, <2>2
<1>4. ASSUME NEW p \in Procs, Fail(p) \/ DeadlockVictim(p)
      PROVE  /\ \A q \in Procs \ {p} : req'[q] = req[q]
             /\ req'[p].pc \notin {"podRow", "podClaimed", "override", "overrideCommit"}
  BY <1>4 DEF Fail, DeadlockVictim, Reject, Finish
<1> QED BY <1>1, <1>2, <1>3, <1>4 DEF Next

\* No two open transactions hold the same stop, POD row, ticket or key.
LocksExclusive ==
    \A p, q \in Procs : p # q =>
       /\ \A s \in Stops : ~(HoldsStop(p, s) /\ HoldsStop(q, s))
       /\ \A s \in Stops : ~(HoldsPodRow(p, s) /\ HoldsPodRow(q, s))
       /\ \A t \in Tickets : ~(HoldsTicket(p, t) /\ HoldsTicket(q, t))
       /\ \A d \in Drivers, k \in Keys : ~(HoldsKey(p, d, k) /\ HoldsKey(q, d, k))
\* The stop that submitPod has claimed keeps its status until the commit.
ClaimedStopWaits ==
    \A p \in Procs : req[p].pc = "podClaimed" =>
       sstatus[req[p].stop] \in {"UNLOADING", "ARRIVED"}

\* No step lets two open transactions hold the same lock.
LEMMA LocksStep ==
    ASSUME TypeInv, LocksExclusive, [Next]_vars
    PROVE  LocksExclusive'
<1>1. CASE req' = req
  BY <1>1 DEF LocksExclusive, HoldsStop, HoldsPodRow, HoldsTicket, HoldsKey
<1>2. ASSUME NEW p \in Procs, \A q \in Procs \ {p} : req'[q] = req[q],
             \/ PodScan(p)
             \/ PodClaim(p)
             \/ OverrideClaim(p)
             \/ OverrideStop(p)
             \/ req'[p].pc \notin {"podRow", "podClaimed", "override", "overrideCommit"}
      PROVE  LocksExclusive'
  <2>1. ASSUME NEW q \in Procs, NEW r \in Procs, q # p, r # p, q # r
        PROVE  /\ \A s \in Stops : ~(HoldsStop(q, s) /\ HoldsStop(r, s))'
               /\ \A s \in Stops : ~(HoldsPodRow(q, s) /\ HoldsPodRow(r, s))'
               /\ \A t \in Tickets : ~(HoldsTicket(q, t) /\ HoldsTicket(r, t))'
               /\ \A d \in Drivers, k \in Keys :
                     ~(HoldsKey(q, d, k) /\ HoldsKey(r, d, k))'
    BY <1>2, <2>1 DEF LocksExclusive, HoldsStop, HoldsPodRow, HoldsTicket, HoldsKey
  <2>2. ASSUME NEW q \in Procs, q # p
        PROVE  /\ \A s \in Stops : ~(HoldsStop(p, s) /\ HoldsStop(q, s))'
               /\ \A s \in Stops : ~(HoldsPodRow(p, s) /\ HoldsPodRow(q, s))'
               /\ \A t \in Tickets : ~(HoldsTicket(p, t) /\ HoldsTicket(q, t))'
               /\ \A d \in Drivers, k \in Keys :
                     ~(HoldsKey(p, d, k) /\ HoldsKey(q, d, k))'
    <3> USE <1>2, <2>2, NoneAssumption
        DEF TypeInv, TypeOK, RequestShape, HoldsStop, HoldsPodRow, HoldsTicket, HoldsKey
    <3>0. CASE PodScan(p)
      BY <3>0 DEF PodScan, KeyFree, Goto, Submitting
    <3>1. CASE PodClaim(p)
      BY <3>1 DEF PodClaim, StopFree, Goto, Submitting, LocksExclusive
    <3>2. CASE OverrideClaim(p)
      BY <3>2 DEF OverrideClaim, TicketFree, PodRowFree, Goto, Handling
    <3>3. CASE OverrideStop(p)
      BY <3>3 DEF OverrideStop, StopFree, Goto, Handling, LocksExclusive
    <3>4. CASE req'[p].pc \notin {"podRow", "podClaimed", "override", "overrideCommit"}
      BY <3>4
    <3> QED BY <3>0, <3>1, <3>2, <3>3, <3>4
  <2> QED BY <2>1, <2>2 DEF LocksExclusive
<1> QED BY <1>1, <1>2, LockStep

\* A claimed stop does not move before the commit of its transaction.
LEMMA ClaimedStep ==
    ASSUME TypeInv, LocksExclusive, ClaimedStopWaits, [Next]_vars
    PROVE  ClaimedStopWaits'
<1> SUFFICES ASSUME NEW p \in Procs, req'[p].pc = "podClaimed"
             PROVE  sstatus'[req'[p].stop] \in {"UNLOADING", "ARRIVED"}
  BY DEF ClaimedStopWaits
<1> USE DEF TypeInv, TypeOK, RequestShape
<1>1. CASE PodClaim(p)
  BY <1>1 DEF PodClaim, ClaimedStatus, Goto, Submitting
<1>2. CASE ~PodClaim(p)
  <2>1. req'[p] = req[p]
    <3>1. ~PodScan(p) /\ ~OverrideClaim(p) /\ ~OverrideStop(p)
      BY DEF PodScan, OverrideClaim, OverrideStop, Goto, Submitting, Handling
    <3> QED BY <1>2, <3>1, LockStep
  <2>2. HoldsStop(p, req[p].stop) /\ req[p].stop \in Stops
    BY <2>1 DEF HoldsStop
  <2>3. ASSUME NEW q \in Procs, StopWrite(q) PROVE sstatus'[req[p].stop] = sstatus[req[p].stop]
    <3>1. q # p
      BY <2>1, <2>3 DEF StopWrite
    <3>2. req[q].stop # req[p].stop
      BY <2>2, <2>3, <3>1 DEF StopWrite, StopFree
    <3> QED BY <2>2, <2>3, <3>2 DEF StopWrite
  <2>4. ASSUME NEW q \in Procs, PodCommit(q) \/ OverrideCommit(q)
        PROVE  sstatus'[req[p].stop] = sstatus[req[p].stop]
    <3>1. q # p
      BY <2>1, <2>4 DEF PodCommit, OverrideCommit, Goto, Finish, Completing, Idle
    <3>2. HoldsStop(q, req[q].stop) /\ req[q].stop \in Stops
      BY <2>4 DEF PodCommit, OverrideCommit, HoldsStop
    <3>3. req[q].stop # req[p].stop
      BY <2>2, <3>1, <3>2 DEF LocksExclusive
    <3> QED BY <2>2, <2>4, <3>3 DEF PodCommit, OverrideCommit
  <2> QED BY <2>1, <2>3, <2>4, StopStep DEF ClaimedStopWaits
<1> QED BY <1>1, <1>2

-----------------------------------------------------------------------------
\* The evidence tables change only when submitPod or an override commits.
LEMMA EvidenceStep ==
    ASSUME [Next]_vars
    PROVE  \/ UNCHANGED evidence
           \/ \E p \in Procs : PodCommit(p) \/ OverrideCommit(p)
<1>1. ASSUME NEW p \in Procs, Arrive(p) PROVE UNCHANGED evidence
  BY <1>1 DEF Arrive, BeginAssign, BeginAccept, BeginStart, BeginCancel,
     BeginComplete, BeginStopOp, BeginPod, BeginOutbox, BeginResolve
<1>2. ASSUME NEW p \in Procs, Proceed(p), ~PodCommit(p), ~OverrideCommit(p)
      PROVE  UNCHANGED evidence
  BY <1>2 DEF Proceed, AssignWrite, AcceptWrite, StartWrite, CancelWrite,
     CancelRefused, Evaluate, EvaluateUnfinished, ClaimCompletion, ClaimLost,
     StopScan, StopWrite, StopRefused, PodScan, PodClaim, PodRefused, CreateTicket, ResolveWrite,
     OverrideClaim, OverrideStop, Reject
<1>3. ASSUME NEW p \in Procs, Fail(p) \/ DeadlockVictim(p) PROVE UNCHANGED evidence
  BY <1>3 DEF Fail, DeadlockVictim, Reject
<1> QED BY <1>1, <1>2, <1>3 DEF Next, vars

\* The stop that submitPod commits has no POD event and no POD row yet.
LEMMA CommitIsFirst ==
    ASSUME TypeInv, ClaimedStopWaits, PodSubmittedOnce, NEW p \in Procs, PodCommit(p)
    PROVE  /\ req[p].stop \in Stops
           /\ podEvents[req[p].stop] = 0
           /\ pod[req[p].stop] = "none"
<1>1. req[p].stop \in Stops /\ sstatus[req[p].stop] # "DELIVERED"
  BY DEF PodCommit, ClaimedStopWaits, TypeInv, RequestShape
<1>2. podEvents[req[p].stop] \in Nat /\ podEvents[req[p].stop] <= 1
  BY <1>1 DEF PodSubmittedOnce, TypeInv, TypeOK
<1>3. podEvents[req[p].stop] # 1 /\ pod[req[p].stop] = "none"
  BY <1>1 DEF PodSubmittedOnce
<1> QED BY <1>1, <1>2, <1>3

\* Every step keeps one submitted proof per stop.
LEMMA PodStep ==
    ASSUME TypeInv, ClaimedStopWaits, PodSubmittedOnce, [Next]_vars
    PROVE  PodSubmittedOnce'
<1> USE DEF TypeInv, TypeOK
<1> SUFFICES ASSUME NEW s \in Stops
             PROVE  /\ podEvents'[s] <= 1
                    /\ podEvents'[s] = 1 => sstatus'[s] = "DELIVERED" /\ pod'[s] # "none"
                    /\ pod'[s] # "none" => sstatus'[s] = "DELIVERED"
  BY DEF PodSubmittedOnce
<1>1. sstatus[s] = "DELIVERED" => sstatus'[s] = "DELIVERED"
  BY FinishedStays
<1>2. CASE UNCHANGED evidence
  BY <1>1, <1>2 DEF PodSubmittedOnce, evidence
<1>3. ASSUME NEW p \in Procs, PodCommit(p)
      PROVE  /\ podEvents'[s] <= 1
             /\ podEvents'[s] = 1 => sstatus'[s] = "DELIVERED" /\ pod'[s] # "none"
             /\ pod'[s] # "none" => sstatus'[s] = "DELIVERED"
  <2>1. CASE s = req[p].stop
    <3>1. podEvents[s] = 0
      BY <1>3, <2>1, CommitIsFirst
    <3>2. podEvents'[s] = 1
      BY <1>3, <2>1, <3>1 DEF PodCommit
    <3>3. sstatus'[s] = "DELIVERED" /\ pod'[s] = "submitted"
      BY <1>3, <2>1 DEF PodCommit
    <3> QED BY <3>2, <3>3
  <2>2. CASE s # req[p].stop
    BY <1>1, <1>3, <2>2 DEF PodCommit, PodSubmittedOnce
  <2> QED BY <2>1, <2>2
<1>4. ASSUME NEW p \in Procs, OverrideCommit(p)
      PROVE  /\ podEvents'[s] <= 1
             /\ podEvents'[s] = 1 => sstatus'[s] = "DELIVERED" /\ pod'[s] # "none"
             /\ pod'[s] # "none" => sstatus'[s] = "DELIVERED"
  <2>1. podEvents' = podEvents
    BY <1>4 DEF OverrideCommit
  <2>2. CASE s = req[p].stop
    BY <1>4, <2>1, <2>2 DEF OverrideCommit, PodSubmittedOnce
  <2>3. CASE s # req[p].stop
    BY <1>1, <1>4, <2>1, <2>3 DEF OverrideCommit, PodSubmittedOnce
  <2> QED BY <2>2, <2>3
<1> QED BY <1>2, <1>3, <1>4, EvidenceStep

\* Every step keeps the stored answers true.
LEMMA StoredStep ==
    ASSUME TypeInv, ClaimedStopWaits, PodSubmittedOnce, StoredAnswerIsTrue, [Next]_vars
    PROVE  StoredAnswerIsTrue'
<1> USE DEF TypeInv, TypeOK
<1>1. CASE UNCHANGED evidence \/ \E p \in Procs : OverrideCommit(p)
  BY <1>1 DEF StoredAnswerIsTrue, evidence, OverrideCommit
<1>2. ASSUME NEW p \in Procs, PodCommit(p)
      PROVE  StoredAnswerIsTrue'
  <2> DEFINE s == req[p].stop
  <2>1. s \in Stops /\ podEvents[s] = 0
    BY <1>2, CommitIsFirst
  <2>2. s # None
    BY <2>1, NoneAssumption
  <2>3. /\ podEvents'[s] = 1
        /\ \A u \in Stops \ {s} : podEvents'[u] = podEvents[u]
    BY <1>2, <2>1 DEF PodCommit
  <2>4. \A d \in Drivers, k \in Keys : idem[d][k] # s
    BY <2>1, <2>2 DEF StoredAnswerIsTrue
  <2>5. \A d \in Drivers, k \in Keys :
           idem'[d][k] = IF d = req[p].drv /\ k = req[p].key THEN s ELSE idem[d][k]
    BY <1>2, NoneAssumption DEF PodCommit, RequestShape
  <2>6. \A d \in Drivers, k \in Keys : idem[d][k] # None => podEvents'[idem[d][k]] = 1
    BY <2>3, <2>4 DEF StoredAnswerIsTrue
  <2> HIDE DEF s
  <2> QED BY <2>2, <2>3, <2>4, <2>5, <2>6 DEF StoredAnswerIsTrue
<1> QED BY <1>1, <1>2, EvidenceStep

EvidenceInv == /\ TypeInv
               /\ LocksExclusive
               /\ ClaimedStopWaits
               /\ PodSubmittedOnce
               /\ StoredAnswerIsTrue

\* There is no proof and no stored answer at first.
LEMMA EvidenceInit == Init => EvidenceInv
<1> SUFFICES ASSUME Init PROVE EvidenceInv
  OBVIOUS
<1>1. TypeInv
  BY TypeInit
<1>2. LocksExclusive /\ ClaimedStopWaits
  BY DEF Init, LocksExclusive, ClaimedStopWaits, HoldsStop, HoldsPodRow,
     HoldsTicket, HoldsKey, Idle
<1>3. PodSubmittedOnce /\ StoredAnswerIsTrue
  BY DEF Init, PodSubmittedOnce, StoredAnswerIsTrue
<1> QED BY <1>1, <1>2, <1>3 DEF EvidenceInv

\* Locks, proofs and stored answers fit together in every reachable state.
LEMMA EvidenceInductive == Spec => []EvidenceInv
<1>1. Init => EvidenceInv
  BY EvidenceInit
<1>2. EvidenceInv /\ [Next]_vars => EvidenceInv'
  BY TypeStep, LocksStep, ClaimedStep, PodStep, StoredStep DEF EvidenceInv
<1> QED BY <1>1, <1>2, PTL DEF Spec

\* At most one POD event per stop, stored with the POD row and the DELIVERED
\* status, for any keys, retries and overlapping requests.
THEOREM PodCorrect == Spec => []PodSubmittedOnce
<1>1. EvidenceInv => PodSubmittedOnce
  BY DEF EvidenceInv
<1> QED BY <1>1, EvidenceInductive, PTL

\* A stored idempotent answer names a stop that submitPod delivered, and no
\* two keys name the same stop.
THEOREM StoredAnswerCorrect == Spec => []StoredAnswerIsTrue
<1>1. EvidenceInv => StoredAnswerIsTrue
  BY DEF EvidenceInv
<1> QED BY <1>1, EvidenceInductive, PTL

-----------------------------------------------------------------------------
\* A finished stop keeps its status unless an override delivers it.
THEOREM FinishedCorrect == Spec => FinishedStopStays
<1> DEFINE A == \A s \in Stops : sstatus[s] \in TerminalStop =>
                   \/ sstatus'[s] = sstatus[s]
                   \/ /\ sstatus'[s] = "DELIVERED"
                      /\ \E p \in Procs : req[p].pc = "overrideCommit" /\ req[p].stop = s
<1>1. EvidenceInv /\ [Next]_vars => [A]_vars
  <2> SUFFICES ASSUME EvidenceInv, [Next]_vars, NEW s \in Stops,
                      sstatus[s] \in TerminalStop, sstatus'[s] # sstatus[s]
               PROVE  /\ sstatus'[s] = "DELIVERED"
                      /\ \E p \in Procs : req[p].pc = "overrideCommit" /\ req[p].stop = s
    OBVIOUS
  <2> USE DEF EvidenceInv, TypeInv, TypeOK, RequestShape
  <2>1. ASSUME NEW p \in Procs, StopWrite(p) PROVE FALSE
    <3>1. sstatus[req[p].stop] \notin TerminalStop
      BY <2>1, StopMoves DEF StopWrite, StopAsExpected
    <3> QED BY <2>1, <3>1 DEF StopWrite
  <2>2. ASSUME NEW p \in Procs, PodCommit(p) PROVE FALSE
    <3>1. sstatus[req[p].stop] \notin TerminalStop
      BY <2>2 DEF PodCommit, ClaimedStopWaits, TerminalStop
    <3> QED BY <2>2, <3>1 DEF PodCommit
  <2>3. ASSUME NEW p \in Procs, OverrideCommit(p)
        PROVE  /\ sstatus'[s] = "DELIVERED"
               /\ req[p].pc = "overrideCommit" /\ req[p].stop = s
    BY <2>3 DEF OverrideCommit
  <2> QED BY <2>1, <2>2, <2>3, StopStep
<1> QED BY <1>1, EvidenceInductive, PTL DEF Spec, FinishedStopStays

\* Only StopScan and PodScan begin an update of a stop, on a snapshot that has
\* the delivery operational.
LEMMA UnderWayStep ==
    ASSUME TypeInv, [Next]_vars, Closed, NEW p \in Procs, p \in UnderWay'
    PROVE  p \in UnderWay
<1> USE DEF TypeInv, TypeOK, UnderWay
<1>1. ~StopScan(p) /\ ~PodScan(p)
  BY DEF StopScan, PodScan, Operational, Claimable, Closed
<1>2. CASE UNCHANGED vars
  BY <1>2 DEF vars
<1>3. ASSUME NEW q \in Procs, Arrive(q), p \notin UnderWay PROVE FALSE
  BY <1>3 DEF Arrive, Begin, BeginAssign, BeginAccept, BeginStart, BeginCancel,
     BeginComplete, BeginStopOp, BeginPod, BeginOutbox, BeginResolve, Writing,
     Completing, Submitting, Handling
<1>4. ASSUME NEW q \in Procs, Proceed(q), p \notin UnderWay PROVE FALSE
  <2>1. q = p
    BY <1>4 DEF Proceed, Goto, Finish, Reject, AssignWrite, AcceptWrite, StartWrite,
       CancelWrite, CancelRefused, Evaluate, EvaluateUnfinished, ClaimCompletion,
       ClaimLost, StopScan, StopWrite, StopRefused, PodScan, PodClaim, PodRefused,
       PodCommit, CreateTicket, ResolveWrite, OverrideClaim, OverrideStop,
       OverrideCommit
  <2> QED BY <1>1, <1>4, <2>1 DEF Proceed, Goto, Finish, Reject, AssignWrite,
       AcceptWrite, StartWrite, CancelWrite, CancelRefused, Evaluate,
       EvaluateUnfinished, ClaimCompletion, ClaimLost, StopWrite, StopRefused,
       PodClaim, PodRefused, PodCommit, CreateTicket, ResolveWrite, OverrideClaim,
       OverrideStop, OverrideCommit, Idle, Completing, Submitting, Handling
<1>5. ASSUME NEW q \in Procs, Fail(q) \/ DeadlockVictim(q), p \notin UnderWay PROVE FALSE
  BY <1>5 DEF Fail, DeadlockVictim, Reject, Finish, Idle
<1> QED BY <1>2, <1>3, <1>4, <1>5 DEF Next

\* Once a delivery is closed no update of its stops gets under way, the ones
\* under way move a stop once and only below a CANCELLED delivery, and all else
\* is an override.
THEOREM LateUpdatesCorrect == Spec => LateUpdatesDrain
<1> DEFINE Moved(s) == \E p \in Procs :
              /\ req[p].stop = s
              /\ \/ req[p].pc = "overrideCommit"
                 \/ dstatus = "CANCELLED" /\ p \in UnderWay \ UnderWay'
           A == Closed =>
                   /\ UnderWay' \subseteq UnderWay
                   /\ \A s \in Stops : sstatus'[s] # sstatus[s] => Moved(s)
<1>1. OutcomeInv /\ EvidenceInv /\ [Next]_vars => [A]_vars
  <2> SUFFICES ASSUME OutcomeInv, EvidenceInv, [Next]_vars, Closed PROVE A
    OBVIOUS
  <2> USE DEF EvidenceInv, TypeInv, TypeOK
  <2>1. UnderWay' \subseteq UnderWay
    BY UnderWayStep DEF UnderWay
  <2>2. ASSUME NEW s \in Stops, sstatus'[s] # sstatus[s] PROVE Moved(s)
    <3>1. ASSUME NEW p \in Procs, StopWrite(p) \/ PodCommit(p) PROVE Moved(s)
      <4>1. req[p].stop = s /\ p \in UnderWay
        BY <2>2, <3>1 DEF StopWrite, PodCommit, UnderWay
      <4>2. p \notin UnderWay'
        BY <3>1 DEF StopWrite, PodCommit, UnderWay, Goto, Finish, Idle, Completing
      <4>3. sstatus[s] \notin TerminalStop
        BY <3>1, <4>1, StopMoves DEF StopWrite, StopAsExpected, PodCommit,
           ClaimedStopWaits, TerminalStop, RequestShape
      <4>4. dstatus = "CANCELLED"
        BY <4>3 DEF OutcomeInv, OutcomeMatchesStops, AllStopsTerminal, Closed,
           TerminalDelivery
      <4> QED BY <4>1, <4>2, <4>4
    <3>2. ASSUME NEW p \in Procs, OverrideCommit(p) PROVE Moved(s)
      BY <2>2, <3>2 DEF OverrideCommit
    <3> QED BY <2>2, <3>1, <3>2, StopStep
  <2> QED BY <2>1, <2>2
<1>2. Spec => []OutcomeInv
  <2>1. Init => OutcomeInv
    BY OutcomeInit
  <2>2. OutcomeInv /\ [Next]_vars => OutcomeInv'
    BY OutcomeStep
  <2> QED BY <2>1, <2>2, PTL DEF Spec
<1> HIDE DEF A
<1>3. Spec => [][A]_vars
  BY <1>1, <1>2, EvidenceInductive, PTL DEF Spec
<1> QED BY <1>3, PTL DEF LateUpdatesDrain, A

-----------------------------------------------------------------------------
\* A stop operation is a step of StopOutcome.
LEMMA StopWriteImplements ==
    ASSUME TypeInv, NEW p \in Procs, StopWrite(p)
    PROVE  Outcome!Next
<1> DEFINE s == req[p].stop
           op == req[p].op
<1>1. s \in Stops /\ op \in StopOps
  BY DEF StopWrite, TypeInv, RequestShape
<1>2. /\ sstatus[s] \in Expected(op)
      /\ sstatus' = [sstatus EXCEPT ![s] = Becomes(op)]
      /\ pod' = pod
  BY DEF StopWrite, StopAsExpected, evidence
<1> HIDE DEF s, op
<1>3. CASE op = "depart"
  <2>1. Expected(op) = {"PENDING"} /\ Becomes(op) = "EN_ROUTE"
    BY <1>3 DEF Expected, Becomes
  <2>2. Outcome!Advance(s, "EN_ROUTE")
    BY <1>2, <2>1 DEF Outcome!Advance
  <2> QED BY <1>1, <2>2 DEF Outcome!Next
<1>4. CASE op = "arrive"
  <2>1. Expected(op) = {"EN_ROUTE", "PENDING"} /\ Becomes(op) = "ARRIVED"
    BY <1>4 DEF Expected, Becomes
  <2>2. Outcome!Advance(s, "ARRIVED")
    BY <1>2, <2>1 DEF Outcome!Advance
  <2> QED BY <1>1, <2>2 DEF Outcome!Next
<1>5. CASE op = "unload"
  <2>1. Expected(op) = {"ARRIVED"} /\ Becomes(op) = "UNLOADING"
    BY <1>5 DEF Expected, Becomes
  <2>2. Outcome!Advance(s, "UNLOADING")
    BY <1>2, <2>1 DEF Outcome!Advance
  <2> QED BY <1>1, <2>2 DEF Outcome!Next
<1>6. CASE op = "fail"
  <2>1. Expected(op) = {"ARRIVED", "UNLOADING", "EN_ROUTE"} /\ Becomes(op) = "FAILED"
    BY <1>6 DEF Expected, Becomes
  <2>2. Outcome!GiveUp(s)
    BY <1>2, <2>1 DEF Outcome!GiveUp
  <2> QED BY <1>1, <2>2 DEF Outcome!Next
<1>7. CASE op = "skip"
  <2>1. Expected(op) = {"PENDING"} /\ Becomes(op) = "SKIPPED"
    BY <1>7 DEF Expected, Becomes
  <2>2. Outcome!GiveUp(s)
    BY <1>2, <2>1 DEF Outcome!GiveUp
  <2> QED BY <1>1, <2>2 DEF Outcome!Next
<1> QED BY <1>1, <1>3, <1>4, <1>5, <1>6, <1>7 DEF StopOps

\* Every step is a step or a stutter of StopOutcome.
LEMMA StepImplements ==
    ASSUME EvidenceInv, [Next]_vars
    PROVE  [Outcome!Next]_<<sstatus, pod>>
<1> USE DEF EvidenceInv
<1>1. ASSUME NEW p \in Procs, StopWrite(p) PROVE Outcome!Next
  BY <1>1, StopWriteImplements
<1>2. ASSUME NEW p \in Procs, PodCommit(p) PROVE Outcome!Next
  <2>1. /\ req[p].stop \in Stops
        /\ sstatus[req[p].stop] \in {"ARRIVED", "UNLOADING"}
        /\ pod[req[p].stop] = "none"
    BY <1>2, CommitIsFirst DEF PodCommit, ClaimedStopWaits
  <2>2. Outcome!Deliver(req[p].stop)
    BY <1>2, <2>1 DEF PodCommit, Outcome!Deliver
  <2> QED BY <2>1, <2>2 DEF Outcome!Next
<1>3. ASSUME NEW p \in Procs, OverrideCommit(p) PROVE Outcome!Next
  <2>1. req[p].stop \in Stops
    BY <1>3 DEF OverrideCommit, TypeInv, RequestShape
  <2>2. Outcome!Overrule(req[p].stop)
    BY <1>3 DEF OverrideCommit, Outcome!Overrule
  <2> QED BY <2>1, <2>2 DEF Outcome!Next
<1>4. \/ UNCHANGED <<sstatus, pod>>
      \/ \E p \in Procs : StopWrite(p) \/ PodCommit(p) \/ OverrideCommit(p)
  BY StopStep, EvidenceStep DEF evidence
<1> QED BY <1>1, <1>2, <1>3, <1>4

\* The rows of stops and proofs implement StopOutcome under any concurrency.
THEOREM OutcomeImplemented == Spec => ImplementsStopOutcome
<1>1. Init => Outcome!Init
  BY DEF Init, Outcome!Init
<1>2. EvidenceInv /\ [Next]_vars => [Outcome!Next]_<<sstatus, pod>>
  BY StepImplements
<1> QED BY <1>1, <1>2, EvidenceInductive, PTL
        DEF Spec, ImplementsStopOutcome, Outcome!Spec

-----------------------------------------------------------------------------
(* Waiting for locks.  The safety half of RequestsFinish: what a request may *)
(* wait for.                                                                 *)

\* p's next statement needs a row that q's open transaction holds.
WaitsFor(p, q) ==
    /\ q # p
    /\ \/ /\ req[p].pc \in {"stopRow", "podRow", "override"}
          /\ HoldsStop(q, req[p].stop)
       \/ /\ req[p].pc = "podTx" /\ req[p].key # None
          /\ HoldsKey(q, req[p].drv, req[p].key)
       \/ /\ req[p].pc = "podClaimed"
          /\ HoldsPodRow(q, req[p].stop)
       \/ /\ req[p].pc = "resolve"
          /\ \/ HoldsTicket(q, req[p].tkt)
             \/ /\ req[p].out = "RESOLVED_OVERRIDDEN"
                /\ ticket[req[p].tkt].receiver
                /\ HoldsPodRow(q, ticket[req[p].tkt].stop)

\* Two transactions of which DeadlockVictim aborts one.
DeadlockPair(p, q) ==
    \E s \in Stops :
       \/ /\ req[p].pc = "podClaimed" /\ req[p].stop = s
          /\ req[q].pc = "override" /\ HoldsPodRow(q, s)
       \/ /\ req[q].pc = "podClaimed" /\ req[q].stop = s
          /\ req[p].pc = "override" /\ HoldsPodRow(p, s)

\* The order in which the handlers take their locks.
LockLevel(p) ==
    CASE req[p].pc = "overrideCommit" -> 0
      [] req[p].pc = "podClaimed"     -> 1
      [] req[p].pc \in {"podRow", "override"} -> 2
      [] OTHER                        -> 3

\* A wait is for a transaction further along, or between the two transactions
\* of a pair; so every cycle of waits contains a pair the detector breaks.
EveryCycleHasAPair ==
    \A p, q \in Procs :
       WaitsFor(p, q) => LockLevel(q) < LockLevel(p) \/ DeadlockPair(p, q)

\* As long as a request is in flight, one of them waits for nobody or belongs
\* to a pair: they are never all stuck.
SomeoneMoves ==
    (\E p \in Procs : req[p].pc # "idle") =>
       \E p \in Procs :
          /\ req[p].pc # "idle"
          /\ \/ \A q \in Procs : ~WaitsFor(p, q)
             \/ \E q \in Procs \ {p} : DeadlockPair(p, q)

\* A transaction that holds a row is one of the four that hold locks.
LEMMA WaitIsForHolder ==
    ASSUME NEW p \in Procs, NEW q \in Procs, WaitsFor(p, q)
    PROVE  /\ q # p
           /\ req[q].pc \in {"podRow", "podClaimed", "override", "overrideCommit"}
           /\ req[p].pc \in {"stopRow", "podTx", "podRow", "override", "podClaimed",
                             "resolve"}
BY DEF WaitsFor, HoldsStop, HoldsKey, HoldsPodRow, HoldsTicket

\* submitPod, once it has claimed the stop, waits only for an override that in
\* turn waits for it: an override past its own update of the stop would hold
\* the stop that submitPod holds.
LEMMA ClaimedWaitsInAPair ==
    ASSUME TypeInv, LocksExclusive, NEW p \in Procs, NEW q \in Procs,
           req[p].pc = "podClaimed", WaitsFor(p, q)
    PROVE  DeadlockPair(p, q)
<1>1. HoldsPodRow(q, req[p].stop) /\ req[p].stop \in Stops /\ q # p
  BY DEF WaitsFor, TypeInv, RequestShape
<1>2. HoldsStop(p, req[p].stop)
  BY DEF HoldsStop
<1>3. ~HoldsStop(q, req[p].stop)
  BY <1>1, <1>2 DEF LocksExclusive
<1>4. req[q].pc = "override"
  BY <1>1, <1>3 DEF HoldsPodRow, HoldsStop
<1> QED BY <1>1, <1>4 DEF DeadlockPair

\* A request before its own locks waits for a transaction that has some, and
\* one that waits for a stop waits for the holder of the stop.
LEMMA WaitGoesDown ==
    ASSUME NEW p \in Procs, NEW q \in Procs, WaitsFor(p, q), req[p].pc # "podClaimed"
    PROVE  LockLevel(q) < LockLevel(p)
<1>1. CASE req[p].pc \in {"podRow", "override"}
  <2>1. req[q].pc \in {"podClaimed", "overrideCommit"}
    BY <1>1 DEF WaitsFor, HoldsStop
  <2>2. LockLevel(p) = 2
    BY <1>1 DEF LockLevel
  <2>3. LockLevel(q) \in {0, 1}
    BY <2>1 DEF LockLevel
  <2> QED BY <2>2, <2>3
<1>2. CASE req[p].pc \notin {"podRow", "override"}
  <2>1. LockLevel(p) = 3
    BY <1>2, WaitIsForHolder DEF LockLevel
  <2>2. LockLevel(q) \in {0, 1, 2}
    BY WaitIsForHolder DEF LockLevel
  <2> QED BY <2>1, <2>2
<1> QED BY <1>1, <1>2

\* Requests wait for each other in a cycle only where PostgreSQL's detector
\* finds submitPod and an override of the same stop.
THEOREM CyclesAreBroken == Spec => []EveryCycleHasAPair
<1>1. EvidenceInv => EveryCycleHasAPair
  BY ClaimedWaitsInAPair, WaitGoesDown DEF EvidenceInv, EveryCycleHasAPair
<1> QED BY <1>1, EvidenceInductive, PTL

\* Among requests in flight one waits for nobody or is in a pair.
LEMMA SomeoneMovesState == ASSUME EvidenceInv PROVE SomeoneMoves
<1> SUFFICES ASSUME NEW p \in Procs, req[p].pc # "idle"
             PROVE  \E r \in Procs :
                       /\ req[r].pc # "idle"
                       /\ \/ \A q \in Procs : ~WaitsFor(r, q)
                          \/ \E q \in Procs \ {r} : DeadlockPair(r, q)
  BY DEF SomeoneMoves
<1>1. ASSUME NEW r \in Procs, req[r].pc \in {"podClaimed", "overrideCommit"}
      PROVE  \/ \A q \in Procs : ~WaitsFor(r, q)
             \/ \E q \in Procs \ {r} : DeadlockPair(r, q)
  <2>1. CASE req[r].pc = "podClaimed"
    BY <2>1, ClaimedWaitsInAPair, WaitIsForHolder DEF EvidenceInv
  <2>2. CASE req[r].pc = "overrideCommit"
    BY <2>2, WaitIsForHolder
  <2> QED BY <1>1, <2>1, <2>2
<1>2. ASSUME NEW r \in Procs, req[r].pc \in {"podRow", "override"}
      PROVE  \/ \A q \in Procs : ~WaitsFor(r, q)
             \/ \E q \in Procs : req[q].pc \in {"podClaimed", "overrideCommit"}
  BY <1>2 DEF WaitsFor, HoldsStop
<1>3. \/ \A q \in Procs : ~WaitsFor(p, q)
      \/ \E q \in Procs : req[q].pc \in {"podRow", "podClaimed", "override", "overrideCommit"}
  BY WaitIsForHolder
<1> QED BY <1>1, <1>2, <1>3

\* No reachable state has all requests in flight waiting for locks, except
\* with a pair that the deadlock detector breaks.
THEOREM NeverAllStuck == Spec => []SomeoneMoves
BY SomeoneMovesState, EvidenceInductive, PTL

-----------------------------------------------------------------------------
(* Automatic completion.  The safety half of LastStopCloses: the request    *)
(* that closes the delivery is on its way and nothing turns it back.        *)

\* An EN_ROUTE delivery whose last stop a failStop, skipStop or submitPod has
\* finished has a request that evaluates it or is about to close it.
CloserOnItsWay ==
    due => /\ dstatus = "EN_ROUTE"
           /\ Eligible
           /\ \E p \in Procs : req[p].pc \in {"eval", "claim"}

\* While completion is due, such a request stays where it is, goes from the
\* evaluation to the claim, or has closed the delivery.
CloserAdvances ==
    [][\A p \in Procs : due /\ req[p].pc \in {"eval", "claim"} =>
          \/ req'[p] = req[p]
          \/ req[p].pc = "eval" /\ req'[p].pc = "claim"
          \/ ~due']_<<vars, due>>

\* The delivery under way is well typed.
LEMMA LiveTypeInit == LiveInit => TypeInv
BY NoneAssumption DEF LiveInit, TypeInv, TypeOK, RequestShape, Idle, Request,
   DeliveryStatus, TerminalDelivery, StopStatus, TerminalStop, TicketRow,
   Resolutions, WriteOps, StopOps

\* The last stop is finished by a request that goes on to evaluate the
\* delivery, or by an override.
LEMMA LastStopIsEvaluated ==
    ASSUME TypeInv, [Next]_vars, ~AllStopsTerminal, AllStopsTerminal', ~ByOverride
    PROVE  Stops # {} /\ \E p \in Procs : req'[p].pc = "eval"
<1> USE DEF TypeInv, TypeOK
<1>0. Stops # {}
  BY DEF AllStopsTerminal
<1>1. sstatus' # sstatus
  BY DEF AllStopsTerminal
<1>2. ASSUME NEW p \in Procs, StopWrite(p) PROVE req'[p].pc = "eval"
  <2>1. req[p].stop \in Stops /\ req[p].op \in StopOps
    BY <1>2 DEF StopWrite, RequestShape
  <2>2. sstatus'[req[p].stop] = Becomes(req[p].op)
    BY <1>2, <2>1 DEF StopWrite
  <2>3. Becomes(req[p].op) \in TerminalStop
    BY <2>1, <2>2 DEF AllStopsTerminal
  <2>4. Finishes(req[p].op)
    BY <2>1, <2>3 DEF StopOps, Becomes, Finishes, TerminalStop
  <2> QED BY <1>2, <2>4 DEF StopWrite, Goto, Completing
<1>3. ASSUME NEW p \in Procs, PodCommit(p) PROVE req'[p].pc = "eval"
  BY <1>3 DEF PodCommit, Goto, Completing
<1>4. ASSUME NEW p \in Procs, OverrideCommit(p) PROVE FALSE
  <2>1. req[p].pc = "overrideCommit" /\ req'[p].pc = "idle"
    BY <1>4 DEF OverrideCommit, Finish, Idle
  <2> QED BY <2>1 DEF ByOverride
<1> QED BY <1>0, <1>1, <1>2, <1>3, <1>4, StopStep

\* A request that evaluates or closes moves by its own three statements only,
\* when none dies.
LEMMA CloserStep ==
    ASSUME TypeInv, Failures = FALSE, [Next]_vars, NEW p \in Procs,
           req[p].pc \in {"eval", "claim"}
    PROVE  \/ req'[p] = req[p]
           \/ Evaluate(p) \/ EvaluateUnfinished(p)
           \/ ClaimCompletion(p) \/ ClaimLost(p)
<1> USE DEF TypeInv, TypeOK
<1>1. CASE UNCHANGED vars
  BY <1>1 DEF vars
<1>2. ASSUME NEW q \in Procs, Arrive(q) PROVE req'[p] = req[p]
  BY <1>2 DEF Arrive, Begin, BeginAssign, BeginAccept, BeginStart, BeginCancel,
     BeginComplete, BeginStopOp, BeginPod, BeginOutbox, BeginResolve
<1>3. ASSUME NEW q \in Procs, q # p, Proceed(q) PROVE req'[p] = req[p]
  BY <1>3 DEF Proceed, Goto, Finish, Reject, AssignWrite, AcceptWrite, StartWrite,
     CancelWrite, CancelRefused, Evaluate, EvaluateUnfinished, ClaimCompletion,
     ClaimLost, StopScan, StopWrite, StopRefused, PodScan, PodClaim, PodRefused, PodCommit,
     CreateTicket, ResolveWrite, OverrideClaim, OverrideStop, OverrideCommit
<1>4. ASSUME Proceed(p)
      PROVE  \/ Evaluate(p) \/ EvaluateUnfinished(p)
             \/ ClaimCompletion(p) \/ ClaimLost(p)
  BY <1>4 DEF Proceed, AssignWrite, AcceptWrite, StartWrite, CancelWrite,
     CancelRefused, StopScan, StopWrite, StopRefused, PodScan, PodClaim, PodRefused, PodCommit,
     CreateTicket, ResolveWrite, OverrideClaim, OverrideStop, OverrideCommit
<1>5. ASSUME NEW q \in Procs, Fail(q) \/ DeadlockVictim(q) PROVE req'[p] = req[p]
  BY <1>5 DEF Fail, DeadlockVictim, Reject, Finish
<1> QED BY <1>1, <1>2, <1>3, <1>4, <1>5 DEF Next

\* One step of a closer while completion is due.
LEMMA CloserMove ==
    ASSUME TypeInv, Failures = FALSE, CloserOnItsWay, due, [LiveNext]_<<vars, due>>,
           NEW p \in Procs, req[p].pc \in {"eval", "claim"}
    PROVE  \/ req'[p] = req[p]
           \/ req[p].pc = "eval" /\ req'[p].pc = "claim"
           \/ ~due'
<1>1. [Next]_vars
  BY DEF LiveNext, vars
<1>2. dstatus = "EN_ROUTE" /\ Eligible
  BY DEF CloserOnItsWay
<1>3. CASE Evaluate(p)
  BY <1>3 DEF Evaluate, Goto, Completing, TypeInv, TypeOK
<1>4. CASE ClaimCompletion(p)
  <2>1. dstatus' \in {"COMPLETED", "FAILED"}
    BY <1>4 DEF ClaimCompletion, TypeInv, RequestShape
  <2>2. LiveNext
    BY <1>2, <2>1 DEF vars, delivery
  <2> QED BY <2>1, <2>2 DEF LiveNext
<1>5. ~EvaluateUnfinished(p) /\ ~ClaimLost(p)
  BY <1>2 DEF EvaluateUnfinished, ClaimLost
<1> QED BY <1>1, <1>3, <1>4, <1>5, CloserStep

\* Every step keeps a closer on its way.
LEMMA CloserKept ==
    ASSUME TypeInv, Failures = FALSE, CloserOnItsWay, [LiveNext]_<<vars, due>>
    PROVE  CloserOnItsWay'
<1> SUFFICES ASSUME due'
             PROVE  /\ dstatus' = "EN_ROUTE"
                    /\ Eligible'
                    /\ \E p \in Procs : req'[p].pc \in {"eval", "claim"}
  BY DEF CloserOnItsWay
<1>1. CASE UNCHANGED <<vars, due>>
  BY <1>1 DEF CloserOnItsWay, vars, delivery, Eligible, AllStopsTerminal
<1>2. CASE LiveNext
  <2>1. /\ dstatus' = "EN_ROUTE" /\ AllStopsTerminal'
        /\ due \/ (~AllStopsTerminal /\ ~ByOverride)
    BY <1>2 DEF LiveNext
  <2>2. CASE due
    <3>1. PICK p \in Procs : req[p].pc \in {"eval", "claim"}
      BY <2>2 DEF CloserOnItsWay
    <3>2. req'[p].pc \in {"eval", "claim"}
      BY <2>2, <3>1, CloserMove
    <3> QED BY <2>1, <2>2, <3>2 DEF CloserOnItsWay, Eligible
  <2>3. CASE ~AllStopsTerminal /\ ~ByOverride
    <3>1. [Next]_vars
      BY <1>2 DEF LiveNext
    <3>2. Stops # {} /\ \E p \in Procs : req'[p].pc = "eval"
      BY <2>1, <2>3, <3>1, LastStopIsEvaluated
    <3> QED BY <2>1, <3>2 DEF Eligible
  <2> QED BY <2>1, <2>2, <2>3
<1> QED BY <1>1, <1>2

\* When no request dies between two statements, the last stop of an EN_ROUTE
\* delivery is never finished without a request left to close it, and that
\* request cannot be turned back.  (With Failures the first part is false: a
\* crash between the two commits loses the completion.)
THEOREM CompletionIsNotLost ==
    ASSUME Failures = FALSE
    PROVE  LiveSpec => []CloserOnItsWay /\ CloserAdvances
<1> DEFINE A == \A p \in Procs : due /\ req[p].pc \in {"eval", "claim"} =>
                   \/ req'[p] = req[p]
                   \/ req[p].pc = "eval" /\ req'[p].pc = "claim"
                   \/ ~due'
           I == TypeInv /\ CloserOnItsWay
<1>1. LiveInit => I
  BY LiveTypeInit DEF LiveInit, CloserOnItsWay
<1>2. I /\ [LiveNext]_<<vars, due>> => I'
  <2> SUFFICES ASSUME I, [LiveNext]_<<vars, due>> PROVE I'
    OBVIOUS
  <2>1. [Next]_vars
    BY DEF LiveNext, vars
  <2> QED BY <2>1, TypeStep, CloserKept
<1>3. I /\ [LiveNext]_<<vars, due>> => [A]_<<vars, due>>
  BY CloserMove
<1> HIDE DEF A
<1>4. I => CloserOnItsWay
  OBVIOUS
<1> HIDE DEF I
<1>5. LiveSpec => []CloserOnItsWay
  BY <1>1, <1>2, <1>4, PTL DEF LiveSpec
<1>6. LiveSpec => [][A]_<<vars, due>>
  BY <1>1, <1>2, <1>3, PTL DEF LiveSpec
<1> QED BY <1>5, <1>6, PTL DEF CloserAdvances, A
=============================================================================
