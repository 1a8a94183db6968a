----------------------------- MODULE CallsProofs -----------------------------
(***************************************************************************)
(* Proofs about Calls, for any number of calls, handlers, participants and *)
(* signals, with restarts and failures of Redis.                           *)
(***************************************************************************)
EXTENDS Calls, TLAPS

Signalling == {"nonce", "sequence", "rate"}

\* A handler past its first read works on a call that has been initiated; one that
\* handles a signal carries one.
RequestsNameCalls ==
    \A p \in Procs :
      /\ req[p].pc # "idle" => req[p].call \in Call /\ status[req[p].call] # "none"
      /\ req[p].pc \in Signalling => req[p].signal \in Signal

IInv == TypeOK /\ RequestsNameCalls /\ SignalsNeedAcceptance

-----------------------------------------------------------------------------
(* Types *)

\* The handler slots stay well formed when a slot is replaced by a request.
LEMMA GotoType ==
    ASSUME NEW p \in Procs, NEW r \in Request, req \in [Procs -> Request], Goto(p, r)
    PROVE  req' \in [Procs -> Request]
  BY DEF Goto

\* An idle slot is well typed.
LEMMA IdleType == Idle \in Request
  BY DEF Idle, Request

\* The tables and keys start out well typed.
LEMMA InitType == Init => TypeOK
<1> SUFFICES ASSUME Init PROVE TypeOK
  OBVIOUS
<1>1. req \in [Procs -> Request]
  BY IdleType DEF Init
<1>2. relayed \in [Call -> Seq(Signal)]
  BY DEF Init
<1>3. seqKey \in [Call -> [Actor -> [last : Nat, until : Nat]]]
  BY DEF Init
<1> QED BY <1>1, <1>2, <1>3 DEF Init, TypeOK, Statuses

\* A request that arrives keeps the types.
LEMMA ArriveType ==
    ASSUME TypeOK, NEW p \in Procs, Arrive(p) PROVE TypeOK'
<1>1. ASSUME NEW c \in Call, NEW a \in Actor \cup {None}, NEW accept \in BOOLEAN,
             BeginRespond(p, c, a, accept)
      PROVE  TypeOK'
  <2>1. [Idle EXCEPT !.pc = "respond", !.call = c, !.accept = accept,
                     !.actor = a, !.at = now] \in Request
    BY DEF Idle, Request, TypeOK
  <2>2. req' \in [Procs -> Request]
    BY <1>1, <2>1, GotoType DEF BeginRespond, TypeOK
  <2> QED BY <1>1, <2>2 DEF BeginRespond, TypeOK, losses, database, redis, history
<1>2. ASSUME NEW c \in Call, BeginEnd(p, c) PROVE TypeOK'
  <2>1. [Idle EXCEPT !.pc = "end", !.call = c] \in Request
    BY DEF Idle, Request
  <2>2. req' \in [Procs -> Request]
    BY <1>2, <2>1, GotoType DEF BeginEnd, TypeOK
  <2> QED BY <1>2, <2>2 DEF BeginEnd, TypeOK, losses, database, redis, history
<1>3. ASSUME NEW c \in Call, NEW g \in Signal, BeginSignal(p, c, g) PROVE TypeOK'
  <2>1. [Idle EXCEPT !.pc = "nonce", !.call = c, !.signal = g,
                     !.open = status[c] \notin Final] \in Request
    BY DEF Idle, Request
  <2>2. req' \in [Procs -> Request]
    BY <1>3, <2>1, GotoType DEF BeginSignal, TypeOK
  <2> QED BY <1>3, <2>2 DEF BeginSignal, TypeOK, losses, database, redis
<1> QED BY <1>1, <1>2, <1>3 DEF Arrive

\* Every step of a request keeps the types.
LEMMA ProceedType ==
    ASSUME TypeOK, RequestsNameCalls, NEW p \in Procs, Proceed(p) PROVE TypeOK'
<1> req[p] \in Request
  BY DEF TypeOK
<1> USE CallTimesAssumption
<1>1. ASSUME Finish(p) PROVE req' \in [Procs -> Request]
  BY <1>1, GotoType, IdleType DEF Finish, TypeOK
<1>2. ASSUME NEW pc \in {"sequence", "rate"}, Goto(p, [req[p] EXCEPT !.pc = pc])
      PROVE  req' \in [Procs -> Request]
  <2>1. [req[p] EXCEPT !.pc = pc] \in Request
    BY DEF Request
  <2> QED BY <1>2, <2>1, GotoType DEF TypeOK
<1>3. CASE Respond(p)
  <2>0. Answer(req[p].accept) \in Statuses /\ req[p].at + ActiveTime \in Nat
    BY DEF Answer, Statuses, Request
  <2>1. status' \in [Call -> Statuses] /\ expiresAt' \in [Call -> Nat]
    <3>1. status \in [Call -> Statuses] /\ expiresAt \in [Call -> Nat]
      BY DEF TypeOK
    <3>2. CASE UNCHANGED <<status, expiresAt>>
      BY <3>1, <3>2
    <3>3. CASE /\ status' = [status EXCEPT ![req[p].call] = Answer(req[p].accept)]
               /\ \/ expiresAt' = [expiresAt EXCEPT ![req[p].call] = req[p].at + ActiveTime]
                  \/ expiresAt' = expiresAt
      BY <2>0, <3>1, <3>3
    <3> QED BY <1>3, <3>2, <3>3 DEF Respond
  <2>2. members' \in [Call -> SUBSET Actor]
    <3>1. AfterAnswer(p) \in [Call -> SUBSET Actor]
      BY DEF AfterAnswer, TypeOK, Request
    <3> QED BY <1>3, <3>1 DEF Respond, TypeOK
  <2>3. req' \in [Procs -> Request]
    BY <1>1, <1>3 DEF Respond
  <2> QED BY <1>3, <2>1, <2>2, <2>3 DEF Respond, TypeOK, losses, redis, history
<1>4. CASE EndCallSession(p)
  <2>1. req' \in [Procs -> Request]
    BY <1>1, <1>4 DEF EndCallSession
  <2> QED BY <1>4, <2>1 DEF EndCallSession, TypeOK, losses, Statuses, redis, history
<1>5. CASE ClaimNonce(p)
  <2>1. req' \in [Procs -> Request]
    BY <1>1, <1>2, <1>5 DEF ClaimNonce
  <2>2. nonce' \in [Call -> [Signal -> Nat]]
    <3>1. req[p].call \in Call /\ req[p].signal \in Signal
      BY <1>5 DEF ClaimNonce, RequestsNameCalls, Signalling
    <3>2. now + NonceTtl \in Nat
      BY DEF TypeOK
    <3>3. CASE UNCHANGED nonce
      BY <3>3 DEF TypeOK
    <3>4. CASE nonce' = [nonce EXCEPT ![req[p].call][req[p].signal] = now + NonceTtl]
      BY <3>1, <3>2, <3>4 DEF TypeOK
    <3> QED BY <1>5, <3>3, <3>4 DEF ClaimNonce
  <2> QED BY <1>5, <2>1, <2>2 DEF ClaimNonce, TypeOK, losses, database, history
<1>6. CASE VerifySequence(p)
  <2>1. req[p].call \in Call /\ req[p].signal \in Signal
    BY <1>6 DEF VerifySequence, RequestsNameCalls, Signalling
  <2>2. req' \in [Procs -> Request]
    BY <1>1, <1>2, <1>6 DEF VerifySequence
  <2>3. seqKey' \in [Call -> [Actor -> [last : Nat, until : Nat]]]
    <3>1. CASE UNCHANGED seqKey
      BY <3>1 DEF TypeOK
    <3>2. CASE seqKey' = [seqKey EXCEPT ![req[p].call][Sender[req[p].signal]] =
                            [last |-> Seq0[req[p].signal], until |-> now + SeqTtl]]
      <4>1. [last |-> Seq0[req[p].signal], until |-> now + SeqTtl] \in [last : Nat, until : Nat]
        <5>1. Seq0[req[p].signal] \in Nat BY <2>1, CallsAssumption
        <5>2. now + SeqTtl \in Nat BY DEF TypeOK
        <5> QED BY <5>1, <5>2
      <4> QED BY <2>1, <3>2, <4>1, CallsAssumption DEF TypeOK
    <3> QED BY <1>6, <3>1, <3>2 DEF VerifySequence
  <2>4. relayed' \in [Call -> Seq(Signal)]
    <3>1. CASE UNCHANGED relayed
      BY <3>1 DEF TypeOK
    <3>2. CASE RelayTo(req[p].call, req[p].signal)
      BY <2>1, <3>2 DEF RelayTo, TypeOK
    <3> QED BY <1>6, <3>1, <3>2 DEF VerifySequence
  <2> QED BY <1>6, <2>2, <2>3, <2>4 DEF VerifySequence, TypeOK, losses, database
<1>7. CASE RelayIce(p)
  <2>1. req[p].call \in Call /\ req[p].signal \in Signal
    BY <1>7 DEF RelayIce, RequestsNameCalls, Signalling
  <2>2. req' \in [Procs -> Request]
    BY <1>1, <1>7 DEF RelayIce
  <2>3. relayed' \in [Call -> Seq(Signal)]
    BY <1>7, <2>1 DEF RelayIce, RelayTo, TypeOK
  <2> QED BY <1>7, <2>2, <2>3 DEF RelayIce, TypeOK, losses, database, redis
<1> QED BY <1>3, <1>4, <1>5, <1>6, <1>7 DEF Proceed

\* Every step, crashes, timers and the clock included, keeps the types.
LEMMA StepType ==
    ASSUME TypeOK, RequestsNameCalls, [Next]_vars PROVE TypeOK'
<1> USE CallTimesAssumption
<1>1. ASSUME NEW c \in Call, InitiateCallSession(c) PROVE TypeOK'
  BY <1>1 DEF InitiateCallSession, TypeOK, losses, Statuses, redis, history
<1>2. ASSUME NEW c \in Call, Timer(c) \/ TimeoutFails(c) PROVE TypeOK'
  BY <1>2 DEF Timer, TimerFires, HandlePendingTimeout, TimeoutFails, TypeOK, losses, Statuses, redis, history
<1>3. ASSUME NEW c \in Call, NEW a \in Actor, JoinSessionRoom(c, a) PROVE TypeOK'
  BY <1>3 DEF JoinSessionRoom, TypeOK, losses, redis, history
<1>4. CASE RedisFails \/ RedisRecovers
  BY <1>4 DEF RedisFails, RedisRecovers, TypeOK, losses, database, history
<1>5. CASE Restart
  BY <1>5, IdleType DEF Restart, TypeOK, redis, history
<1>6. CASE Tick
  BY <1>6 DEF Tick, TypeOK, losses, database, redis, history
<1>7. CASE UNCHANGED vars
  BY <1>7 DEF vars, TypeOK, losses, database, redis, history
<1> QED BY ArriveType, ProceedType, <1>1, <1>2, <1>3, <1>4, <1>5, <1>6, <1>7 DEF Next

-----------------------------------------------------------------------------
(* The status of a call *)

\* What a step does to the status, and that only EndCallSession changes one that
\* is ACTIVE: the claims of an answer and of the timeout need a ringing call.
StatusMoves ==
    \/ UNCHANGED status
    \/ \E c \in Call : Outcome!Ring(c)
    \/ \E c \in Call, d \in {"ACTIVE", "DECLINED", "TIMEOUT"} : Outcome!Decide(c, d)
    \/ \E c \in Call : Outcome!HangUp(c)

\* The status of a call moves as CallOutcome allows, and never back to ringing.
LEMMA StepStatus ==
    ASSUME TypeOK, RequestsNameCalls, [Next]_vars PROVE StatusMoves
<1>1. ASSUME NEW p \in Procs, Arrive(p) PROVE UNCHANGED status
  BY <1>1 DEF Arrive, BeginRespond, BeginEnd, BeginSignal, database
<1>2. ASSUME NEW p \in Procs, Respond(p) PROVE StatusMoves
  <2>1. req[p].call \in Call
    BY <1>2 DEF Respond, RequestsNameCalls
  <2>2. Answer(req[p].accept) \in {"ACTIVE", "DECLINED"}
    BY DEF Answer
  <2> QED BY <1>2, <2>1, <2>2 DEF Respond, Claims, StatusMoves, Outcome!Decide
<1>3. ASSUME NEW p \in Procs, EndCallSession(p) PROVE StatusMoves
  BY <1>3 DEF EndCallSession, RequestsNameCalls, StatusMoves, Outcome!HangUp
<1>4. ASSUME NEW p \in Procs, ClaimNonce(p) \/ VerifySequence(p) \/ RelayIce(p)
      PROVE  UNCHANGED status
  BY <1>4 DEF ClaimNonce, VerifySequence, RelayIce, database
<1>5. ASSUME NEW c \in Call, InitiateCallSession(c) PROVE StatusMoves
  BY <1>5 DEF InitiateCallSession, StatusMoves, Outcome!Ring
<1>6. ASSUME NEW c \in Call, Timer(c) \/ TimeoutFails(c) PROVE StatusMoves
  BY <1>6 DEF Timer, TimerFires, HandlePendingTimeout, TimeoutFails, TimesOut, StatusMoves, Outcome!Decide
<1>7. ASSUME NEW c \in Call, NEW a \in Actor, JoinSessionRoom(c, a) PROVE UNCHANGED status
  BY <1>7 DEF JoinSessionRoom
<1>8. CASE RedisFails \/ RedisRecovers \/ Restart \/ Tick
  BY <1>8 DEF RedisFails, RedisRecovers, Restart, Tick, database, StatusMoves
<1>9. CASE UNCHANGED vars
  BY <1>9 DEF vars, database, StatusMoves
<1> QED BY <1>1, <1>2, <1>3, <1>4, <1>5, <1>6, <1>7, <1>8, <1>9 DEF Next, Proceed, StatusMoves

\* An initiated call never becomes unknown, and one that was accepted stays
\* accepted until it is hung up.
LEMMA StatusStays ==
    ASSUME TypeOK, StatusMoves, NEW c \in Call
    PROVE  /\ status[c] # "none" => status'[c] # "none"
           /\ status[c] \in {"ACTIVE", "ENDED"} => status'[c] \in {"ACTIVE", "ENDED"}
  BY DEF StatusMoves, Outcome!Ring, Outcome!Decide, Outcome!HangUp, TypeOK

-----------------------------------------------------------------------------
(* Handlers *)

Named(r) == r.call \in Call /\ status[r.call] # "none"
Signals(r) == /\ r.call \in Call /\ r.signal \in Signal
              /\ r.open /\ status[r.call] \in {"ACTIVE", "ENDED"}

\* A handler keeps its request, ends, begins on a call it has read, or goes on
\* with the signal it carries.
LEMMA StepRequest ==
    ASSUME IInv, [Next]_vars, NEW q \in Procs
    PROVE  \/ req'[q] = req[q]
           \/ req'[q].pc = "idle"
           \/ req'[q].pc \in {"respond", "end"} /\ Named(req'[q])
           \/ req'[q].pc \in Signalling /\ Signals(req'[q])
<1> DEFINE Goal == \/ req'[q] = req[q]
                   \/ req'[q].pc = "idle"
                   \/ req'[q].pc \in {"respond", "end"} /\ Named(req'[q])
                   \/ req'[q].pc \in Signalling /\ Signals(req'[q])
<1>0. req \in [Procs -> Request] /\ status \in [Call -> Statuses]
  BY DEF IInv, TypeOK
<1>1. ASSUME NEW p \in Procs, NEW r, Goto(p, r), p # q PROVE Goal
  BY <1>0, <1>1 DEF Goto
<1>2. ASSUME NEW r, Goto(q, r) PROVE req'[q] = r
  BY <1>0, <1>2 DEF Goto
<1>3. ASSUME NEW p \in Procs, Finish(p) PROVE Goal
  BY <1>1, <1>2, <1>3 DEF Finish, Idle
<1>4. ASSUME NEW p \in Procs, Arrive(p) PROVE Goal
  <2>1. ASSUME NEW c \in Call, NEW a, NEW accept, BeginRespond(p, c, a, accept) PROVE Goal
    BY <1>1, <1>2, <2>1 DEF BeginRespond, Idle, Named
  <2>2. ASSUME NEW c \in Call, BeginEnd(p, c) PROVE Goal
    BY <1>1, <1>2, <2>2 DEF BeginEnd, Idle, Named
  <2>3. ASSUME NEW c \in Call, NEW g \in Signal, BeginSignal(p, c, g) PROVE Goal
    BY <1>1, <1>2, <2>3 DEF BeginSignal, MaySignal, Final, Idle, Signals, Signalling
  <2> QED BY <1>4, <2>1, <2>2, <2>3 DEF Arrive
<1>5. ASSUME NEW p \in Procs, NEW pc \in {"sequence", "rate"},
             req[p].pc \in Signalling, Goto(p, [req[p] EXCEPT !.pc = pc])
      PROVE  Goal
  <2>1. CASE p = q
    <3>1. Signals(req[q])
      BY <1>5, <2>1 DEF IInv, RequestsNameCalls, SignalsNeedAcceptance, Signals, Signalling
    <3>2. req'[q] = [req[q] EXCEPT !.pc = pc]
      BY <1>2, <1>5, <2>1
    <3>3. req'[q].pc = pc /\ req'[q].call = req[q].call
          /\ req'[q].signal = req[q].signal /\ req'[q].open = req[q].open
      BY <1>0, <3>2 DEF Request
    <3> QED BY <3>1, <3>3 DEF Signals, Signalling
  <2> QED BY <1>1, <1>5, <2>1
<1>6. ASSUME NEW p \in Procs, Proceed(p) PROVE Goal
  <2>1. CASE Respond(p) \/ EndCallSession(p) \/ RelayIce(p)
    BY <1>3, <2>1 DEF Respond, EndCallSession, RelayIce
  <2>2. CASE ClaimNonce(p)
    BY <1>3, <1>5, <2>2 DEF ClaimNonce, Signalling
  <2>3. CASE VerifySequence(p)
    BY <1>3, <1>5, <2>3 DEF VerifySequence, Signalling
  <2> QED BY <1>6, <2>1, <2>2, <2>3 DEF Proceed
<1>7. CASE Restart
  BY <1>7 DEF Restart, Idle
<1>8. ASSUME \/ \E c \in Call : Timer(c) \/ TimeoutFails(c) \/ InitiateCallSession(c)
             \/ \E c \in Call, a \in Actor : JoinSessionRoom(c, a)
             \/ RedisFails \/ RedisRecovers \/ Tick \/ UNCHANGED vars
      PROVE  Goal
  BY <1>8 DEF Timer, TimerFires, HandlePendingTimeout, TimeoutFails, InitiateCallSession,
              JoinSessionRoom, RedisFails, RedisRecovers, Tick, vars
<1> QED BY <1>4, <1>6, <1>7, <1>8 DEF Next

\* Nothing is relayed but by a handler that carries a signal.
LEMMA StepRelayed ==
    ASSUME IInv, [Next]_vars, NEW c \in Call
    PROVE  relayed'[c] = relayed[c] \/ status[c] \in {"ACTIVE", "ENDED"}
<1>0. relayed \in [Call -> Seq(Signal)]
  BY DEF IInv, TypeOK
<1>1. ASSUME NEW p \in Procs, req[p].pc \in Signalling,
             UNCHANGED relayed \/ RelayTo(req[p].call, req[p].signal)
      PROVE  relayed'[c] = relayed[c] \/ status[c] \in {"ACTIVE", "ENDED"}
  <2>1. req[p].call \in Call /\ status[req[p].call] \in {"ACTIVE", "ENDED"}
    BY <1>1 DEF IInv, RequestsNameCalls, SignalsNeedAcceptance, Signalling
  <2> QED BY <1>0, <1>1, <2>1 DEF RelayTo
<1>2. ASSUME NEW p \in Procs, VerifySequence(p) \/ RelayIce(p)
      PROVE  relayed'[c] = relayed[c] \/ status[c] \in {"ACTIVE", "ENDED"}
  BY <1>1, <1>2 DEF VerifySequence, RelayIce, Signalling
<1>3. ASSUME NEW p \in Procs,
             Arrive(p) \/ Respond(p) \/ EndCallSession(p) \/ ClaimNonce(p)
      PROVE  UNCHANGED relayed
  BY <1>3 DEF Arrive, BeginRespond, BeginEnd, BeginSignal, Respond, EndCallSession,
              ClaimNonce, history
<1>4. ASSUME \/ \E x \in Call : Timer(x) \/ TimeoutFails(x) \/ InitiateCallSession(x)
             \/ \E x \in Call, a \in Actor : JoinSessionRoom(x, a)
             \/ RedisFails \/ RedisRecovers \/ Restart \/ Tick \/ UNCHANGED vars
      PROVE  UNCHANGED relayed
  BY <1>4 DEF Timer, TimerFires, HandlePendingTimeout, TimeoutFails, InitiateCallSession,
              JoinSessionRoom, RedisFails, RedisRecovers, Restart, Tick, vars, history
<1> QED BY <1>2, <1>3, <1>4 DEF Next, Proceed

\* The inductive invariant of calls and signals is kept by every step.
LEMMA StepIInv == IInv /\ [Next]_vars => IInv'
<1> SUFFICES ASSUME IInv, [Next]_vars PROVE IInv'
  OBVIOUS
<1>1. TypeOK'
  BY StepType DEF IInv
<1>2. StatusMoves
  BY StepStatus DEF IInv
<1>3. \A c \in Call : /\ status[c] # "none" => status'[c] # "none"
                      /\ status[c] \in {"ACTIVE", "ENDED"} => status'[c] \in {"ACTIVE", "ENDED"}
  BY <1>2, StatusStays DEF IInv
<1>4. ASSUME NEW q \in Procs
      PROVE  /\ req'[q].pc # "idle" => req'[q].call \in Call /\ status'[req'[q].call] # "none"
             /\ req'[q].pc \in Signalling =>
                  /\ req'[q].signal \in Signal /\ req'[q].open
                  /\ status'[req'[q].call] \in {"ACTIVE", "ENDED"}
  <2>1. CASE req'[q] = req[q]
    BY <1>3, <2>1 DEF IInv, RequestsNameCalls, SignalsNeedAcceptance, Signalling
  <2>2. CASE req'[q].pc = "idle"
    BY <2>2 DEF Signalling
  <2>3. CASE req'[q].pc \in {"respond", "end"} /\ Named(req'[q])
    BY <1>3, <2>3 DEF Signalling, Named
  <2>4. CASE req'[q].pc \in Signalling /\ Signals(req'[q])
    BY <1>3, <2>4 DEF Signalling, Signals
  <2> QED BY <2>1, <2>2, <2>3, <2>4, StepRequest
<1>5. RequestsNameCalls'
  BY <1>4 DEF RequestsNameCalls
<1>6. \A c \in Call : relayed'[c] # <<>> => status'[c] \in {"ACTIVE", "ENDED"}
  BY <1>3, StepRelayed DEF IInv, SignalsNeedAcceptance
<1>7. SignalsNeedAcceptance'
  BY <1>4, <1>6 DEF SignalsNeedAcceptance, Signalling
<1> QED BY <1>1, <1>5, <1>7 DEF IInv

\* The inductive invariant holds at first: no call and no signal.
LEMMA InitIInv == Init => IInv
<1> SUFFICES ASSUME Init PROVE IInv
  OBVIOUS
<1>1. TypeOK
  BY InitType
<1>2. RequestsNameCalls /\ SignalsNeedAcceptance
  BY DEF Init, Idle, RequestsNameCalls, SignalsNeedAcceptance, Signalling
<1> QED BY <1>1, <1>2 DEF IInv

\* The invariant holds in every state.
LEMMA Invariance == Spec => []IInv
  BY InitIInv, StepIInv, PTL DEF Spec

-----------------------------------------------------------------------------
\* The rows of realtime_sessions, the Redis keys and the handlers keep their types.
THEOREM TypeCorrect == Spec => []TypeOK
<1>1. IInv => TypeOK BY DEF IInv
<1> QED BY <1>1, Invariance, PTL

\* relaySignal only serves calls that were accepted, whatever hangs them up while
\* the handler waits for Redis.
THEOREM SignalsCorrect == Spec => []SignalsNeedAcceptance
<1>1. IInv => SignalsNeedAcceptance BY DEF IInv
<1> QED BY <1>1, Invariance, PTL

\* The conditional UPDATEs of respondToCall and handlePendingTimeout make the
\* service an implementation of the abstract call: one decision ends the ringing.
THEOREM OutcomeImplemented == Spec => ImplementsCallOutcome
<1>1. Init => Outcome!Init
  BY DEF Init, Outcome!Init
<1>2. IInv /\ [Next]_vars => [Outcome!Next]_status
  <2> SUFFICES ASSUME IInv, [Next]_vars PROVE [Outcome!Next]_status
    OBVIOUS
  <2>1. StatusMoves
    BY StepStatus DEF IInv
  <2> QED BY <2>1 DEF StatusMoves, Outcome!Next
<1> QED BY <1>1, <1>2, Invariance, PTL DEF Spec, ImplementsCallOutcome, Outcome!Spec

-----------------------------------------------------------------------------
(* Replay and order, within the lifetime of a sequence key *)

\* The key of its sender says that g, or a later signal, has passed.
Covers(c, g) == /\ seqKey[c][Sender[g]].until > MaxTime
                /\ Seq0[g] <= seqKey[c][Sender[g]].last
Sent(c) == {relayed[c][i] : i \in 1..Len(relayed[c])}

SentIsCovered == \A c \in Call : \A g \in Sent(c) : Covers(c, g)
\* A candidate that waits for its rate limit has passed the sequence, is not yet
\* relayed, and waits once.
WaitingIsCovered ==
    \A p \in Procs : req[p].pc = "rate" =>
      /\ Covers(req[p].call, req[p].signal)
      /\ IsIce[req[p].signal]
      /\ req[p].signal \notin Sent(req[p].call)
      /\ \A q \in Procs : req[q].pc = "rate" /\ req[q].call = req[p].call
                            /\ req[q].signal = req[p].signal => q = p
NoneTwice(c) == \A i, j \in 1..Len(relayed[c]) : relayed[c][i] = relayed[c][j] => i = j
InOrder(c) ==
    \A i, j \in 1..Len(relayed[c]) :
      LET g == relayed[c][i]  h == relayed[c][j] IN
      i < j /\ Sender[g] = Sender[h] /\ ~IsIce[g] /\ ~IsIce[h] => Seq0[g] < Seq0[h]

SequenceInv ==
    /\ now <= MaxTime
    /\ ~redisFailed => /\ redisUp
                       /\ SentIsCovered /\ WaitingIsCovered
                       /\ \A c \in Call : NoneTwice(c) /\ InOrder(c)

\* A step that neither runs the script of verifyAndSetSequence nor relays.
LEMMA QuietStep ==
    ASSUME IInv, SequenceInv, UNCHANGED <<seqKey, relayed>>, now' <= MaxTime,
           ~redisFailed' => ~redisFailed /\ redisUp',
           \A p \in Procs : req'[p].pc = "rate" => req'[p] = req[p]
    PROVE  SequenceInv'
<1> SUFFICES ASSUME ~redisFailed'
             PROVE  SentIsCovered' /\ WaitingIsCovered' /\ \A c \in Call : (NoneTwice(c) /\ InOrder(c))'
  BY DEF SequenceInv
<1>1. SentIsCovered /\ WaitingIsCovered /\ \A c \in Call : NoneTwice(c) /\ InOrder(c)
  BY DEF SequenceInv
<1>2. SentIsCovered'
  BY <1>1 DEF SentIsCovered, Sent, Covers
<1>3. WaitingIsCovered'
  BY <1>1 DEF WaitingIsCovered, Sent, Covers
<1>4. \A c \in Call : (NoneTwice(c) /\ InOrder(c))'
  BY <1>1 DEF NoneTwice, InOrder
<1> QED BY <1>2, <1>3, <1>4

\* What appending a signal that was not sent before does to a call.
LEMMA AppendSent ==
    ASSUME IInv, NEW c \in Call, NEW g \in Signal, RelayTo(c, g)
    PROVE  /\ Sent(c)' = Sent(c) \cup {g}
           /\ \A d \in Call \ {c} : relayed'[d] = relayed[d] /\ Sent(d)' = Sent(d)
           /\ NoneTwice(c) /\ g \notin Sent(c) => NoneTwice(c)'
           /\ InOrder(c) /\ (IsIce[g] \/ \A h \in Sent(c) : Sender[h] = Sender[g] => Seq0[h] < Seq0[g])
                => InOrder(c)'
<1>0. relayed \in [Call -> Seq(Signal)]
  BY DEF IInv, TypeOK
<1> DEFINE r == relayed[c]
<1>1. r \in Seq(Signal) /\ relayed'[c] = Append(r, g)
  BY <1>0 DEF RelayTo
<1>2. /\ Len(relayed'[c]) = Len(r) + 1 /\ Len(r) \in Nat
      /\ relayed'[c][Len(r) + 1] = g
      /\ \A i \in 1..Len(r) : relayed'[c][i] = r[i]
  BY <1>1
<1>3. \A i \in 1..Len(relayed'[c]) : i = Len(r) + 1 \/ i \in 1..Len(r)
  BY <1>2
<1>4. Sent(c)' = Sent(c) \cup {g}
  <2>1. Sent(c)' = {relayed'[c][i] : i \in 1..Len(relayed'[c])}
    BY DEF Sent
  <2>2. 1..Len(relayed'[c]) = (1..Len(r)) \cup {Len(r) + 1}
    BY <1>2
  <2> QED BY <1>2, <2>1, <2>2 DEF Sent
<1>5. \A d \in Call \ {c} : relayed'[d] = relayed[d] /\ Sent(d)' = Sent(d)
  BY <1>0 DEF RelayTo, Sent
<1>6. ASSUME NoneTwice(c), g \notin Sent(c) PROVE NoneTwice(c)'
  BY <1>2, <1>3, <1>6 DEF NoneTwice, Sent
<1>7. ASSUME InOrder(c), IsIce[g] \/ \A h \in Sent(c) : Sender[h] = Sender[g] => Seq0[h] < Seq0[g]
      PROVE  InOrder(c)'
  <2> SUFFICES ASSUME NEW i \in 1..Len(relayed'[c]), NEW j \in 1..Len(relayed'[c]), i < j,
                      Sender[relayed'[c][i]] = Sender[relayed'[c][j]],
                      ~IsIce[relayed'[c][i]], ~IsIce[relayed'[c][j]]
               PROVE  Seq0[relayed'[c][i]] < Seq0[relayed'[c][j]]
    BY DEF InOrder
  <2>1. i \in 1..Len(r)
    BY <1>2, <1>3
  <2>2. CASE j \in 1..Len(r)
    BY <1>2, <1>7, <2>1, <2>2 DEF InOrder
  <2>3. CASE j = Len(r) + 1
    BY <1>2, <1>7, <2>1, <2>3 DEF Sent
  <2> QED BY <1>3, <2>2, <2>3
<1> QED BY <1>4, <1>5, <1>6, <1>7

\* relaySignal of an ICE candidate that has been counted.
LEMMA RelayIceStep ==
    ASSUME IInv, SequenceInv, NEW p \in Procs, RelayIce(p) PROVE SequenceInv'
<1> DEFINE c == req[p].call  g == req[p].signal
<1>1. c \in Call /\ g \in Signal /\ req[p].pc = "rate"
  BY DEF RelayIce, IInv, RequestsNameCalls, Signalling
<1>2. RelayTo(c, g) /\ UNCHANGED <<now, seqKey, redisUp, redisFailed>>
  BY DEF RelayIce, redis
<1>3. \A q \in Procs : req'[q].pc = "rate" => q # p /\ req'[q] = req[q]
  BY DEF RelayIce, Finish, Goto, Idle, IInv, TypeOK
<1> SUFFICES ASSUME ~redisFailed
             PROVE  SentIsCovered' /\ WaitingIsCovered' /\ \A d \in Call : (NoneTwice(d) /\ InOrder(d))'
  BY <1>2 DEF SequenceInv
<1>4. SentIsCovered /\ WaitingIsCovered /\ \A d \in Call : NoneTwice(d) /\ InOrder(d)
  BY DEF SequenceInv
<1>5. Covers(c, g) /\ IsIce[g] /\ g \notin Sent(c)
  BY <1>1, <1>4 DEF WaitingIsCovered
<1>6. \A d \in Call : Sent(d)' = IF d = c THEN Sent(c) \cup {g} ELSE Sent(d)
  BY <1>1, <1>2, AppendSent
<1>7. SentIsCovered'
  BY <1>2, <1>4, <1>5, <1>6 DEF SentIsCovered, Covers
<1>8. WaitingIsCovered'
  <2> SUFFICES ASSUME NEW q \in Procs, req'[q].pc = "rate"
               PROVE  /\ Covers(req[q].call, req[q].signal)'
                      /\ IsIce[req'[q].signal]
                      /\ req'[q].signal \notin Sent(req[q].call)'
                      /\ \A t \in Procs : req'[t].pc = "rate" /\ req'[t].call = req'[q].call
                                            /\ req'[t].signal = req'[q].signal => t = q
    BY DEF WaitingIsCovered
  <2>1. req'[q] = req[q] /\ q # p
    BY <1>3
  <2>2. req[q].call \in Call
    BY <2>1 DEF IInv, RequestsNameCalls
  <2>3. req[q].call = c => req[q].signal # g
    BY <1>1, <1>4, <2>1 DEF WaitingIsCovered
  <2>4. Sent(req[q].call)' = IF req[q].call = c THEN Sent(c) \cup {g} ELSE Sent(req[q].call)
    BY <1>6, <2>1, <2>2 DEF Sent
  <2>5. req'[q].signal \notin Sent(req[q].call)'
    BY <1>4, <2>1, <2>3, <2>4 DEF WaitingIsCovered
  <2>6. Covers(req[q].call, req[q].signal)' /\ IsIce[req'[q].signal]
    BY <1>2, <1>4, <2>1 DEF WaitingIsCovered, Covers
  <2>7. \A t \in Procs : req'[t].pc = "rate" /\ req'[t].call = req'[q].call
                            /\ req'[t].signal = req'[q].signal => t = q
    BY <1>3, <1>4, <2>1 DEF WaitingIsCovered
  <2> QED BY <2>5, <2>6, <2>7
<1>9. ASSUME NEW d \in Call PROVE (NoneTwice(d) /\ InOrder(d))'
  <2>1. CASE d = c
    BY <1>1, <1>2, <1>4, <1>5, <2>1, AppendSent
  <2>2. CASE d # c
    <3>1. relayed'[d] = relayed[d]
      BY <1>1, <1>2, <2>2, AppendSent
    <3> QED BY <1>4, <3>1 DEF NoneTwice, InOrder
  <2> QED BY <2>1, <2>2
<1> QED BY <1>7, <1>8, <1>9

\* verifyAndSetSequence.
LEMMA VerifyStep ==
    ASSUME IInv, SequenceInv, MaxTime < SeqTtl, NEW p \in Procs, VerifySequence(p),
           NEW c, NEW g, c = req[p].call, g = req[p].signal
    PROVE  SequenceInv'
<1> DEFINE a == Sender[g]  k == seqKey[c][a]
<1> USE CallTimesAssumption
<1>1. c \in Call /\ g \in Signal /\ a \in Actor /\ req[p].pc = "sequence"
  BY CallsAssumption DEF VerifySequence, IInv, RequestsNameCalls, Signalling
<1>2. UNCHANGED <<now, redisUp, redisFailed>>
  BY DEF VerifySequence
<1>3. req \in [Procs -> Request] /\ req[p] \in Request
  BY DEF IInv, TypeOK
<1>4. \A q \in Procs \ {p} : req'[q] = req[q]
  BY <1>3 DEF VerifySequence, Finish, Goto
<1>5. CASE redisUp /\ ~InSequence(k, Seq0[g])
  <2>1. UNCHANGED <<seqKey, relayed>> /\ req'[p].pc = "idle"
    BY <1>3, <1>5 DEF VerifySequence, Finish, Goto, Idle
  <2>2. \A q \in Procs : req'[q].pc = "rate" => req'[q] = req[q]
    BY <1>4, <2>1
  <2> QED BY <1>2, <2>1, <2>2, QuietStep DEF SequenceInv
<1>6. CASE ~(redisUp /\ ~InSequence(k, Seq0[g]))
  <2> SUFFICES ASSUME ~redisFailed
               PROVE  SentIsCovered' /\ WaitingIsCovered' /\ \A d \in Call : (NoneTwice(d) /\ InOrder(d))'
    BY <1>2 DEF SequenceInv
  <2>1. redisUp /\ SentIsCovered /\ WaitingIsCovered /\ \A d \in Call : NoneTwice(d) /\ InOrder(d)
    BY DEF SequenceInv
  <2>2. InSequence(k, Seq0[g])
    BY <1>6, <2>1
  <2>3. seqKey' = [seqKey EXCEPT ![c][a] = [last |-> Seq0[g], until |-> now + SeqTtl]]
    BY <1>6, <2>1 DEF VerifySequence
  <2>4. k.until \in Nat /\ k.last \in Nat /\ now \in Nat /\ now <= MaxTime
    <3>1. k \in [last : Nat, until : Nat]
      BY <1>1 DEF IInv, TypeOK
    <3> QED BY <3>1 DEF IInv, TypeOK, SequenceInv
  <2>5. \A h \in Signal : Covers(c, h) /\ Sender[h] = a => Seq0[h] < Seq0[g]
    BY <1>1, <2>2, <2>4, CallsAssumption DEF Covers, InSequence
  <2>6. /\ seqKey'[c][a] = [last |-> Seq0[g], until |-> now + SeqTtl]
        /\ \A d \in Call, b \in Actor : d # c \/ b # a => seqKey'[d][b] = seqKey[d][b]
    BY <1>1, <2>3 DEF IInv, TypeOK
  <2>7. seqKey'[c][a].last = Seq0[g] /\ seqKey'[c][a].until > MaxTime
    BY <2>4, <2>6
  <2>8. \A d \in Call, h \in Signal : Covers(d, h) => Covers(d, h)'
    <3> SUFFICES ASSUME NEW d \in Call, NEW h \in Signal, Covers(d, h) PROVE Covers(d, h)'
      OBVIOUS
    <3>1. CASE d = c /\ Sender[h] = a
      <4>1. Seq0[h] < Seq0[g] /\ Seq0[h] \in Nat /\ Seq0[g] \in Nat
        BY <1>1, <2>5, <3>1, CallsAssumption
      <4> QED BY <2>7, <3>1, <4>1 DEF Covers
    <3>2. CASE d # c \/ Sender[h] # a
      <4>1. seqKey'[d][Sender[h]] = seqKey[d][Sender[h]]
        BY <2>6, <3>2, CallsAssumption
      <4> QED BY <4>1 DEF Covers
    <3> QED BY <3>1, <3>2
  <2>9. Covers(c, g)'
    BY <1>1, <2>7, CallsAssumption DEF Covers
  <2>10. \A d \in Call : Sent(d) \subseteq Signal
    BY DEF Sent, IInv, TypeOK
  <2>11. \A h \in Sent(c) : Sender[h] = a => Seq0[h] < Seq0[g]
    BY <1>1, <2>1, <2>5, <2>10 DEF SentIsCovered
  <2>12. g \notin Sent(c)
    BY <1>1, <2>11, CallsAssumption
  <2>13. \A q \in Procs : req[q].pc = "rate" =>
           /\ req[q].call \in Call /\ req[q].signal \in Signal
           /\ req[q].call = c => req[q].signal # g
    BY <1>1, <2>1, <2>5, CallsAssumption
       DEF WaitingIsCovered, IInv, RequestsNameCalls, Signalling
  <2>14. CASE IsIce[g]
    <3>1. UNCHANGED relayed /\ req'[p] = [req[p] EXCEPT !.pc = "rate"]
      BY <1>3, <1>6, <2>14 DEF VerifySequence, Goto
    <3>2. req'[p].call = c /\ req'[p].signal = g
      BY <1>3, <3>1 DEF Request
    <3>3. SentIsCovered'
      BY <2>1, <2>8, <2>10, <3>1 DEF SentIsCovered, Sent
    <3>4. WaitingIsCovered'
      <4> SUFFICES ASSUME NEW q \in Procs, req'[q].pc = "rate"
                   PROVE  /\ Covers(req[q].call, req[q].signal)'
                          /\ IsIce[req'[q].signal]
                          /\ req'[q].signal \notin Sent(req[q].call)'
                          /\ \A t \in Procs : req'[t].pc = "rate" /\ req'[t].call = req'[q].call
                                                /\ req'[t].signal = req'[q].signal => t = q
        BY DEF WaitingIsCovered
      <4>1. \A t \in Procs \ {p} : req'[t].pc = "rate" =>
              ~(req'[t].call = c /\ req'[t].signal = g)
        BY <1>4, <2>13
      <4>2. CASE q = p
        <5>1. Covers(req[q].call, req[q].signal)'
          BY <2>9, <3>2, <4>2 DEF Covers
        <5>2. req'[q].signal \notin Sent(req[q].call)'
          BY <2>12, <3>1, <3>2, <4>2 DEF Sent
        <5> QED BY <2>14, <3>2, <4>1, <4>2, <5>1, <5>2
      <4>3. CASE q # p
        <5>1. req'[q] = req[q] /\ req[q].call \in Call /\ req[q].signal \in Signal
          BY <1>4, <2>13, <4>3
        <5>2. Covers(req[q].call, req[q].signal)
          BY <2>1, <5>1 DEF WaitingIsCovered
        <5>3. Covers(req[q].call, req[q].signal)'
          BY <2>8, <5>1, <5>2 DEF Covers
        <5>4. req'[q].signal \notin Sent(req[q].call)' /\ IsIce[req'[q].signal]
          BY <2>1, <3>1, <5>1 DEF WaitingIsCovered, Sent
        <5>5. \A t \in Procs : req'[t].pc = "rate" /\ req'[t].call = req'[q].call
                                  /\ req'[t].signal = req'[q].signal => t = q
          BY <1>4, <2>1, <2>13, <3>2, <4>3, <5>1 DEF WaitingIsCovered
        <5> QED BY <5>3, <5>4, <5>5
      <4> QED BY <4>2, <4>3
    <3>5. \A d \in Call : (NoneTwice(d) /\ InOrder(d))'
      BY <2>1, <3>1 DEF NoneTwice, InOrder
    <3> QED BY <3>3, <3>4, <3>5
  <2>15. CASE ~IsIce[g]
    <3>1. RelayTo(c, g) /\ req'[p].pc = "idle"
      BY <1>3, <1>6, <2>15 DEF VerifySequence, Finish, Goto, Idle
    <3>2. \A d \in Call : Sent(d)' = IF d = c THEN Sent(c) \cup {g} ELSE Sent(d)
      BY <1>1, <3>1, AppendSent
    <3>3. SentIsCovered'
      BY <2>1, <2>8, <2>9, <2>10, <3>2 DEF SentIsCovered
    <3>4. WaitingIsCovered'
      <4> SUFFICES ASSUME NEW q \in Procs, req'[q].pc = "rate"
                   PROVE  /\ Covers(req[q].call, req[q].signal)'
                          /\ IsIce[req'[q].signal]
                          /\ req'[q].signal \notin Sent(req[q].call)'
                          /\ \A t \in Procs : req'[t].pc = "rate" /\ req'[t].call = req'[q].call
                                                /\ req'[t].signal = req'[q].signal => t = q
        BY DEF WaitingIsCovered
      <4>1. req'[q] = req[q] /\ req[q].call \in Call /\ req[q].signal \in Signal
        BY <1>4, <2>13, <3>1
      <4>2. Covers(req[q].call, req[q].signal)
        BY <2>1, <4>1 DEF WaitingIsCovered
      <4>3. Covers(req[q].call, req[q].signal)'
        BY <2>8, <4>1, <4>2 DEF Covers
      <4>4. Sent(req[q].call)' = IF req[q].call = c THEN Sent(c) \cup {g} ELSE Sent(req[q].call)
        BY <3>2, <4>1 DEF Sent
      <4>5. req'[q].signal \notin Sent(req[q].call)' /\ IsIce[req'[q].signal]
        BY <2>1, <2>13, <4>1, <4>4 DEF WaitingIsCovered
      <4>6. \A t \in Procs : req'[t].pc = "rate" /\ req'[t].call = req'[q].call
                                /\ req'[t].signal = req'[q].signal => t = q
        BY <1>4, <2>1, <3>1, <4>1 DEF WaitingIsCovered
      <4> QED BY <4>3, <4>5, <4>6
    <3>5. ASSUME NEW d \in Call PROVE (NoneTwice(d) /\ InOrder(d))'
      <4>1. CASE d = c
        BY <1>1, <2>1, <2>11, <2>12, <3>1, <4>1, AppendSent
      <4>2. CASE d # c
        <5>1. relayed'[d] = relayed[d]
          BY <1>1, <3>1, <4>2, AppendSent
        <5> QED BY <2>1, <5>1 DEF NoneTwice, InOrder
      <4> QED BY <4>1, <4>2
    <3> QED BY <3>3, <3>4, <3>5
  <2> QED BY <2>14, <2>15
<1> QED BY <1>5, <1>6

\* Every step keeps the agreement of relayed signals with the sequence keys.
LEMMA StepSequence ==
    ASSUME IInv, SequenceInv, MaxTime < SeqTtl, [Next]_vars PROVE SequenceInv'
<1> USE CallTimesAssumption
<1>0. req \in [Procs -> Request] /\ now \in Nat
  BY DEF IInv, TypeOK
<1>1. ASSUME NEW p \in Procs, Arrive(p) PROVE SequenceInv'
  <2>1. \A q \in Procs : req'[q].pc = "rate" => req'[q] = req[q]
    BY <1>0, <1>1 DEF Arrive, BeginRespond, BeginEnd, BeginSignal, Goto, Idle
  <2>2. UNCHANGED <<now, seqKey, relayed, redisUp, redisFailed>>
    BY <1>1 DEF Arrive, BeginRespond, BeginEnd, BeginSignal, redis, history
  <2> QED BY <2>1, <2>2, QuietStep DEF SequenceInv
<1>2. ASSUME NEW p \in Procs, Respond(p) \/ EndCallSession(p) \/ ClaimNonce(p)
      PROVE  SequenceInv'
  <2>1. \A q \in Procs : req'[q].pc = "rate" => req'[q] = req[q]
    BY <1>0, <1>2 DEF Respond, EndCallSession, ClaimNonce, Finish, Goto, Idle, Request
  <2>2. UNCHANGED <<now, seqKey, relayed, redisUp, redisFailed>>
    BY <1>2 DEF Respond, EndCallSession, ClaimNonce, redis, history
  <2> QED BY <2>1, <2>2, QuietStep DEF SequenceInv
<1>7. ASSUME NEW p \in Procs, VerifySequence(p) PROVE SequenceInv'
  <2>1. PICK c, g : c = req[p].call /\ g = req[p].signal
    OBVIOUS
  <2> QED BY <1>7, <2>1, VerifyStep
<1>3. ASSUME \/ \E c \in Call : Timer(c) \/ TimeoutFails(c) \/ InitiateCallSession(c)
             \/ \E c \in Call, a \in Actor : JoinSessionRoom(c, a)
             \/ UNCHANGED vars
      PROVE  SequenceInv'
  <2>1. UNCHANGED <<now, seqKey, relayed, redisUp, redisFailed, req>>
    BY <1>3 DEF Timer, TimerFires, HandlePendingTimeout, TimeoutFails, InitiateCallSession,
                JoinSessionRoom, vars, redis, history
  <2> QED BY <2>1, QuietStep DEF SequenceInv
<1>4. CASE RedisFails \/ RedisRecovers
  <2>1. UNCHANGED <<now, seqKey, relayed, req>> /\ (~redisFailed' => ~redisFailed /\ redisUp')
    BY <1>4 DEF RedisFails, RedisRecovers, history
  <2> QED BY <2>1, QuietStep DEF SequenceInv
<1>5. CASE Restart
  <2>1. /\ UNCHANGED <<now, seqKey, relayed, redisUp, redisFailed>>
        /\ \A q \in Procs : req'[q].pc # "rate"
    BY <1>5 DEF Restart, Idle, redis, history
  <2> QED BY <2>1, QuietStep DEF SequenceInv
<1>6. CASE Tick
  <2>1. UNCHANGED <<seqKey, relayed, redisUp, redisFailed, req>> /\ now' <= MaxTime
    BY <1>0, <1>6 DEF Tick, redis, history
  <2> QED BY <2>1, QuietStep DEF SequenceInv
<1> QED BY RelayIceStep, <1>1, <1>2, <1>3, <1>4, <1>5, <1>6, <1>7 DEF Next, Proceed

\* Nothing has been relayed at first.
LEMMA InitSequence == Init => SequenceInv
  BY CallTimesAssumption DEF Init, Idle, SequenceInv, SentIsCovered, WaitingIsCovered,
                             Sent, NoneTwice, InOrder

\* While the sequence keys live, they agree with what was relayed.
LEMMA SequenceInvariance ==
    ASSUME MaxTime < SeqTtl PROVE Spec => []SequenceInv
<1>1. IInv /\ SequenceInv /\ [Next]_vars => SequenceInv'
  BY StepSequence
<1> QED BY <1>1, InitSequence, Invariance, PTL DEF Spec

\* While the key of verifyAndSetSequence lives (an hour after the last signal of its
\* sender), no signal is relayed twice, with any number of handlers at once.
THEOREM ReplayCorrect ==
    ASSUME MaxTime < SeqTtl PROVE Spec => []NoReplay
<1>1. SequenceInv => NoReplay
  BY DEF SequenceInv, NoneTwice, NoReplay
<1> QED BY <1>1, SequenceInvariance, PTL

\* Within the same time, relaySignal passes offers and answers of a sender in the
\* order of their sequence numbers.
THEOREM OrderCorrect ==
    ASSUME MaxTime < SeqTtl PROVE Spec => []RelayOrder
<1>1. SequenceInv => RelayOrder
  BY DEF SequenceInv, InOrder, RelayOrder
<1> QED BY <1>1, SequenceInvariance, PTL

-----------------------------------------------------------------------------
(* The safety half of RingingEnds *)

\* As long as the process has not restarted and the callback met no database
\* error, a ringing call has its timer pending with at most RingTime to go, or the callback of the timer is about to store the
\* timeout; the clock can reach the expiry.
RingingIsTimed ==
    \A c \in Call : status[c] = "PENDING" =>
      /\ expiresAt[c] <= MaxTime
      /\ ~TimeoutLost(c) =>
           \/ c \in timer /\ now <= expiresAt[c] /\ expiresAt[c] <= now + RingTime
           \/ c \in firing /\ Expired(c)

\* A ringing call keeps its expiry, its timer is not set back, and the callback
\* that found it ringing ends the ringing: only a restart or the callback's own
\* database error loses either.
RingingWanes ==
    [][\A c \in Call : status[c] = "PENDING" /\ status'[c] = "PENDING" =>
         /\ expiresAt'[c] = expiresAt[c]
         /\ c \in firing /\ ~TimeoutLost(c)' => c \in firing'
         /\ c \in timer /\ ~TimeoutLost(c)' => c \in timer' \/ c \in firing']_vars

\* A callback is on its way only for a call that was initiated and whose time, if
\* it still rings, is over.
FiringIsDue ==
    \A c \in firing : status[c] # "none" /\ (status[c] = "PENDING" => Expired(c))

\* No call is ringing at first.
LEMMA InitRinging == Init => RingingIsTimed /\ FiringIsDue
  BY DEF Init, RingingIsTimed, FiringIsDue

\* The step of one handler: an answer ends the ringing or changes nothing.
LEMMA ProceedRinging ==
    ASSUME IInv, NEW p \in Procs, Arrive(p) \/ Proceed(p), NEW c \in Call,
           status'[c] = "PENDING"
    PROVE  /\ status[c] = "PENDING" /\ expiresAt'[c] = expiresAt[c]
           /\ UNCHANGED <<now, timer, firing, losses>>
<1> USE DEF IInv, TypeOK
<1>1. CASE Arrive(p)
  BY <1>1 DEF Arrive, BeginRespond, BeginEnd, BeginSignal, database
<1>2. CASE Respond(p)
  <2>1. req[p].call \in Call
    BY <1>2 DEF Respond, RequestsNameCalls
  <2>2. Answer(req[p].accept) # "PENDING"
    BY DEF Answer
  <2> QED BY <1>2, <2>1, <2>2 DEF Respond
<1>3. CASE EndCallSession(p)
  BY <1>3 DEF EndCallSession, RequestsNameCalls
<1>4. CASE ClaimNonce(p) \/ VerifySequence(p) \/ RelayIce(p)
  BY <1>4 DEF ClaimNonce, VerifySequence, RelayIce, database
<1> QED BY <1>1, <1>2, <1>3, <1>4 DEF Proceed

\* A callback is due when it starts and stays so: a ringing call keeps its expiry.
LEMMA StepFiring ==
    ASSUME IInv, [Next]_vars, FiringIsDue PROVE FiringIsDue'
<1> SUFFICES ASSUME NEW c \in Call, c \in firing'
             PROVE  status'[c] # "none" /\ (status'[c] = "PENDING" => Expired(c)')
  <2>1. firing' \subseteq Call
    BY StepType DEF IInv, TypeOK
  <2> QED BY <2>1 DEF FiringIsDue
<1> USE CallTimesAssumption DEF IInv, TypeOK, FiringIsDue, Expired
<1>0. now \in Nat /\ expiresAt[c] \in Nat
  OBVIOUS
<1>1. c \in firing => status'[c] # "none"
  BY StepStatus, StatusStays
<1>2. ASSUME NEW p \in Procs, Arrive(p) \/ Proceed(p)
      PROVE  status'[c] # "none" /\ (status'[c] = "PENDING" => Expired(c)')
  <2>1. firing' = firing /\ now' = now
    BY <1>2 DEF Arrive, BeginRespond, BeginEnd, BeginSignal, Proceed, Respond,
       EndCallSession, ClaimNonce, VerifySequence, RelayIce, database
  <2> QED BY <1>1, <1>2, <2>1, ProceedRinging
<1>3. ASSUME NEW d \in Call, InitiateCallSession(d)
      PROVE  status'[c] # "none" /\ (status'[c] = "PENDING" => Expired(c)')
  BY <1>1, <1>3 DEF InitiateCallSession
<1>4. ASSUME NEW d \in Call, TimerFires(d)
      PROVE  status'[c] # "none" /\ (status'[c] = "PENDING" => Expired(c)')
  BY <1>1, <1>4 DEF TimerFires
<1>5. ASSUME NEW d \in Call, HandlePendingTimeout(d)
      PROVE  status'[c] # "none" /\ (status'[c] = "PENDING" => Expired(c)')
  BY <1>1, <1>5 DEF HandlePendingTimeout
<1>10. ASSUME NEW d \in Call, TimeoutFails(d)
      PROVE  status'[c] # "none" /\ (status'[c] = "PENDING" => Expired(c)')
  BY <1>1, <1>10 DEF TimeoutFails
<1>6. ASSUME NEW d \in Call, NEW a \in Actor, JoinSessionRoom(d, a)
      PROVE  status'[c] # "none" /\ (status'[c] = "PENDING" => Expired(c)')
  BY <1>6 DEF JoinSessionRoom
<1>7. CASE RedisFails \/ RedisRecovers \/ UNCHANGED vars
  BY <1>7 DEF RedisFails, RedisRecovers, vars, database
<1>8. CASE Restart
  BY <1>8 DEF Restart
<1>9. CASE Tick
  BY <1>0, <1>9 DEF Tick, database
<1> QED BY <1>2, <1>3, <1>4, <1>5, <1>6, <1>7, <1>8, <1>9, <1>10 DEF Next, Timer

\* What every step leaves of a ringing call.
LEMMA StepRinging ==
    ASSUME IInv, [Next]_vars, RingingIsTimed, FiringIsDue, NEW c \in Call,
           status'[c] = "PENDING"
    PROVE  /\ expiresAt'[c] <= MaxTime
           /\ ~TimeoutLost(c)' =>
                \/ c \in timer' /\ now' <= expiresAt'[c] /\ expiresAt'[c] <= now' + RingTime
                \/ c \in firing' /\ Expired(c)'
           /\ status[c] = "PENDING" =>
                /\ expiresAt'[c] = expiresAt[c]
                /\ c \in firing /\ ~TimeoutLost(c)' => c \in firing'
                /\ c \in timer /\ ~TimeoutLost(c)' => c \in timer' \/ c \in firing'
<1> DEFINE Kept == /\ expiresAt'[c] <= MaxTime
                   /\ ~TimeoutLost(c)' =>
                        \/ c \in timer' /\ now' <= expiresAt'[c] /\ expiresAt'[c] <= now' + RingTime
                        \/ c \in firing' /\ Expired(c)'
                   /\ status[c] = "PENDING" =>
                        /\ expiresAt'[c] = expiresAt[c]
                        /\ c \in firing /\ ~TimeoutLost(c)' => c \in firing'
                        /\ c \in timer /\ ~TimeoutLost(c)' => c \in timer' \/ c \in firing'
<1> USE CallTimesAssumption DEF IInv, TypeOK, RingingIsTimed, Expired, TimeoutLost, losses
<1>0. now \in Nat /\ expiresAt[c] \in Nat /\ RingTime \in Nat /\ MaxTime \in Nat
  OBVIOUS
<1>1. ASSUME status[c] = "PENDING", UNCHANGED <<now, losses>>,
             timer' = timer, firing' = firing, expiresAt'[c] = expiresAt[c]
      PROVE  Kept
  BY <1>0, <1>1
<1>2. ASSUME NEW p \in Procs, Arrive(p) \/ Proceed(p) PROVE Kept
  BY <1>1, <1>2, ProceedRinging
<1>3. ASSUME NEW d \in Call, InitiateCallSession(d) PROVE Kept
  <2>1. CASE d = c
    <3>1. /\ expiresAt'[c] = now + RingTime /\ now' = now /\ c \in timer'
          /\ now + RingTime <= MaxTime /\ status[c] = "none"
      BY <1>3, <2>1 DEF InitiateCallSession
    <3> QED BY <1>0, <3>1
  <2>2. CASE d # c
    BY <1>0, <1>3, <2>2 DEF InitiateCallSession
  <2> QED BY <2>1, <2>2
<1>4. ASSUME NEW d \in Call, TimerFires(d) PROVE Kept
  <2>1. status[c] = "PENDING" /\ UNCHANGED <<now, losses, expiresAt>>
    BY <1>4 DEF TimerFires
  <2>2. CASE d = c
    BY <1>0, <1>4, <2>1, <2>2 DEF TimerFires
  <2>3. CASE d # c
    BY <1>0, <1>4, <2>1, <2>3 DEF TimerFires
  <2> QED BY <2>2, <2>3
<1>5. ASSUME NEW d \in Call, HandlePendingTimeout(d) PROVE Kept
  <2>1. status[c] = "PENDING" /\ UNCHANGED <<now, losses, expiresAt, timer>>
    BY <1>5 DEF HandlePendingTimeout
  <2>2. CASE d = c
    <3>1. ~Expired(c) /\ c \in firing
      BY <1>5, <2>1, <2>2 DEF HandlePendingTimeout, TimesOut
    <3> QED BY <2>1, <3>1 DEF FiringIsDue
  <2>3. CASE d # c
    BY <1>0, <1>5, <2>1, <2>3 DEF HandlePendingTimeout
  <2> QED BY <2>2, <2>3
<1>11. ASSUME NEW d \in Call, TimeoutFails(d) PROVE Kept
  <2>1. /\ status[c] = "PENDING" /\ UNCHANGED <<now, expiresAt, restarted>>
        /\ dropped' = dropped \cup {d}
    BY <1>11 DEF TimeoutFails
  <2>2. CASE d = c
    BY <1>0, <2>1, <2>2
  <2>3. CASE d # c
    <3>1. /\ c \in timer <=> c \in timer'
          /\ c \in firing <=> c \in firing'
          /\ TimeoutLost(c)' <=> TimeoutLost(c)
      BY <1>11, <2>1, <2>3 DEF TimeoutFails
    <3> QED BY <1>0, <2>1, <3>1
  <2> QED BY <2>2, <2>3
<1>6. ASSUME NEW d \in Call, NEW a \in Actor, JoinSessionRoom(d, a) PROVE Kept
  BY <1>1, <1>6 DEF JoinSessionRoom
<1>7. CASE RedisFails \/ RedisRecovers
  BY <1>1, <1>7 DEF RedisFails, RedisRecovers, database
<1>8. CASE Restart
  BY <1>0, <1>8 DEF Restart
<1>9. CASE Tick
  <2>1. /\ now' = now + 1 /\ UNCHANGED <<status, expiresAt, timer, firing, losses>>
        /\ c \in timer => now < expiresAt[c]
    BY <1>0, <1>9 DEF Tick, database
  <2> QED BY <1>0, <2>1
<1>10. CASE UNCHANGED vars
  BY <1>1, <1>10 DEF vars, database
<1> QED BY <1>2, <1>3, <1>4, <1>5, <1>6, <1>7, <1>8, <1>9, <1>10, <1>11 DEF Next, Timer

\* A ringing call has a pending timer or a callback on its way in every reachable
\* state before a restart or an error of its callback, and no step postpones the
\* end of the ringing: what is left to fairness is that the clock, the timer and
\* the callback go on.
THEOREM RingingIsBounded == Spec => []RingingIsTimed /\ RingingWanes
<1> DEFINE Wanes == \A c \in Call : status[c] = "PENDING" /\ status'[c] = "PENDING" =>
                      /\ expiresAt'[c] = expiresAt[c]
                      /\ c \in firing /\ ~TimeoutLost(c)' => c \in firing'
                      /\ c \in timer /\ ~TimeoutLost(c)' => c \in timer' \/ c \in firing'
           Timed == RingingIsTimed /\ FiringIsDue
<1>1. IInv /\ Timed /\ [Next]_vars => Timed'
  <2> SUFFICES ASSUME IInv, Timed, [Next]_vars PROVE Timed'
    OBVIOUS
  <2>1. RingingIsTimed'
    BY StepRinging DEF RingingIsTimed
  <2> QED BY <2>1, StepFiring
<1>2. IInv /\ Timed /\ [Next]_vars => Wanes
  <2> SUFFICES ASSUME IInv, Timed, [Next]_vars PROVE Wanes
    OBVIOUS
  <2> QED BY StepRinging
<1>3. Init => Timed
  BY InitRinging
<1>4. Timed => RingingIsTimed
  OBVIOUS
<1> HIDE DEF Wanes, Timed
<1>5. Spec => []Timed
  BY <1>1, <1>3, Invariance, PTL DEF Spec
<1>6. Spec => [][Wanes]_vars
  BY <1>2, <1>5, Invariance, PTL DEF Spec
<1> QED BY <1>4, <1>5, <1>6, PTL DEF RingingWanes, Wanes
=============================================================================
