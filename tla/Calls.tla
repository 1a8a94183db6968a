------------------------------- MODULE Calls -------------------------------
(***************************************************************************)
(* Voice and video calls: call-session.service.ts over the table           *)
(* realtime_sessions, and the WebRTC handlers of realtime.gateway.ts with  *)
(* the anti-replay keys of redis.service.ts.                               *)
(*                                                                         *)
(* A handler is a slot p of Procs; its read, its conditional UPDATE and    *)
(* each Redis command is a step.  A request that is refused changes nothing *)
(* and is not a step: the rate limit of invitations, strangers to the call. *)
(* Time is counted in ticks.                                               *)
(***************************************************************************)
EXTENDS Integers, Sequences

CONSTANTS Call, Procs,
          Actor,                 \* participants: the owner, the driver, administrators
          Signal, Sender, Seq0, SentAt, IsIce,   \* the signals clients send:
                                 \* sender, seq, timestamp and kind; each has its nonce
          None,
          RingTime, ActiveTime,  \* 30 s, 60 min
          Skew, NonceTtl, SeqTtl,  \* 30 s, 60 s, 3600 s
          MaxTime, MaxSends, MaxFaults  \* bounds: the clock, signals handled, faults

ASSUME CallsAssumption ==
    /\ Sender \in [Signal -> Actor] /\ Seq0 \in [Signal -> Nat]
    /\ SentAt \in [Signal -> Nat] /\ IsIce \in [Signal -> BOOLEAN]
    /\ None \notin Call \cup Signal \cup Actor
ASSUME CallTimesAssumption ==
    {RingTime, ActiveTime, Skew, NonceTtl, SeqTtl, MaxTime, MaxSends, MaxFaults}
      \subseteq Nat

VARIABLES now,
          status, expiresAt,    \* realtime_sessions
          timer, firing,        \* calls whose setTimeout is pending; whose callback
                                \* has found them ringing
          members,              \* actors with a socket in the room of the call
          nonce,                \* Redis: when the key of a nonce expires
          seqKey,               \* Redis: the last seq of a sender and its expiry
          redisUp, redisFailed, \* Redis reachable; has it ever not been
          restarted,            \* the process has been restarted
          dropped,              \* calls whose timeout met a database error
          relayed,              \* the signals sent to the room of a call, in order
          sends,                \* signals handled so far
          req

database == <<status, expiresAt, timer, firing, members>>
redis == <<nonce, seqKey, redisUp, redisFailed>>
history == <<relayed, sends>>
losses == <<restarted, dropped>>   \* the two ways to lose a ring timeout
vars == <<now, database, redis, losses, history, req>>

Statuses == {"none", "PENDING", "ACTIVE", "DECLINED", "TIMEOUT", "ENDED"}
Final == {"DECLINED", "TIMEOUT", "ENDED"}
Request == [pc : {"idle", "respond", "end", "nonce", "sequence", "rate"},
            call : Call \cup {None}, accept : BOOLEAN, actor : Actor \cup {None},
            signal : Signal \cup {None},
            at : Nat,            \* the clock when the row was read
            open : BOOLEAN]      \* the call was not over when the handler began
Idle == [pc |-> "idle", call |-> None, accept |-> FALSE, actor |-> None,
         signal |-> None, at |-> 0, open |-> TRUE]

Init == /\ now = 0
        /\ status = [c \in Call |-> "none"]
        /\ expiresAt = [c \in Call |-> 0]
        /\ timer = {} /\ firing = {}
        /\ members = [c \in Call |-> {}]
        /\ nonce = [c \in Call |-> [g \in Signal |-> 0]]
        /\ seqKey = [c \in Call |-> [a \in Actor |-> [last |-> 0, until |-> 0]]]
        /\ redisUp = TRUE /\ redisFailed = FALSE
        /\ restarted = FALSE /\ dropped = {}
        /\ relayed = [c \in Call |-> <<>>]
        /\ sends = 0
        /\ req = [p \in Procs |-> Idle]

Goto(p, r) == req' = [req EXCEPT ![p] = r]
Finish(p) == Goto(p, Idle)

-----------------------------------------------------------------------------
(* call-session.service.ts *)

\* The row and the timer of 30 seconds; expiresAt is computed before the INSERT,
\* so the timer is never early.
InitiateCallSession(c) ==
    /\ status[c] = "none" /\ now + RingTime <= MaxTime
    /\ status' = [status EXCEPT ![c] = "PENDING"]
    /\ expiresAt' = [expiresAt EXCEPT ![c] = now + RingTime]
    /\ timer' = timer \cup {c}
    /\ UNCHANGED <<now, firing, members, redis, losses, history, req>>

Expired(c) == expiresAt[c] <= now

\* The answer: an acceptance by a socket of a, an acceptance by the HTTP endpoint
\* (a = None, no socket to join to the room), or a refusal.
BeginRespond(p, c, a, accept) ==
    /\ req[p].pc = "idle"
    /\ status[c] = "PENDING" /\ ~Expired(c)
    /\ Goto(p, [Idle EXCEPT !.pc = "respond", !.call = c, !.accept = accept,
                            !.actor = a, !.at = now])
    /\ UNCHANGED <<now, database, redis, losses, history>>

\* UPDATE ... WHERE status = 'PENDING' AND expires_at > the time of the read.
\* Fault: the row is updated by its id.
ClaimsById(c, at) == TRUE
Claims(c, at) == status[c] = "PENDING" /\ expiresAt[c] > at

\* Fault: the action of the request is stored as the status.
AnswerAction(accept) == IF accept THEN "ACCEPT" ELSE "DECLINE"
Answer(accept) == IF accept THEN "ACTIVE" ELSE "DECLINED"
\* handleWebrtcCallRespond joins the socket that accepts to the room.
AfterAnswer(p) ==
    IF req[p].accept /\ req[p].actor # None
      THEN [members EXCEPT ![req[p].call] = @ \cup {req[p].actor}] ELSE members
Respond(p) ==
    LET c == req[p].call IN
    /\ req[p].pc = "respond"
    /\ IF Claims(c, req[p].at)
         THEN /\ status' = [status EXCEPT ![c] = Answer(req[p].accept)]
              /\ expiresAt' = IF req[p].accept
                                THEN [expiresAt EXCEPT ![c] = req[p].at + ActiveTime]
                                ELSE expiresAt
              /\ members' = AfterAnswer(p)
         ELSE UNCHANGED <<status, expiresAt, members>>
    /\ Finish(p)
    /\ UNCHANGED <<now, timer, firing, redis, losses, history>>

BeginEnd(p, c) ==
    /\ req[p].pc = "idle"
    /\ status[c] \notin {"none", "ENDED"}
    /\ Goto(p, [Idle EXCEPT !.pc = "end", !.call = c])
    /\ UNCHANGED <<now, database, redis, losses, history>>

\* UPDATE by id: it also replaces an outcome stored since the read.
EndCallSession(p) ==
    /\ req[p].pc = "end"
    /\ status' = [status EXCEPT ![req[p].call] = "ENDED"]
    /\ Finish(p)
    /\ UNCHANGED <<now, expiresAt, timer, firing, members, redis, losses, history>>

\* The timer fires and finds the call ringing, or not.
TimerFires(c) ==
    /\ c \in timer /\ Expired(c)
    /\ timer' = timer \ {c}
    /\ firing' = IF status[c] = "PENDING" THEN firing \cup {c} ELSE firing
    /\ UNCHANGED <<now, status, expiresAt, members, redis, losses, history, req>>

\* UPDATE ... WHERE status = 'PENDING' AND expires_at <= now.
\* Fault: the comparison with the clock is the wrong way round.
TimesOutLate(c) == status[c] = "PENDING" /\ expiresAt[c] > now
TimesOut(c) == status[c] = "PENDING" /\ Expired(c)
HandlePendingTimeout(c) ==
    /\ c \in firing
    /\ firing' = firing \ {c}
    /\ status' = IF TimesOut(c) THEN [status EXCEPT ![c] = "TIMEOUT"] ELSE status
    /\ UNCHANGED <<now, expiresAt, timer, members, redis, losses, history, req>>

Faults == (IF redisFailed THEN 1 ELSE 0) + (IF restarted THEN 1 ELSE 0)
          + (IF dropped # {} THEN 1 ELSE 0)

\* The read or the UPDATE of the callback fails: the catch writes a line to the
\* log, and no timer is set again.
TimeoutFails(c) ==
    /\ Faults < MaxFaults
    /\ c \in firing \/ (c \in timer /\ Expired(c))
    /\ timer' = timer \ {c} /\ firing' = firing \ {c}
    /\ dropped' = dropped \cup {c}
    /\ UNCHANGED <<now, status, expiresAt, members, redis, restarted, history, req>>

-----------------------------------------------------------------------------
(* realtime.gateway.ts: offer, answer and ICE candidate *)

\* join_room of session:<id>, which any participant may do (Realtime).
JoinSessionRoom(c, a) ==
    /\ status[c] # "none" /\ a \notin members[c]
    /\ members' = [members EXCEPT ![c] = @ \cup {a}]
    /\ UNCHANGED <<now, status, expiresAt, timer, firing, redis, losses, history, req>>

\* authorizeSignal: an accepted call that has not expired.
\* Fault: the status is not looked at.
MaySignalUnexpired(c) == ~Expired(c)
MaySignal(c) == status[c] = "ACTIVE" /\ ~Expired(c)
Fresh(g) == now - SentAt[g] <= Skew /\ SentAt[g] - now <= Skew

\* A client sends a signal, perhaps once more: the row is read and the timestamp
\* compared with the clock.
BeginSignal(p, c, g) ==
    /\ req[p].pc = "idle" /\ sends < MaxSends
    /\ Sender[g] \in members[c]
    /\ MaySignal(c)
    /\ Fresh(g)
    /\ sends' = sends + 1
    /\ Goto(p, [Idle EXCEPT !.pc = "nonce", !.call = c, !.signal = g,
                            !.open = status[c] \notin Final])
    /\ UNCHANGED <<now, database, redis, losses, relayed>>

\* setNxEx; a Redis that cannot be reached refuses nothing.
ClaimNonce(p) ==
    LET c == req[p].call  g == req[p].signal IN
    /\ req[p].pc = "nonce"
    /\ IF ~redisUp
         THEN Goto(p, [req[p] EXCEPT !.pc = "sequence"]) /\ UNCHANGED nonce
       ELSE IF nonce[c][g] > now
         THEN Finish(p) /\ UNCHANGED nonce
         ELSE /\ nonce' = [nonce EXCEPT ![c][g] = now + NonceTtl]
              /\ Goto(p, [req[p] EXCEPT !.pc = "sequence"])
    /\ UNCHANGED <<now, database, seqKey, redisUp, redisFailed, losses, history>>

\* verifyAndSetSequence, a Lua script.
\* Faults: a repeated sequence number passes; any number does.
InSequenceOrEqual(k, q) == k.until <= now \/ k.last <= q
InSequenceAny(k, q) == TRUE
InSequence(k, q) == k.until <= now \/ k.last < q

RelayTo(c, g) == relayed' = [relayed EXCEPT ![c] = Append(@, g)]

\* The answer continues the handler at once, in the order of the script's runs:
\* an offer or an answer is relayed, an ICE candidate first counted (50 a minute,
\* a limit beyond the bounds here), which is another await.
VerifySequence(p) ==
    LET c == req[p].call  g == req[p].signal  k == seqKey[c][Sender[g]] IN
    /\ req[p].pc = "sequence"
    /\ IF redisUp /\ ~InSequence(k, Seq0[g])
         THEN Finish(p) /\ UNCHANGED <<seqKey, relayed>>
         ELSE /\ seqKey' = IF redisUp
                             THEN [seqKey EXCEPT ![c][Sender[g]] =
                                     [last |-> Seq0[g], until |-> now + SeqTtl]]
                             ELSE seqKey
              /\ IF IsIce[g]
                   THEN Goto(p, [req[p] EXCEPT !.pc = "rate"]) /\ UNCHANGED relayed
                   ELSE Finish(p) /\ RelayTo(c, g)
    /\ UNCHANGED <<now, database, nonce, redisUp, redisFailed, losses, sends>>

RelayIce(p) ==
    /\ req[p].pc = "rate"
    /\ RelayTo(req[p].call, req[p].signal)
    /\ Finish(p)
    /\ UNCHANGED <<now, database, redis, losses, sends>>

-----------------------------------------------------------------------------
(* Faults and time. *)

\* Redis goes away, and comes back.
RedisFails ==
    /\ ~redisFailed /\ Faults < MaxFaults
    /\ redisUp' = FALSE /\ redisFailed' = TRUE
    /\ UNCHANGED <<now, database, nonce, seqKey, losses, history, req>>

RedisRecovers ==
    /\ ~redisUp
    /\ redisUp' = TRUE /\ UNCHANGED redisFailed
    /\ UNCHANGED <<now, database, nonce, seqKey, losses, history, req>>

\* The process restarts: timers and handlers are gone, rooms are empty.
Restart ==
    /\ ~restarted /\ Faults < MaxFaults
    /\ restarted' = TRUE
    /\ timer' = {} /\ firing' = {}
    /\ members' = [c \in Call |-> {}]
    /\ req' = [p \in Procs |-> Idle]
    /\ UNCHANGED <<now, status, expiresAt, redis, dropped, history>>

\* A timer that is due fires before time goes on.
Tick ==
    /\ now < MaxTime
    /\ \A c \in timer : ~Expired(c)
    /\ now' = now + 1
    /\ UNCHANGED <<database, redis, losses, history, req>>

Arrive(p) ==
    \/ \E c \in Call, a \in Actor \cup {None} : BeginRespond(p, c, a, TRUE)
    \/ \E c \in Call : BeginRespond(p, c, None, FALSE)
    \/ \E c \in Call : BeginEnd(p, c)
    \/ \E c \in Call, g \in Signal : BeginSignal(p, c, g)

Proceed(p) == \/ Respond(p)
              \/ EndCallSession(p)
              \/ ClaimNonce(p)
              \/ VerifySequence(p)
              \/ RelayIce(p)

Timer(c) == TimerFires(c) \/ HandlePendingTimeout(c)

Next == \/ \E p \in Procs : Arrive(p) \/ Proceed(p)
        \/ \E c \in Call : Timer(c) \/ TimeoutFails(c)
        \/ \E c \in Call : InitiateCallSession(c)
        \/ \E c \in Call, a \in Actor : JoinSessionRoom(c, a)
        \/ RedisFails
        \/ RedisRecovers
        \/ Restart
        \/ Tick

Spec == Init /\ [][Next]_vars

\* Statements that were issued complete, due timers fire, time passes.
FairSpec == /\ Spec
            /\ \A p \in Procs : WF_vars(Proceed(p))
            /\ \A c \in Call : WF_vars(Timer(c))
            /\ WF_vars(Tick)

-----------------------------------------------------------------------------
\* The rows (enum RealtimeSessionStatus), the Redis keys and the handlers have
\* their types: no answer is stored as anything but a status.
TypeOK == /\ now \in Nat
          /\ status \in [Call -> Statuses]
          /\ expiresAt \in [Call -> Nat]
          /\ timer \subseteq Call /\ firing \subseteq Call
          /\ members \in [Call -> SUBSET Actor]
          /\ nonce \in [Call -> [Signal -> Nat]]
          /\ seqKey \in [Call -> [Actor -> [last : Nat, until : Nat]]]
          /\ redisUp \in BOOLEAN /\ redisFailed \in BOOLEAN /\ restarted \in BOOLEAN
          /\ dropped \subseteq Call
          /\ relayed \in [Call -> Seq(Signal)]
          /\ sends \in Nat
          /\ req \in [Procs -> Request]

\* The answer, the refusal, the timeout and the hang-up race: whichever statement
\* comes first decides the ringing, once.
Outcome == INSTANCE CallOutcome
ImplementsCallOutcome == Outcome!Spec

\* While Redis can be reached, a signal is relayed to the room at most once,
\* however often it is sent and whenever its nonce expires: the clock skew, the
\* lifetime of the nonce and the sequence close each other's gaps.
NoReplay ==
    ~redisFailed =>
      \A c \in Call : \A i, j \in 1..Len(relayed[c]) : relayed[c][i] = relayed[c][j] => i = j

\* While Redis can be reached, the offers and answers of a sender are relayed in
\* the order of their sequence numbers (an ICE candidate may be overtaken).
RelayOrder ==
    ~redisFailed =>
      \A c \in Call : \A i, j \in 1..Len(relayed[c]) :
        LET g == relayed[c][i]  h == relayed[c][j] IN
        i < j /\ Sender[g] = Sender[h] /\ ~IsIce[g] /\ ~IsIce[h] => Seq0[g] < Seq0[h]

\* Nothing is relayed in a call that nobody had accepted, or for a message that
\* came after the call was over.
SignalsNeedAcceptance ==
    /\ \A p \in Procs : req[p].pc \in {"nonce", "sequence", "rate"} =>
         req[p].open /\ status[req[p].call] \in {"ACTIVE", "ENDED"}
    /\ \A c \in Call : relayed[c] # <<>> => status[c] \in {"ACTIVE", "ENDED"}

\* Nothing is left in memory that would end the ringing.
TimeoutLost(c) == restarted \/ c \in dropped

\* A call does not ring forever, whatever answers, hang-ups and late callbacks
\* race: only a restart, which loses the timer, or a database error in the very
\* callback leaves it ringing.
RingingEnds ==
    \A c \in Call : status[c] = "PENDING" ~>
                      (status[c] # "PENDING" \/ TimeoutLost(c))
=============================================================================
