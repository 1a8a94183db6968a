--------------------------- MODULE HeartbeatProofs ---------------------------
(***************************************************************************)
(* Proofs about Heartbeat, for any number of sockets and any intervals.    *)
(***************************************************************************)
EXTENDS Heartbeat, TLAPS

\* A prompt client's pong is on its way and arrives before the watchdog fires.
PongInTime ==
    \A s \in Socket : client[s] = "prompt" /\ pong[s] # Off =>
      reply[s] \in Nat /\ reply[s] < pong[s]

IInv == TypeOK /\ TimersBelongToLiveSockets /\ PongInTime

\* Counting down an armed timer that is not due keeps it in its range.
LEMMA ElapsedRange ==
    ASSUME NEW timer, NEW n \in Nat, timer \in [Socket -> 0..n \cup {Off}], ~Due(timer)
    PROVE  /\ Elapsed(timer) \in [Socket -> 0..n \cup {Off}]
           /\ \A s \in Socket : /\ Elapsed(timer)[s] = Off <=> timer[s] = Off
                                /\ timer[s] # Off => Elapsed(timer)[s] = timer[s] - 1
  BY OffAssumption DEF Elapsed, Due

\* The same for the pong under way, whose time has no bound.
LEMMA ElapsedReply ==
    ASSUME NEW timer, timer \in [Socket -> Nat \cup {Off}], ~Due(timer)
    PROVE  /\ Elapsed(timer) \in [Socket -> Nat \cup {Off}]
           /\ \A s \in Socket : timer[s] # Off => Elapsed(timer)[s] = timer[s] - 1
  BY OffAssumption DEF Elapsed, Due

\* startHeartbeatCycle has not run for any socket at first.
LEMMA InitIInv == Init => IInv
  BY DEF Init, IInv, TypeOK, TimersBelongToLiveSockets, PongInTime

\* Every step of the gateway, of a client and of the clock keeps the invariant.
LEMMA StepIInv == IInv /\ [Next]_vars => IInv'
<1> SUFFICES ASSUME IInv, [Next]_vars PROVE IInv'
  OBVIOUS
<1> USE HeartbeatAssumption, OffAssumption
<1>1. ASSUME NEW s \in Socket, HandleConnection(s) PROVE IInv'
  BY <1>1 DEF HandleConnection, Set, IInv, TypeOK, TimersBelongToLiveSockets, PongInTime
<1>2. ASSUME NEW s \in Socket, TearDown(s), UNCHANGED client PROVE IInv'
  BY <1>2 DEF TearDown, Set, IInv, TypeOK, TimersBelongToLiveSockets, PongInTime
<1>3. ASSUME NEW s \in Socket, HandleDisconnect(s) PROVE IInv'
  BY <1>2, <1>3 DEF HandleDisconnect
<1>4. ASSUME NEW s \in Socket, FallSilent(s) PROVE IInv'
  BY <1>4 DEF FallSilent, Set, IInv, TypeOK, TimersBelongToLiveSockets, PongInTime
<1>5. ASSUME NEW s \in Socket, SendHeartbeatPing(s) PROVE IInv'
  <2>1. PICK l \in Latencies(s) : reply' = Set(reply, s, l)
    BY <1>5 DEF SendHeartbeatPing
  <2>2. /\ l \in Nat \cup {Off}
        /\ client[s] = "prompt" => l \in Nat /\ l < PongTimeout
    BY <2>1 DEF Latencies, IInv, TypeOK
  <2>3. conn[s] = "connected"
    BY <1>5 DEF SendHeartbeatPing, IInv, TimersBelongToLiveSockets
  <2>4. TypeOK'
    BY <1>5, <2>1, <2>2 DEF SendHeartbeatPing, WatchdogTime, Set, IInv, TypeOK
  <2>5. TimersBelongToLiveSockets'
    BY <1>5, <2>3 DEF SendHeartbeatPing, WatchdogTime, Set, IInv, TypeOK,
                      TimersBelongToLiveSockets
  <2>6. PongInTime'
    BY <1>5, <2>1, <2>2 DEF SendHeartbeatPing, WatchdogTime, Set, IInv, TypeOK, PongInTime
  <2> QED BY <2>4, <2>5, <2>6 DEF IInv
<1>6. ASSUME NEW s \in Socket, HandlePong(s) PROVE IInv'
  BY <1>6 DEF HandlePong, Set, IInv, TypeOK, TimersBelongToLiveSockets, PongInTime
<1>7. ASSUME NEW s \in Socket, HandleStaleSocketTimeout(s) PROVE IInv'
  BY <1>2, <1>7 DEF HandleStaleSocketTimeout, GiveUp
<1>8. ASSUME Tick PROVE IInv'
  <2>1. TypeOK'
    BY <1>8, ElapsedRange, ElapsedReply DEF Tick, IInv, TypeOK
  <2>2. \A s \in Socket : /\ ping'[s] = Off <=> ping[s] = Off
                          /\ pong'[s] = Off <=> pong[s] = Off
    BY <1>8, ElapsedRange DEF Tick, IInv, TypeOK
  <2>3. TimersBelongToLiveSockets'
    BY <1>8, <2>2 DEF Tick, IInv, TimersBelongToLiveSockets
  <2>4. PongInTime'
    <3> SUFFICES ASSUME NEW s \in Socket, client'[s] = "prompt", pong'[s] # Off
                 PROVE  reply'[s] \in Nat /\ reply'[s] < pong'[s]
      BY DEF PongInTime
    <3>1. reply[s] \in Nat /\ reply[s] < pong[s] /\ reply[s] # Off /\ pong[s] # Off
      BY <1>8, <2>2 DEF Tick, IInv, PongInTime
    <3>2. reply'[s] = reply[s] - 1 /\ pong'[s] = pong[s] - 1 /\ reply[s] # 0
      BY <1>8, <3>1, ElapsedRange, ElapsedReply DEF Tick, IInv, TypeOK, Due
    <3>3. pong[s] \in Nat
      BY <3>1 DEF IInv, TypeOK
    <3> QED BY <3>1, <3>2, <3>3
  <2> QED BY <2>1, <2>3, <2>4 DEF IInv
<1>9. CASE UNCHANGED vars
  BY <1>9 DEF vars, IInv, TypeOK, TimersBelongToLiveSockets, PongInTime
<1> QED
  BY <1>1, <1>3, <1>4, <1>5, <1>6, <1>7, <1>8, <1>9 DEF Next, Timer

\* The invariant holds in every state.
LEMMA Invariance == Spec => []IInv
<1>1. Init => IInv BY InitIInv
<1>2. IInv /\ [Next]_vars => IInv' BY StepIInv
<1> QED BY <1>1, <1>2, PTL DEF Spec

\* The timers of a socket are off or count down from what startHeartbeatCycle and
\* sendHeartbeatPing arm them with.
THEOREM TypeCorrect == Spec => []TypeOK
<1>1. IInv => TypeOK BY DEF IInv
<1> QED BY <1>1, Invariance, PTL

\* removeSocket and handleStaleSocketTimeout leave no timer behind, and every
\* connected socket has its interval.
THEOREM TimersCorrect == Spec => []TimersBelongToLiveSockets
<1>1. IInv => TimersBelongToLiveSockets BY DEF IInv
<1> QED BY <1>1, Invariance, PTL

\* handleStaleSocketTimeout never finds a client that answers within PongTimeout.
THEOREM PromptCorrect == Spec => []PromptClientStays
<1>1. IInv => PromptClientStays
  <2> SUFFICES ASSUME IInv, NEW s \in Socket, pong[s] = 0, client[s] = "prompt" PROVE FALSE
    BY DEF PromptClientStays
  <2>1. pong[s] # Off
    BY OffAssumption
  <2>2. reply[s] \in Nat /\ reply[s] < 0
    BY <2>1 DEF IInv, PongInTime
  <2> QED BY <2>2
<1> QED BY <1>1, Invariance, PTL

-----------------------------------------------------------------------------
(* What SilentClientCloses rests on: the time a silent client still has. *)

\* No ping is due while a watchdog runs, and nothing comes from a silent client.
WatchdogFirst ==
    \A s \in Socket : /\ pong[s] # Off => ping[s] # Off /\ pong[s] < ping[s]
                      /\ client[s] = "silent" => reply[s] = Off

\* The ticks until the watchdog gives the socket up if no pong comes.
Left(s) == IF pong[s] # Off THEN pong[s] ELSE ping[s] + PongTimeout

Wanes(s) ==
    /\ Left(s) \in 0..(HeartbeatInterval + PongTimeout)
    /\ \/ conn'[s] = "closed"
       \/ /\ client'[s] = "silent" /\ conn'[s] = "connected"
          /\ Left(s)' = IF Tick THEN Left(s) - 1 ELSE Left(s)

\* The socket of a silent client is closed, or the time it has left is bounded and
\* shrinks with every tick: no ping, no pong and no other socket prolongs it.
SilenceRunsOut ==
    [][\A s \in Socket : client[s] = "silent" /\ conn[s] = "connected" => Wanes(s)]_vars

\* sendHeartbeatPing arms a watchdog that ends before the next ping; every other step
\* leaves the order of the two timers alone.
LEMMA StepWatchdogFirst == IInv /\ WatchdogFirst /\ [Next]_vars => WatchdogFirst'
<1> SUFFICES ASSUME IInv, WatchdogFirst, [Next]_vars PROVE WatchdogFirst'
  OBVIOUS
<1> USE HeartbeatAssumption, OffAssumption
<1>1. ASSUME NEW s \in Socket, HandleConnection(s) PROVE WatchdogFirst'
  BY <1>1 DEF HandleConnection, Set, IInv, TypeOK, WatchdogFirst
<1>2. ASSUME NEW s \in Socket, TearDown(s), UNCHANGED client PROVE WatchdogFirst'
  BY <1>2 DEF TearDown, Set, IInv, TypeOK, WatchdogFirst
<1>3. ASSUME NEW s \in Socket, HandleDisconnect(s) PROVE WatchdogFirst'
  BY <1>2, <1>3 DEF HandleDisconnect
<1>4. ASSUME NEW s \in Socket, FallSilent(s) PROVE WatchdogFirst'
  BY <1>4 DEF FallSilent, Set, IInv, TypeOK, WatchdogFirst
<1>5. ASSUME NEW s \in Socket, SendHeartbeatPing(s) PROVE WatchdogFirst'
  <2>1. PICK l \in Latencies(s) : reply' = Set(reply, s, l)
    BY <1>5 DEF SendHeartbeatPing
  <2>2. client[s] = "silent" => l = Off
    BY <2>1 DEF Latencies
  <2> QED
    BY <1>5, <2>1, <2>2 DEF SendHeartbeatPing, WatchdogTime, Set, IInv, TypeOK, WatchdogFirst
<1>6. ASSUME NEW s \in Socket, HandlePong(s) PROVE WatchdogFirst'
  BY <1>6 DEF HandlePong, Set, IInv, TypeOK, WatchdogFirst
<1>7. ASSUME NEW s \in Socket, HandleStaleSocketTimeout(s) PROVE WatchdogFirst'
  BY <1>2, <1>7 DEF HandleStaleSocketTimeout, GiveUp
<1>8. ASSUME Tick PROVE WatchdogFirst'
  BY <1>8, ElapsedRange, ElapsedReply DEF Tick, Elapsed, IInv, TypeOK, WatchdogFirst
<1>9. CASE UNCHANGED vars
  BY <1>9 DEF vars, WatchdogFirst
<1> QED
  BY <1>1, <1>3, <1>4, <1>5, <1>6, <1>7, <1>8, <1>9 DEF Next, Timer

\* What one step does to the time a silent client has left.
LEMMA SilenceStep ==
    ASSUME IInv, WatchdogFirst, [Next]_vars, NEW s \in Socket,
           client[s] = "silent", conn[s] = "connected"
    PROVE  Wanes(s)
<1> USE HeartbeatAssumption, OffAssumption
<1> DEFINE Same == client'[s] = client[s] /\ conn'[s] = conn[s] /\ Left(s)' = Left(s)
<1>1. ping[s] \in 0..HeartbeatInterval /\ pong[s] \in 0..PongTimeout \cup {Off} /\ reply[s] = Off
  BY DEF IInv, TypeOK, TimersBelongToLiveSockets, WatchdogFirst
<1>2. Left(s) \in 0..(HeartbeatInterval + PongTimeout)
  BY <1>1 DEF Left
<1>3. CASE Tick
  <2>1. /\ ping'[s] = ping[s] - 1 /\ client' = client /\ conn' = conn
        /\ pong'[s] = IF pong[s] = Off THEN Off ELSE pong[s] - 1
    BY <1>1, <1>3 DEF Tick, Elapsed
  <2>2. pong[s] # Off => pong[s] - 1 # Off
    BY <1>1
  <2> QED BY <1>1, <1>2, <1>3, <2>1, <2>2 DEF Left, Wanes
<1>4. ASSUME ~Tick, NEW t \in Socket, HandleConnection(t) PROVE Same
  BY <1>1, <1>4 DEF HandleConnection, Set, Left, IInv, TypeOK
<1>5. ASSUME ~Tick, NEW t \in Socket, TearDown(t), UNCHANGED client
      PROVE  conn'[s] = "closed" \/ Same
  BY <1>1, <1>5 DEF TearDown, Set, Left, IInv, TypeOK
<1>6. ASSUME ~Tick, NEW t \in Socket, FallSilent(t) PROVE Same
  BY <1>1, <1>6 DEF FallSilent, Set, Left, IInv, TypeOK
<1>7. ASSUME ~Tick, NEW t \in Socket, SendHeartbeatPing(t) PROVE Same
  <2>1. ping[t] = 0 /\ pong[t] = Off
    BY <1>7 DEF SendHeartbeatPing, IInv, TypeOK, WatchdogFirst
  <2>2. /\ ping' = [ping EXCEPT ![t] = HeartbeatInterval]
        /\ pong' = [pong EXCEPT ![t] = PongTimeout]
        /\ UNCHANGED <<conn, client>>
    BY <1>7 DEF SendHeartbeatPing, WatchdogTime, Set
  <2> QED BY <1>1, <2>1, <2>2 DEF Left, IInv, TypeOK
<1>8. ASSUME ~Tick, NEW t \in Socket, HandlePong(t) PROVE Same
  BY <1>1, <1>8 DEF HandlePong, Set, Left, IInv, TypeOK
<1>9. ASSUME UNCHANGED vars PROVE Same
  BY <1>9 DEF vars, Left
<1>10. CASE ~Tick
  <2>1. conn'[s] = "closed" \/ Same
    BY <1>4, <1>5, <1>6, <1>7, <1>8, <1>9, <1>10
       DEF Next, Timer, HandleDisconnect, HandleStaleSocketTimeout, GiveUp
  <2> QED BY <1>2, <1>10, <2>1 DEF Wanes
<1> QED BY <1>3, <1>10

\* A client that fell silent is given up after at most one interval and one timeout of
\* the clock, whatever the other sockets do: SilentClientCloses then needs only that
\* time goes on and due timers fire.
THEOREM SilenceIsBounded == Spec => SilenceRunsOut
<1>1. Init => WatchdogFirst
  BY DEF Init, WatchdogFirst
<1>2. IInv /\ WatchdogFirst /\ [Next]_vars => WatchdogFirst'
  BY StepWatchdogFirst
<1>3. IInv /\ WatchdogFirst /\ [Next]_vars =>
        [\A s \in Socket : client[s] = "silent" /\ conn[s] = "connected" => Wanes(s)]_vars
  BY SilenceStep
<1> QED BY <1>1, <1>2, <1>3, Invariance, PTL DEF Spec, SilenceRunsOut
=============================================================================
