----------------------------- MODULE Heartbeat -----------------------------
(***************************************************************************)
(* The heartbeat of realtime.gateway.ts: an interval timer per socket that *)
(* sends a ping and arms a watchdog, the pong that disarms it, and every   *)
(* path that closes the socket (Realtime has them one by one).             *)
(*                                                                         *)
(* Time is counted in ticks.  A timer that is due fires before time goes   *)
(* on; timers due at the same instant, and a pong that arrives at it, come *)
(* in any order.                                                           *)
(***************************************************************************)
EXTENDS Integers

CONSTANTS Socket,
          Off,                 \* a timer that is not armed
          HeartbeatInterval,   \* realtime.heartbeatIntervalMs
          PongTimeout,         \* realtime.pongTimeoutMs
          MaxLatency           \* bound on the time of a slow pong

\* The defaults are 25 and 10 seconds.  Were the watchdog not the shorter of the
\* two, every ping would arm it anew before it fires.
ASSUME HeartbeatAssumption ==
    /\ HeartbeatInterval \in Nat /\ PongTimeout \in Nat \ {0}
    /\ PongTimeout < HeartbeatInterval
    /\ MaxLatency \in Nat
ASSUME OffAssumption == Off \notin Int

VARIABLES conn,    \* new, connected, closed
          ping,    \* ticks left of heartbeatIntervalTimer
          pong,    \* ticks left of pongTimeoutTimer
          client,  \* prompt: answers within PongTimeout; slow: when it likes;
                   \* silent: no more
          reply    \* ticks until the pong of the client arrives

vars == <<conn, ping, pong, client, reply>>

Set(f, s, v) == [f EXCEPT ![s] = v]

Init == /\ conn = [s \in Socket |-> "new"]
        /\ ping = [s \in Socket |-> Off]
        /\ pong = [s \in Socket |-> Off]
        /\ client \in [Socket -> {"prompt", "slow"}]
        /\ reply = [s \in Socket |-> Off]

\* handleConnection, startHeartbeatCycle.
HandleConnection(s) ==
    /\ conn[s] = "new"
    /\ conn' = Set(conn, s, "connected")
    /\ ping' = Set(ping, s, HeartbeatInterval)
    /\ pong' = Set(pong, s, Off)
    /\ UNCHANGED <<client, reply>>

\* stopHeartbeatTimers, disconnect(true), removeSocket.
\* Fault: the watchdog is left armed.
TearDownLeavesWatchdog(s) ==
    /\ conn' = Set(conn, s, "closed")
    /\ ping' = Set(ping, s, Off)
    /\ reply' = Set(reply, s, Off)
    /\ UNCHANGED pong
TearDown(s) ==
    /\ conn' = Set(conn, s, "closed")
    /\ ping' = Set(ping, s, Off)
    /\ pong' = Set(pong, s, Off)
    /\ reply' = Set(reply, s, Off)

\* The transport, a revocation, a supersession or a refused handler.
HandleDisconnect(s) ==
    /\ conn[s] = "connected"
    /\ TearDown(s)
    /\ UNCHANGED client

\* How long the pong to the ping sent now takes.
Latencies(s) == CASE client[s] = "prompt" -> 0..(PongTimeout - 1)
                  [] client[s] = "slow" -> 0..MaxLatency
                  [] client[s] = "silent" -> {Off}

\* sendHeartbeatPing replaces a watchdog still armed.
\* Fault: it is armed one tick early.
WatchdogTimeEarly == PongTimeout - 1
WatchdogTime == PongTimeout
SendHeartbeatPing(s) ==
    /\ ping[s] = 0
    /\ ping' = Set(ping, s, HeartbeatInterval)
    /\ pong' = Set(pong, s, WatchdogTime)
    /\ \E l \in Latencies(s) : reply' = Set(reply, s, l)
    /\ UNCHANGED <<conn, client>>

\* handlePongMessage: a pong disarms the watchdog, whichever ping it answers.
HandlePong(s) ==
    /\ reply[s] = 0
    /\ pong' = Set(pong, s, Off)
    /\ reply' = Set(reply, s, Off)
    /\ UNCHANGED <<conn, ping, client>>

\* handleStaleSocketTimeout.
\* Fault: the timers stop and the socket stays.
GiveUpTimersOnly(s) ==
    /\ ping' = Set(ping, s, Off)
    /\ pong' = Set(pong, s, Off)
    /\ UNCHANGED <<conn, reply>>
GiveUp(s) == TearDown(s)
HandleStaleSocketTimeout(s) ==
    /\ pong[s] = 0 /\ conn[s] = "connected"
    /\ GiveUp(s)
    /\ UNCHANGED client

\* The client stops answering, and the transport does not notice.
FallSilent(s) ==
    /\ conn[s] = "connected" /\ client[s] # "silent"
    /\ client' = Set(client, s, "silent")
    /\ reply' = Set(reply, s, Off)
    /\ UNCHANGED <<conn, ping, pong>>

Due(timer) == \E s \in Socket : timer[s] = 0
Elapsed(timer) == [s \in Socket |-> IF timer[s] = Off THEN Off ELSE timer[s] - 1]
Tick ==
    /\ ~Due(ping) /\ ~Due(pong) /\ ~Due(reply)
    /\ ping' = Elapsed(ping)
    /\ pong' = Elapsed(pong)
    /\ reply' = Elapsed(reply)
    /\ UNCHANGED <<conn, client>>

Timer(s) == SendHeartbeatPing(s) \/ HandlePong(s) \/ HandleStaleSocketTimeout(s)

Next == \/ \E s \in Socket : \/ HandleConnection(s) \/ HandleDisconnect(s)
                             \/ FallSilent(s) \/ Timer(s)
        \/ Tick

\* Node's event loop runs the timers that are due, and time passes.
Spec == /\ Init /\ [][Next]_vars
        /\ \A s \in Socket : WF_vars(Timer(s))
        /\ WF_vars(Tick)

-----------------------------------------------------------------------------
\* The timers are off or count down from the time they are armed with.
TypeOK == /\ conn \in [Socket -> {"new", "connected", "closed"}]
          /\ ping \in [Socket -> 0..HeartbeatInterval \cup {Off}]
          /\ pong \in [Socket -> 0..PongTimeout \cup {Off}]
          /\ client \in [Socket -> {"prompt", "slow", "silent"}]
          /\ reply \in [Socket -> Nat \cup {Off}]

\* No timer outlives its socket, whatever closed it, and a connected socket is
\* always watched.
TimersBelongToLiveSockets ==
    \A s \in Socket : /\ ping[s] # Off <=> conn[s] = "connected"
                      /\ pong[s] # Off => conn[s] = "connected"

\* A client whose pongs all arrive within the timeout is never given up, however
\* they fall between pings and ticks.
PromptClientStays ==
    \A s \in Socket : pong[s] = 0 => client[s] # "prompt"

\* A client that has vanished without a word is noticed and its socket closed.
SilentClientCloses ==
    \A s \in Socket : client[s] = "silent" ~> conn[s] = "closed"
=============================================================================
