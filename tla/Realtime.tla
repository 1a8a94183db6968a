------------------------------ MODULE Realtime ------------------------------
(***************************************************************************)
(* The WebSocket gateway of one API process: the handshake and the         *)
(* revalidation of ws-jwt-auth.guard.ts, the indexes of                    *)
(* ws-connection-manager.service.ts, the room checks of                    *)
(* ws-room-authorizer.service.ts, and the revocation and message handlers *)
(* of realtime.gateway.ts.  Its heartbeat is Heartbeat.                    *)
(*                                                                         *)
(* Code between two awaits runs to its end, so it is one step; every await *)
(* (a query, a Redis command) is a place where other steps come in.  The   *)
(* rows of sessions, devices and users are changed by the services that    *)
(* Sessions describes; here they are the environment.  A socket carries the *)
(* session of its token; its user, device, role and driver follow from it. *)
(***************************************************************************)
EXTENDS Integers, FiniteSets

CONSTANTS Socket, Session, User, Device, Driver, Room,
          None,               \* no socket, no driver, no timer
          UserOf, DeviceOf,   \* of a session
          RoleOf, DriverOf,   \* of a user
          KindOf,             \* of a room: delivery, conversation, session, fleet
          Assigned,           \* the driver a room has at first
          OwnersOf,           \* creator, organisation or owner side of a room
          MaxAdmin,           \* bound on the administrative events
          Ops,                \* the messages clients send
          MaxOps              \* bound on the handlers in progress

Roles == {"ADMIN", "OWNER", "DRIVER"}
ASSUME DirectoryAssumption ==
    /\ UserOf \in [Session -> User]
    /\ DeviceOf \in [Session -> Device]
    /\ RoleOf \in [User -> Roles]
    /\ DriverOf \in [User -> Driver \cup {None}]
    /\ \A u, v \in User : DriverOf[u] # None /\ DriverOf[u] = DriverOf[v] => u = v
    /\ KindOf \in [Room -> {"delivery", "conversation", "session", "fleet"}]
    /\ OwnersOf \in [Room -> SUBSET User]
    /\ Assigned \in [Room -> Driver \cup {None}]
ASSUME RealtimeNoneAssumption == None \notin Socket \cup Driver \cup Session \cup Nat
ASSUME RealtimeOpsAssumption ==
    /\ Ops \subseteq {"join_room", "driver.location.update", "chat.message.send"}
    /\ "join_room" \in Ops
ASSUME RealtimeNamesAssumption == Session \cap User = {} /\ MaxAdmin \in Nat /\ MaxOps \in Nat
VARIABLES
    row, device, account,  \* sessions, devices.status, users.status
    assigned,              \* the driver of a delivery, conversation or call
    keys,                  \* Redis: revocation keys of sessions and users
    channel,               \* published on security:revocation, not yet handled
    admin, adminLeft,      \* the revocation in progress; how many may still come
    conn,                  \* new, handshake, connected, closed
    token,                 \* the session of a socket's token
    sockets, userSockets, sessionSockets, deviceSockets, driverSockets,
    rooms,                 \* client.rooms
    op                     \* the handshake or handler in progress on a socket

database == <<row, device, account, assigned, keys, channel, admin, adminLeft>>
indexes == <<sockets, userSockets, sessionSockets, deviceSockets, driverSockets>>
vars == <<database, conn, token, indexes, rooms, op>>

-----------------------------------------------------------------------------
Reads == {"sessionKey", "user", "session", "userKey"}
Op == [pc : {"idle", "handshake", "validate", "refused", "authorize", "join", "serve"},
       kind : Ops \cup {None}, room : Room \cup {None},
       todo : SUBSET Reads,     \* reads of the validation not yet done
       fresh : BOOLEAN]         \* the session was live when the validation began
NoOp == [pc |-> "idle", kind |-> None, room |-> None, todo |-> {}, fresh |-> TRUE]
Event == [type : {"SESSION_REVOKED"}, id : Session]
           \cup [type : {"DEVICE_REVOKED"}, id : Device]
           \cup [type : {"USER_REVOKED"}, id : User]

UserAt(s) == UserOf[token[s]]
DeviceAt(s) == DeviceOf[token[s]]
RoleAt(s) == RoleOf[UserAt(s)]
DriverAt(s) == DriverOf[UserAt(s)]
Live(x) == row[x] = "ACTIVE"

Init ==
    /\ row = [x \in Session |-> "ACTIVE"]
    /\ device = [d \in Device |-> "ACTIVE"]
    /\ account = [u \in User |-> "ACTIVE"]
    /\ assigned = Assigned
    /\ keys = {} /\ channel = {}
    /\ admin = None /\ adminLeft = MaxAdmin
    /\ conn = [s \in Socket |-> "new"]
    /\ token = [s \in Socket |-> None]
    /\ sockets = {}
    /\ userSockets = [u \in User |-> {}]
    /\ sessionSockets = [x \in Session |-> {}]
    /\ deviceSockets = [d \in Device |-> {}]
    /\ driverSockets = [d \in Driver |-> None]
    /\ rooms = [s \in Socket |-> {}]
    /\ op = [s \in Socket |-> NoOp]

-----------------------------------------------------------------------------
(* ws-connection-manager.service.ts *)

\* Fault: one socket per key, as with a map from key to socket.
AddToIndexLast(index, key, s) == [index EXCEPT ![key] = {s}]
AddToIndex(index, key, s) == [index EXCEPT ![key] = @ \cup {s}]
\* Fault: an entry is only removed when it is the last of its key.
RemoveFromIndexLast(index, T) == [k \in DOMAIN index |-> IF index[k] \subseteq T THEN {} ELSE index[k]]
RemoveFromIndex(index, T) == [k \in DOMAIN index |-> index[k] \ T]

\* The older socket that the new socket of a driver supersedes.
\* Fault: no socket is superseded.
SupersededNone(s) == {}
Superseded(s) ==
    IF RoleAt(s) = "DRIVER" /\ DriverAt(s) # None
      THEN {driverSockets[DriverAt(s)]} \cap (sockets \ {s}) ELSE {}

\* disconnect(true) and removeSocket of the sockets T: closed, out of every room
\* and index.
TearDown(T) ==
    /\ conn' = [t \in Socket |-> IF t \in T THEN "closed" ELSE conn[t]]
    /\ rooms' = [t \in Socket |-> IF t \in T THEN {} ELSE rooms[t]]
    /\ sockets' = sockets \ T
    /\ userSockets' = RemoveFromIndex(userSockets, T)
    /\ sessionSockets' = RemoveFromIndex(sessionSockets, T)
    /\ deviceSockets' = RemoveFromIndex(deviceSockets, T)
    /\ driverSockets' = [d \in Driver |->
                           IF driverSockets[d] \in T THEN None ELSE driverSockets[d]]

\* registerSocket.
Register(s) ==
    LET T == Superseded(s) IN
    /\ conn' = [t \in Socket |-> IF t = s THEN "connected"
                                 ELSE IF t \in T THEN "closed" ELSE conn[t]]
    /\ rooms' = [t \in Socket |-> IF t \in T THEN {} ELSE rooms[t]]
    /\ sockets' = (sockets \ T) \cup {s}
    /\ userSockets' = AddToIndex(RemoveFromIndex(userSockets, T), UserAt(s), s)
    /\ sessionSockets' = AddToIndex(RemoveFromIndex(sessionSockets, T), token[s], s)
    /\ deviceSockets' = AddToIndex(RemoveFromIndex(deviceSockets, T), DeviceAt(s), s)
    /\ driverSockets' = [d \in Driver |->
                           IF d = DriverAt(s) THEN s
                           ELSE IF driverSockets[d] \in T THEN None ELSE driverSockets[d]]

-----------------------------------------------------------------------------
(* ws-jwt-auth.guard.ts *)

\* Redis may be unreachable or uncertain, or the key was not written or has
\* expired: isRevoked then answers null or false, which refuses nothing.
KeyAnswers(k) == IF k \in keys THEN {TRUE, FALSE} ELSE {TRUE}

\* Fault: a key in Redis is trusted to exist for every revoked session.
SessionOkByKey(s) == device[DeviceAt(s)] = "ACTIVE"
SessionOk(s) == Live(token[s]) /\ device[DeviceAt(s)] = "ACTIVE"

\* What one read of a validation may answer.
Answers(s, r) == CASE r = "sessionKey" -> KeyAnswers(token[s])
                   [] r = "user" -> {account[UserAt(s)] = "ACTIVE"}
                   [] r = "session" -> {SessionOk(s)}
                   [] r = "userKey" -> KeyAnswers(UserAt(s))

\* A client connects with an access token that verifies; validateHandshake reads
\* one after the other, and the first refusal ends it.
BeginHandshake(s, x) ==
    /\ conn[s] = "new"
    /\ conn' = [conn EXCEPT ![s] = "handshake"]
    /\ token' = [token EXCEPT ![s] = x]
    /\ op' = [op EXCEPT ![s] = [NoOp EXCEPT !.pc = "handshake", !.todo = Reads,
                                            !.fresh = Live(x)]]
    /\ UNCHANGED <<database, indexes, rooms>>

HandshakeOrder == <<"sessionKey", "user", "session", "userKey">>
NextRead(todo) == HandshakeOrder[5 - Cardinality(todo)]
HandshakeRead(s) ==
    /\ op[s].pc = "handshake" /\ op[s].todo # {}
    /\ \E a \in Answers(s, NextRead(op[s].todo)) :
         \/ /\ a
            /\ op' = [op EXCEPT ![s].todo = @ \ {NextRead(op[s].todo)}]
            /\ UNCHANGED conn
         \/ /\ ~a
            /\ op' = [op EXCEPT ![s] = NoOp]
            /\ conn' = [conn EXCEPT ![s] = "closed"]
    /\ UNCHANGED <<database, token, indexes, rooms>>

\* The middleware lets it in and handleConnection runs.
HandleConnection(s) ==
    /\ op[s].pc = "handshake" /\ op[s].todo = {}
    /\ Register(s)
    /\ op' = [op EXCEPT ![s] = NoOp]
    /\ UNCHANGED <<database, token>>

\* A handler begins with revalidateSensitiveSocket.  One handler at a time is in
\* progress on a socket here, and MaxOps in the process.
Handling == {s \in Socket : op[s].pc \notin {"idle", "handshake"}}
BeginOp(s, kind, room) ==
    /\ conn[s] = "connected" /\ op[s].pc = "idle"
    /\ Cardinality(Handling) < MaxOps
    /\ op' = [op EXCEPT ![s] = [pc |-> "validate", kind |-> kind, room |-> room,
                                todo |-> Reads, fresh |-> Live(token[s])]]
    /\ UNCHANGED <<database, conn, token, indexes, rooms>>

\* The reads of validateSocket run in parallel, so they end in any order; once one
\* refuses, the others no longer matter.
ValidateRead(s, r) ==
    /\ op[s].pc = "validate" /\ r \in op[s].todo
    /\ \E a \in Answers(s, r) :
         op' = [op EXCEPT ![s] =
                  IF a THEN [op[s] EXCEPT !.todo = @ \ {r}]
                  ELSE [NoOp EXCEPT !.pc = "refused", !.fresh = op[s].fresh]]
    /\ UNCHANGED <<database, conn, token, indexes, rooms>>

\* The exp of the token is tested before the reads.
TokenExpired(s) ==
    /\ op[s].pc = "validate" /\ op[s].todo = Reads
    /\ op' = [op EXCEPT ![s] = [NoOp EXCEPT !.pc = "refused", !.fresh = op[s].fresh]]
    /\ UNCHANGED <<database, conn, token, indexes, rooms>>

\* Fault: the refusal is reported and the socket left open.
RefuseSilently(s) ==
    /\ op[s].pc = "refused"
    /\ op' = [op EXCEPT ![s] = NoOp]
    /\ UNCHANGED <<database, conn, token, indexes, rooms>>
\* revalidateSensitiveSocket closes the socket.
Refuse(s) ==
    /\ op[s].pc = "refused"
    /\ TearDown({s})
    /\ op' = [op EXCEPT ![s] = NoOp]
    /\ UNCHANGED <<database, token>>

\* Telemetry is for drivers; a join goes on to the room authorizer.
Validated(s) ==
    /\ op[s].pc = "validate" /\ op[s].todo = {}
    /\ op' = [op EXCEPT ![s] =
         IF op[s].kind = "join_room" THEN [op[s] EXCEPT !.pc = "authorize"]
         ELSE IF op[s].kind = "driver.location.update"
                 /\ (RoleAt(s) # "DRIVER" \/ DriverAt(s) = None) THEN NoOp
         ELSE [op[s] EXCEPT !.pc = "serve"]]
    /\ UNCHANGED <<database, conn, token, indexes, rooms>>

-----------------------------------------------------------------------------
(* ws-room-authorizer.service.ts *)

IsAdmin(s) == RoleAt(s) = "ADMIN"
IsOwnerSide(s, r) == UserAt(s) \in OwnersOf[r]
IsDriverSide(s, r) == DriverAt(s) # None /\ assigned[r] = DriverAt(s)

AuthorizeDelivery(s, r) == \/ IsAdmin(s)
                           \/ RoleAt(s) = "OWNER" /\ IsOwnerSide(s, r)
                           \/ RoleAt(s) = "DRIVER" /\ IsDriverSide(s, r)
AuthorizeConversation(s, r) == IsOwnerSide(s, r) \/ IsDriverSide(s, r)
AuthorizeCall(s, r) == IsAdmin(s) \/ IsOwnerSide(s, r) \/ IsDriverSide(s, r)
AuthorizeFleet(s) == RoleAt(s) \in {"ADMIN", "OWNER"}
AuthorizeRoomJoin(s, r) == CASE KindOf[r] = "delivery" -> AuthorizeDelivery(s, r)
                             [] KindOf[r] = "conversation" -> AuthorizeConversation(s, r)
                             [] KindOf[r] = "session" -> AuthorizeCall(s, r)
                             [] KindOf[r] = "fleet" -> AuthorizeFleet(s)

-----------------------------------------------------------------------------
(* realtime.gateway.ts: rooms and relays *)

Authorize(s) ==
    /\ op[s].pc = "authorize"
    /\ op' = [op EXCEPT ![s] = IF AuthorizeRoomJoin(s, op[s].room)
                                 THEN [@ EXCEPT !.pc = "join"] ELSE NoOp]
    /\ UNCHANGED <<database, conn, token, indexes, rooms>>

\* client.join: also when the socket was closed while the row was read.
JoinRoom(s) ==
    /\ op[s].pc = "join"
    /\ rooms' = [rooms EXCEPT ![s] = @ \cup {op[s].room}]
    /\ op' = [op EXCEPT ![s] = NoOp]
    /\ UNCHANGED <<database, conn, token, indexes>>

LeaveRoom(s, r) ==
    /\ conn[s] = "connected" /\ r \in rooms[s]
    /\ rooms' = [rooms EXCEPT ![s] = @ \ {r}]
    /\ UNCHANGED <<database, conn, token, indexes, op>>

\* The service is called and answers (Tracking, Messages, Calls).
Serve(s) ==
    /\ op[s].pc = "serve"
    /\ op' = [op EXCEPT ![s] = NoOp]
    /\ UNCHANGED <<database, conn, token, indexes, rooms>>

-----------------------------------------------------------------------------
(* realtime.gateway.ts: the ends of a connection *)

\* The transport reports that the client is gone, or the watchdog of Heartbeat
\* gives it up.
HandleDisconnect(s) ==
    /\ conn[s] = "connected"
    /\ TearDown({s})
    /\ UNCHANGED <<database, token, op>>

-----------------------------------------------------------------------------
(* Revocations: the rows, the Redis keys, then the event. *)

Victims(e) == CASE e.type = "SESSION_REVOKED" -> {e.id}
                [] e.type = "DEVICE_REVOKED" -> {x \in Session : DeviceOf[x] = e.id}
                [] e.type = "USER_REVOKED" -> {x \in Session : UserOf[x] = e.id}
\* Fault: the key carries the id of the event whatever its type.
KeysForId(e) == {e.id}
KeysFor(e) == IF e.type = "USER_REVOKED" THEN {e.id} ELSE Victims(e)

BeginRevocation(e) ==
    /\ admin = None /\ adminLeft > 0
    /\ adminLeft' = adminLeft - 1
    /\ device' = [d \in Device |-> IF e.type = "DEVICE_REVOKED" /\ d = e.id
                                     THEN "REVOKED" ELSE device[d]]
    /\ account' = [u \in User |-> IF e.type = "USER_REVOKED" /\ u = e.id
                                    THEN "SUSPENDED" ELSE account[u]]
    /\ admin' = e
    /\ UNCHANGED <<row, assigned, keys, channel>>
    /\ UNCHANGED <<conn, token, indexes, rooms, op>>

\* The event is published if Redis can be reached, and reaches this process if it
\* is subscribed at that moment.
FinishRevocation ==
    /\ admin # None
    /\ row' = [x \in Session |-> IF x \in Victims(admin) THEN "REVOKED" ELSE row[x]]
    /\ keys' = keys \cup KeysFor(admin)
    /\ channel' \in {channel, channel \cup {admin}}
    /\ admin' = None
    /\ UNCHANGED <<device, account, assigned, adminLeft>>
    /\ UNCHANGED <<conn, token, indexes, rooms, op>>

\* A later request makes the account or the device active again, or assigns
\* another driver; a session reaches its expiry.
Environment ==
    /\ \/ \E u \in User : /\ account[u] # "ACTIVE" /\ admin = None
                          /\ account' = [account EXCEPT ![u] = "ACTIVE"]
                          /\ UNCHANGED <<row, device, assigned>>
       \/ \E d \in Device : /\ device[d] # "ACTIVE" /\ admin = None
                            /\ device' = [device EXCEPT ![d] = "ACTIVE"]
                            /\ UNCHANGED <<row, account, assigned>>
       \/ /\ adminLeft > 0
          /\ \/ \E r \in Room, d \in Driver \cup {None} :
                  /\ KindOf[r] = "delivery" /\ assigned[r] # d
                  /\ assigned' = [assigned EXCEPT ![r] = d]
                  /\ UNCHANGED row
             \/ \E x \in Session : /\ Live(x)
                                   /\ row' = [row EXCEPT ![x] = "EXPIRED"]
                                   /\ UNCHANGED assigned
          /\ UNCHANGED <<device, account>>
    /\ adminLeft' = IF assigned' # assigned \/ row' # row THEN adminLeft - 1 ELSE adminLeft
    /\ UNCHANGED <<keys, channel, admin, conn, token, indexes, rooms, op>>

\* handleRevocationMessage: the indexes say which sockets the event closes.
Matching(e) == CASE e.type = "SESSION_REVOKED" -> sessionSockets[e.id]
                 [] e.type = "DEVICE_REVOKED" -> deviceSockets[e.id]
                 [] e.type = "USER_REVOKED" -> userSockets[e.id]
HandleRevocation(e) ==
    /\ e \in channel
    /\ channel' = channel \ {e}
    /\ TearDown(Matching(e) \cap sockets)
    /\ UNCHANGED <<row, device, account, assigned, keys, admin, adminLeft>>
    /\ UNCHANGED <<token, op>>

-----------------------------------------------------------------------------
Client(s) ==
    \/ \E x \in Session : BeginHandshake(s, x)
    \/ \E k \in Ops \ {"join_room"} : BeginOp(s, k, None)
    \/ \E r \in Room : BeginOp(s, "join_room", r)
    \/ \E r \in Room : LeaveRoom(s, r)
    \/ HandleDisconnect(s)

Server(s) ==
    \/ HandshakeRead(s)
    \/ HandleConnection(s)
    \/ \E r \in Reads : ValidateRead(s, r)
    \/ TokenExpired(s)
    \/ Refuse(s)
    \/ Validated(s)
    \/ Authorize(s)
    \/ JoinRoom(s)
    \/ Serve(s)

Next == \/ \E s \in Socket : Client(s) \/ Server(s)
        \/ \E e \in Event : BeginRevocation(e)
        \/ FinishRevocation
        \/ Environment
        \/ \E e \in Event : HandleRevocation(e)

Spec == Init /\ [][Next]_vars

\* The process goes on: queries complete, a message that has been received
\* is handled.  Clients and administrators owe nothing.
Fairness == /\ \A s \in Socket : WF_vars(Server(s))
            /\ WF_vars(\E e \in Event : HandleRevocation(e))
FairSpec == Spec /\ Fairness
-----------------------------------------------------------------------------
\* The rows, the Redis keys, the indexes and the handlers have their types; a
\* revocation key is that of a session or of a user.
TypeOK ==
    /\ row \in [Session -> {"ACTIVE", "REVOKED", "EXPIRED"}]
    /\ device \in [Device -> {"ACTIVE", "REVOKED"}]
    /\ account \in [User -> {"ACTIVE", "SUSPENDED"}]
    /\ assigned \in [Room -> Driver \cup {None}]
    /\ keys \subseteq Session \cup User
    /\ channel \subseteq Event
    /\ admin \in Event \cup {None} /\ adminLeft \in Nat
    /\ conn \in [Socket -> {"new", "handshake", "connected", "closed"}]
    /\ token \in [Socket -> Session \cup {None}]
    /\ sockets \subseteq Socket
    /\ userSockets \in [User -> SUBSET Socket]
    /\ sessionSockets \in [Session -> SUBSET Socket]
    /\ deviceSockets \in [Device -> SUBSET Socket]
    /\ driverSockets \in [Driver -> Socket \cup {None}]
    /\ rooms \in [Socket -> SUBSET Room]
    /\ op \in [Socket -> Op]

\* Whatever closes sockets (a supersession, a revocation, a refused handler, the
\* watchdog, the transport), the maps of the connection manager name exactly the
\* connected sockets, each under its own user, session and device: a map that
\* misses one hides it from revocations, one that keeps one leaks it.
IndexesAgree ==
    /\ sockets = {s \in Socket : conn[s] = "connected"}
    /\ \A u \in User : userSockets[u] = {s \in sockets : UserAt(s) = u}
    /\ \A x \in Session : sessionSockets[x] = {s \in sockets : token[s] = x}
    /\ \A d \in Device : deviceSockets[d] = {s \in sockets : DeviceAt(s) = d}
    /\ \A d \in Driver : driverSockets[d] # None => driverSockets[d] \in sockets

\* Driver Single Active Socket Policy: a driver has at most one connected socket
\* in this process, and the driver map names it.
OneSocketPerDriver ==
    \A s, t \in Socket :
      /\ conn[s] = "connected" /\ conn[t] = "connected"
      /\ RoleAt(s) = "DRIVER" /\ RoleAt(t) = "DRIVER"
      /\ DriverAt(s) # None /\ DriverAt(s) = DriverAt(t)
      => s = t /\ driverSockets[DriverAt(s)] = s

\* A session that was revoked or had expired before a handler began is refused by
\* it, and before the handshake began by the handshake: whatever Redis knows, its
\* keys and its message lost or expired, and whichever read ends first.
RevokedBeforeIsRefused ==
    \A s \in Socket :
      op[s].pc \in {"authorize", "join", "serve"} \/ (op[s].pc = "handshake" /\ op[s].todo = {})
      => op[s].fresh

\* A revocation event that is handled leaves no connected socket of its session,
\* device or user, however many there were.
RevocationReachesAll ==
    [][\A e \in channel \ channel' : \A s \in Socket :
         conn'[s] = "connected" => token[s] \notin Victims(e)]_vars

\* A socket whose session was already revoked or expired when one of its messages
\* arrived is closed by that message, if nothing closes it before.
RevokedSocketClosesOnUse ==
    \A s \in Socket : (op[s].pc = "validate" /\ ~op[s].fresh) ~> conn[s] = "closed"
=============================================================================
