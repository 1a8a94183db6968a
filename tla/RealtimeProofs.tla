--------------------------- MODULE RealtimeProofs ---------------------------
(***************************************************************************)
(* Proofs about Realtime.tla: the maps of the connection manager name      *)
(* exactly the connected sockets, a driver has one of them, a handled      *)
(* revocation leaves none, and a session that was over when a handler or a *)
(* handshake began is refused; for any number of sockets, sessions, users  *)
(* and handlers in progress.                                               *)
(***************************************************************************)
EXTENDS Realtime, TLAPS

\* Where a handshake or a handler stands: a token once there is a connection, a
\* room where one is joined, and a session found over as long as the read of its
\* row is still to come.
Places ==
    \A s \in Socket :
      /\ conn[s] = "handshake" <=> op[s].pc = "handshake"
      /\ conn[s] \in {"handshake", "connected"} => token[s] \in Session
      /\ op[s].pc \in {"handshake", "validate"} =>
           /\ token[s] \in Session
           /\ op[s].fresh \/ (~Live(token[s]) /\ "session" \in op[s].todo)
      /\ op[s].pc \in {"authorize", "join", "serve"} => op[s].fresh
      /\ op[s].pc = "validate" /\ op[s].kind = "join_room" => op[s].room \in Room
      /\ op[s].pc \in {"authorize", "join"} => op[s].room \in Room

\* The driver map names a socket under its own driver only.
DriverMap ==
    \A d \in Driver : driverSockets[d] # None =>
      driverSockets[d] \in sockets /\ DriverAt(driverSockets[d]) = d

Maps == IndexesAgree /\ DriverMap /\ OneSocketPerDriver
IInv == TypeOK /\ Places /\ Maps

-----------------------------------------------------------------------------
(* The maps *)

\* Every session has a user, a device, a role and perhaps a driver.
LEMMA DirectoryTypes ==
    ASSUME NEW s \in Socket, token[s] \in Session
    PROVE  /\ UserAt(s) \in User /\ DeviceAt(s) \in Device
           /\ RoleAt(s) \in Roles /\ DriverAt(s) \in Driver \cup {None}
BY DirectoryAssumption DEF UserAt, DeviceAt, RoleAt, DriverAt

\* Steps that neither connect nor close a socket keep the maps true.
LEMMA MapsStay ==
    ASSUME Maps, TypeOK, UNCHANGED indexes,
           \A s \in Socket : conn'[s] = "connected" <=> conn[s] = "connected",
           \A s \in Socket : conn[s] = "connected" => token'[s] = token[s]
    PROVE  Maps'
<1> USE DEF Maps, indexes, UserAt, DeviceAt, RoleAt, DriverAt
<1>1. \A s \in sockets : s \in Socket /\ conn[s] = "connected" /\ token'[s] = token[s]
  BY DEF IndexesAgree
<1>2. sockets' = {s \in Socket : conn'[s] = "connected"}
  BY DEF IndexesAgree
<1>3. IndexesAgree'
  BY <1>1, <1>2 DEF IndexesAgree
<1>4. DriverMap'
  BY <1>1 DEF DriverMap
<1>5. OneSocketPerDriver'
  BY DEF OneSocketPerDriver
<1> QED BY <1>3, <1>4, <1>5

\* Closing sockets takes them, and no others, out of every map.
LEMMA MapsAfterTearDown ==
    ASSUME Maps, TypeOK, Places, NEW T \in SUBSET Socket, TearDown(T), token' = token
    PROVE  Maps'
<1>1. sockets' = sockets \ T
  BY DEF TearDown
<1>2. \A s \in Socket : conn'[s] = "connected" <=> conn[s] = "connected" /\ s \notin T
  BY DEF TearDown
<1>3. /\ \A u \in User : userSockets'[u] = userSockets[u] \ T
      /\ \A x \in Session : sessionSockets'[x] = sessionSockets[x] \ T
      /\ \A d \in Device : deviceSockets'[d] = deviceSockets[d] \ T
  BY DEF TearDown, RemoveFromIndex, TypeOK
<1>4. \A d \in Driver : driverSockets'[d] = IF driverSockets[d] \in T THEN None ELSE driverSockets[d]
  BY DEF TearDown
<1>5. sockets' = {s \in Socket : conn'[s] = "connected"}
  BY <1>1, <1>2 DEF Maps, IndexesAgree
<1>6. /\ \A u \in User : userSockets'[u] = {s \in sockets' : UserAt(s)' = u}
      /\ \A x \in Session : sessionSockets'[x] = {s \in sockets' : token'[s] = x}
      /\ \A d \in Device : deviceSockets'[d] = {s \in sockets' : DeviceAt(s)' = d}
  BY <1>1, <1>3 DEF Maps, IndexesAgree, UserAt, DeviceAt
<1>7. \A d \in Driver : driverSockets'[d] # None =>
         driverSockets'[d] = driverSockets[d] /\ driverSockets'[d] \in sockets'
  BY <1>1, <1>4 DEF Maps, IndexesAgree
<1>8. IndexesAgree'
  BY <1>5, <1>6, <1>7 DEF IndexesAgree
<1>9. DriverMap'
  BY <1>7 DEF Maps, DriverMap, DriverAt, UserAt
<1>10. OneSocketPerDriver'
  <2> SUFFICES ASSUME NEW s \in Socket, NEW t \in Socket,
                      conn'[s] = "connected", conn'[t] = "connected",
                      RoleAt(s) = "DRIVER", RoleAt(t) = "DRIVER",
                      DriverAt(s) # None, DriverAt(s) = DriverAt(t)
               PROVE  s = t /\ driverSockets'[DriverAt(s)] = s
    BY DEF OneSocketPerDriver, RoleAt, DriverAt, UserAt
  <2>1. conn[s] = "connected" /\ conn[t] = "connected" /\ s \notin T
    BY <1>2
  <2>2. s = t /\ driverSockets[DriverAt(s)] = s
    BY <2>1 DEF Maps, OneSocketPerDriver
  <2>3. DriverAt(s) \in Driver
    BY <2>1, DirectoryTypes DEF Places
  <2> QED BY <1>4, <2>1, <2>2, <2>3
<1> QED BY <1>8, <1>9, <1>10 DEF Maps

\* registerSocket: the new socket is under its user, session, device and driver,
\* and the older socket of its driver is gone.
LEMMA MapsAfterRegister ==
    ASSUME Maps, TypeOK, Places, NEW s \in Socket, conn[s] = "handshake", Register(s), token' = token
    PROVE  Maps'
<1>1. PICK T : T = Superseded(s)
  OBVIOUS
<1>2. token[s] \in Session /\ s \notin sockets /\ T \subseteq sockets /\ sockets \subseteq Socket
  BY <1>1 DEF Places, Maps, IndexesAgree, Superseded
<1>3. UserAt(s) \in User /\ DeviceAt(s) \in Device /\ DriverAt(s) \in Driver \cup {None}
  BY <1>2, DirectoryTypes
<1>4. sockets' = (sockets \ T) \cup {s}
  BY <1>1 DEF Register
<1>5. \A t \in Socket : conn'[t] = "connected" <=> t = s \/ (conn[t] = "connected" /\ t \notin T)
  BY <1>1 DEF Register
<1>6. sockets' = {t \in Socket : conn'[t] = "connected"}
  BY <1>2, <1>4, <1>5 DEF Maps, IndexesAgree
<1>7. \A u \in User : userSockets'[u] = {t \in sockets' : UserAt(t)' = u}
  <2>1. \A u \in User : userSockets'[u] = IF u = UserAt(s) THEN (userSockets[u] \ T) \cup {s}
                                                          ELSE userSockets[u] \ T
    BY <1>1, <1>3 DEF Register, AddToIndex, RemoveFromIndex, TypeOK
  <2>2. \A u \in User : userSockets[u] = {t \in sockets : UserAt(t) = u}
    BY DEF Maps, IndexesAgree
  <2>3. \A t : UserAt(t)' = UserAt(t)
    BY DEF UserAt
  <2> QED BY <1>2, <1>4, <2>1, <2>2, <2>3
<1>8. \A x \in Session : sessionSockets'[x] = {t \in sockets' : token'[t] = x}
  <2>1. \A x \in Session : sessionSockets'[x] = IF x = token[s] THEN (sessionSockets[x] \ T) \cup {s}
                                                               ELSE sessionSockets[x] \ T
    BY <1>1, <1>2 DEF Register, AddToIndex, RemoveFromIndex, TypeOK
  <2>2. \A x \in Session : sessionSockets[x] = {t \in sockets : token[t] = x}
    BY DEF Maps, IndexesAgree
  <2> QED BY <1>2, <1>4, <2>1, <2>2
<1>9. \A d \in Device : deviceSockets'[d] = {t \in sockets' : DeviceAt(t)' = d}
  <2>1. \A d \in Device : deviceSockets'[d] = IF d = DeviceAt(s) THEN (deviceSockets[d] \ T) \cup {s}
                                                                ELSE deviceSockets[d] \ T
    BY <1>1, <1>3 DEF Register, AddToIndex, RemoveFromIndex, TypeOK
  <2>2. \A d \in Device : deviceSockets[d] = {t \in sockets : DeviceAt(t) = d}
    BY DEF Maps, IndexesAgree
  <2>3. \A t : DeviceAt(t)' = DeviceAt(t)
    BY DEF DeviceAt
  <2> QED BY <1>2, <1>4, <2>1, <2>2, <2>3
<1>10. \A d \in Driver : driverSockets'[d] = IF d = DriverAt(s) THEN s
                           ELSE IF driverSockets[d] \in T THEN None ELSE driverSockets[d]
  BY <1>1 DEF Register
<1>11. \A d \in Driver : driverSockets'[d] # None =>
         driverSockets'[d] \in sockets' /\ DriverAt(driverSockets'[d]) = d
  BY <1>4, <1>10 DEF Maps, DriverMap
<1>12. IndexesAgree'
  BY <1>6, <1>7, <1>8, <1>9, <1>11 DEF IndexesAgree
<1>13. DriverMap'
  BY <1>11 DEF DriverMap, DriverAt, UserAt
<1>14. OneSocketPerDriver'
  <2> SUFFICES ASSUME NEW a \in Socket, NEW b \in Socket,
                      conn'[a] = "connected", conn'[b] = "connected",
                      RoleAt(a) = "DRIVER", RoleAt(b) = "DRIVER",
                      DriverAt(a) # None, DriverAt(a) = DriverAt(b)
               PROVE  a = b /\ driverSockets'[DriverAt(a)] = a
    BY DEF OneSocketPerDriver, RoleAt, DriverAt, UserAt
  <2>1. token[a] \in Session /\ token[b] \in Session
    BY <1>2, <1>5 DEF Places
  <2>2. DriverAt(a) \in Driver /\ UserAt(a) \in User
    BY <2>1, DirectoryTypes
  <2>3. \A t \in Socket : t # s /\ conn'[t] = "connected" /\ RoleAt(t) = "DRIVER" /\ DriverAt(t) # None
                          => driverSockets[DriverAt(t)] = t /\ t \in sockets /\ t \notin T
    BY <1>5 DEF Maps, OneSocketPerDriver, IndexesAgree
  <2>4. \A t \in Socket : t # s /\ conn'[t] = "connected" /\ RoleAt(t) = "DRIVER" /\ DriverAt(t) # None
                          => DriverAt(t) # DriverAt(s)
    <3> SUFFICES ASSUME NEW t \in Socket, t # s, conn'[t] = "connected", RoleAt(t) = "DRIVER",
                        DriverAt(t) # None, DriverAt(t) = DriverAt(s)
                 PROVE  FALSE
      OBVIOUS
    <3>1. driverSockets[DriverAt(s)] = t /\ t \in sockets /\ t \notin T
      BY <2>3
    <3>2. UserAt(t) \in User
      BY <1>5, DirectoryTypes DEF Places
    <3>3. UserAt(t) = UserAt(s)
      BY <1>3, <3>2, DirectoryAssumption DEF DriverAt
    <3>4. RoleAt(s) = "DRIVER"
      BY <3>3 DEF RoleAt
    <3> QED BY <1>1, <3>1, <3>4 DEF Superseded
  <2>5. CASE a = s
    <3>1. b = s
      BY <2>4, <2>5
    <3> QED BY <1>10, <2>2, <2>5, <3>1
  <2>6. CASE a # s
    <3>1. b # s
      BY <2>4, <2>6
    <3>2. driverSockets[DriverAt(a)] = a /\ driverSockets[DriverAt(b)] = b /\ a \notin T
      BY <2>3, <2>6, <3>1
    <3>3. DriverAt(a) # DriverAt(s)
      BY <2>4, <2>6
    <3> QED BY <1>10, <2>2, <3>2, <3>3
  <2> QED BY <2>5, <2>6
<1> QED BY <1>12, <1>13, <1>14 DEF Maps

-----------------------------------------------------------------------------
(* The steps of a socket *)

\* The empty handler is well typed.
LEMMA NoOpType == NoOp \in Op /\ NoOp.pc = "idle"
BY DEF NoOp, Op

\* What a step of the handler on one socket owes: a well-typed handler in a place
\* that Places allows.
PlaceOf(s, o) ==
    /\ o.pc = "handshake" <=> op[s].pc = "handshake"
    /\ o.pc = "validate" => op[s].pc = "validate" /\ o.kind = op[s].kind /\ o.room = op[s].room
    /\ o.pc \in {"handshake", "validate"} =>
         o.fresh \/ (~op[s].fresh /\ (o.todo = op[s].todo \/ "session" \in o.todo))
    /\ o.pc \in {"authorize", "join", "serve"} => o.fresh
    /\ o.pc \in {"authorize", "join"} => o.room \in Room

\* A step of a handler that leaves the connections and the rows alone.
LEMMA HandlerStep ==
    ASSUME IInv, NEW s \in Socket, NEW o \in Op, PlaceOf(s, o),
           op' = [op EXCEPT ![s] = o],
           UNCHANGED <<database, conn, token, indexes, rooms>>
    PROVE  IInv'
<1>1. op' \in [Socket -> Op] /\ op'[s] = o /\ \A t \in Socket : t # s => op'[t] = op[t]
  BY DEF IInv, TypeOK
<1>2. TypeOK'
  BY <1>1 DEF IInv, TypeOK, database, indexes
<1>3. Places'
  <2>1. conn' = conn /\ token' = token /\ row' = row
    BY DEF database
  <2>2. /\ conn[s] = "handshake" <=> op[s].pc = "handshake"
        /\ op[s].pc \in {"handshake", "validate"} =>
             /\ token[s] \in Session
             /\ op[s].fresh \/ (~Live(token[s]) /\ "session" \in op[s].todo)
        /\ op[s].pc = "validate" /\ op[s].kind = "join_room" => op[s].room \in Room
        /\ conn[s] \in {"handshake", "connected"} => token[s] \in Session
    BY DEF IInv, Places
  <2>3. /\ conn'[s] = "handshake" <=> o.pc = "handshake"
        /\ conn'[s] \in {"handshake", "connected"} => token'[s] \in Session
        /\ o.pc \in {"handshake", "validate"} =>
             /\ token'[s] \in Session
             /\ o.fresh \/ (~Live(token[s])' /\ "session" \in o.todo)
        /\ o.pc \in {"authorize", "join", "serve"} => o.fresh
        /\ o.pc = "validate" /\ o.kind = "join_room" => o.room \in Room
        /\ o.pc \in {"authorize", "join"} => o.room \in Room
    BY <2>1, <2>2 DEF PlaceOf, Live
  <2> QED BY <1>1, <2>1, <2>3 DEF IInv, Places, Live
<1>4. Maps'
  BY MapsStay DEF IInv
<1> QED BY <1>2, <1>3, <1>4 DEF IInv

\* The middleware: a connection gets the session of its token.
LEMMA BeginHandshakeKeeps ==
    ASSUME IInv, NEW s \in Socket, NEW x \in Session, BeginHandshake(s, x)
    PROVE  IInv'
<1>1. PICK o : o = [NoOp EXCEPT !.pc = "handshake", !.todo = Reads, !.fresh = Live(x)]
  OBVIOUS
<1>2. o \in Op /\ o.pc = "handshake" /\ o.todo = Reads /\ o.fresh = Live(x)
  BY <1>1 DEF NoOp, Op, Live
<1>3. op' \in [Socket -> Op] /\ op'[s] = o /\ \A t \in Socket : t # s => op'[t] = op[t]
  BY <1>1, <1>2 DEF IInv, TypeOK, BeginHandshake
<1>4. conn'[s] = "handshake" /\ token'[s] = x /\ row' = row /\ conn[s] = "new"
  BY DEF BeginHandshake, IInv, TypeOK, database
<1>5. \A t \in Socket : t # s => conn'[t] = conn[t] /\ token'[t] = token[t]
  BY DEF BeginHandshake, IInv, TypeOK
<1>6. TypeOK'
  <2>1. conn' \in [Socket -> {"new", "handshake", "connected", "closed"}]
        /\ token' \in [Socket -> Session \cup {None}]
    BY DEF BeginHandshake, IInv, TypeOK
  <2> QED BY <1>3, <2>1 DEF BeginHandshake, IInv, TypeOK, database, indexes
<1>7. Places'
  <2>1. o.fresh \/ (~Live(x) /\ "session" \in o.todo)
    BY <1>2 DEF Reads
  <2> QED BY <1>2, <1>3, <1>4, <1>5, <2>1 DEF IInv, Places, Live
<1>8. Maps'
  <2>1. UNCHANGED indexes
    BY DEF BeginHandshake
  <2> QED BY <1>4, <1>5, <2>1, MapsStay DEF IInv
<1> QED BY <1>6, <1>7, <1>8 DEF IInv

\* validateHandshake: only the read of the session's row decides whether it is live.
LEMMA HandshakeReadKeeps == ASSUME IInv, NEW s \in Socket, HandshakeRead(s) PROVE IInv'
<1>1. PICK r : r = NextRead(op[s].todo)
  OBVIOUS
<1>2. op[s].pc = "handshake" /\ op[s] \in Op /\ conn[s] = "handshake" /\ token[s] \in Session
  BY DEF HandshakeRead, IInv, TypeOK, Places
<1>3. PICK a \in Answers(s, r) :
         \/ a /\ op' = [op EXCEPT ![s].todo = @ \ {r}] /\ UNCHANGED conn
         \/ ~a /\ op' = [op EXCEPT ![s] = NoOp] /\ conn' = [conn EXCEPT ![s] = "closed"]
  BY <1>1 DEF HandshakeRead
<1>4. UNCHANGED <<database, token, indexes, rooms>>
  BY DEF HandshakeRead
<1>5. CASE a /\ op' = [op EXCEPT ![s].todo = @ \ {r}] /\ UNCHANGED conn
  <2>1. PICK o : o = [op[s] EXCEPT !.todo = @ \ {r}]
    OBVIOUS
  <2>2. o \in Op /\ o.pc = "handshake" /\ o.todo = op[s].todo \ {r} /\ o.fresh = op[s].fresh
    BY <1>2, <2>1 DEF Op
  <2>3. op' = [op EXCEPT ![s] = o]
    BY <1>5, <2>1
  <2>4. r = "session" => Live(token[s])
    BY <1>3, <1>5 DEF Answers, SessionOk
  <2>5. op[s].fresh \/ (~Live(token[s]) /\ "session" \in op[s].todo)
    BY <1>2 DEF IInv, Places
  <2>6. o.fresh \/ (~op[s].fresh /\ "session" \in o.todo)
    BY <2>2, <2>4, <2>5
  <2>7. PlaceOf(s, o)
    BY <1>2, <2>2, <2>6 DEF PlaceOf
  <2> QED BY <1>4, <1>5, <2>2, <2>3, <2>7, HandlerStep
<1>6. CASE ~a /\ op' = [op EXCEPT ![s] = NoOp] /\ conn' = [conn EXCEPT ![s] = "closed"]
  <2>1. op' \in [Socket -> Op] /\ op'[s].pc = "idle" /\ \A t \in Socket : t # s => op'[t] = op[t]
    BY <1>6, NoOpType DEF IInv, TypeOK
  <2>2. /\ conn' \in [Socket -> {"new", "handshake", "connected", "closed"}]
        /\ conn'[s] = "closed" /\ \A t \in Socket : t # s => conn'[t] = conn[t]
    BY <1>6 DEF IInv, TypeOK
  <2>3. TypeOK'
    BY <1>4, <2>1, <2>2 DEF IInv, TypeOK, database, indexes
  <2>4. Places'
    BY <1>4, <2>1, <2>2 DEF IInv, Places, Live, database
  <2>5. Maps'
    BY <1>2, <1>4, <2>2, MapsStay DEF IInv
  <2> QED BY <2>3, <2>4, <2>5 DEF IInv
<1> QED BY <1>3, <1>5, <1>6

\* handleConnection registers the socket.
LEMMA HandleConnectionKeeps == ASSUME IInv, NEW s \in Socket, HandleConnection(s) PROVE IInv'
<1>1. PICK T : T = Superseded(s)
  OBVIOUS
<1>2. op[s].pc = "handshake" /\ conn[s] = "handshake" /\ token[s] \in Session
  BY DEF HandleConnection, IInv, Places
<1>3. T \subseteq sockets /\ sockets = {t \in Socket : conn[t] = "connected"}
  BY <1>1 DEF Superseded, IInv, Maps, IndexesAgree
<1>4. UserAt(s) \in User /\ DeviceAt(s) \in Device /\ DriverAt(s) \in Driver \cup {None}
  BY <1>2, DirectoryTypes
<1>5. op' \in [Socket -> Op] /\ op'[s].pc = "idle" /\ \A t \in Socket : t # s => op'[t] = op[t]
  BY NoOpType DEF IInv, TypeOK, HandleConnection
<1>6. UNCHANGED <<database, token>> /\ Register(s)
  BY DEF HandleConnection
<1>7. /\ conn' \in [Socket -> {"new", "handshake", "connected", "closed"}]
      /\ conn'[s] = "connected"
      /\ \A t \in Socket : t # s => conn'[t] = conn[t] \/ (conn[t] = "connected" /\ conn'[t] = "closed")
  BY <1>1, <1>3, <1>6 DEF IInv, TypeOK, Register
<1>8. TypeOK'
  <2>1. rooms' \in [Socket -> SUBSET Room] /\ sockets' \subseteq Socket
    BY <1>6 DEF IInv, TypeOK, Register
  <2>2. userSockets' \in [User -> SUBSET Socket]
    BY <1>4, <1>6 DEF IInv, TypeOK, Register, AddToIndex, RemoveFromIndex
  <2>3. sessionSockets' \in [Session -> SUBSET Socket]
    BY <1>2, <1>6 DEF IInv, TypeOK, Register, AddToIndex, RemoveFromIndex
  <2>4. deviceSockets' \in [Device -> SUBSET Socket]
    BY <1>4, <1>6 DEF IInv, TypeOK, Register, AddToIndex, RemoveFromIndex
  <2>5. driverSockets' \in [Driver -> Socket \cup {None}]
    BY <1>6 DEF IInv, TypeOK, Register
  <2> QED BY <1>5, <1>6, <1>7, <2>1, <2>2, <2>3, <2>4, <2>5 DEF IInv, TypeOK, database
<1>9. Places'
  BY <1>2, <1>5, <1>6, <1>7 DEF IInv, Places, Live, database
<1>10. Maps'
  BY <1>2, <1>6, MapsAfterRegister DEF IInv
<1> QED BY <1>8, <1>9, <1>10 DEF IInv

\* A handler begins; the session is read as it stands.
LEMMA BeginOpKeeps ==
    ASSUME IInv, NEW s \in Socket, NEW kind \in Ops, NEW room \in Room \cup {None},
           kind = "join_room" => room \in Room, BeginOp(s, kind, room)
    PROVE  IInv'
<1>1. PICK o : o = [pc |-> "validate", kind |-> kind, room |-> room,
                    todo |-> Reads, fresh |-> Live(token[s])]
  OBVIOUS
<1>2. /\ o \in Op /\ o.pc = "validate" /\ o.todo = Reads /\ o.fresh = Live(token[s])
      /\ o.kind = kind /\ o.room = room
  BY <1>1 DEF Op, Live
<1>3. op' \in [Socket -> Op] /\ op'[s] = o /\ \A t \in Socket : t # s => op'[t] = op[t]
  BY <1>1, <1>2 DEF IInv, TypeOK, BeginOp
<1>4. conn[s] = "connected" /\ token[s] \in Session
  BY DEF BeginOp, IInv, Places
<1>5. UNCHANGED <<database, conn, token, indexes, rooms>>
  BY DEF BeginOp
<1>6. TypeOK'
  BY <1>3, <1>5 DEF IInv, TypeOK, database, indexes
<1>7. Places'
  <2>1. o.fresh \/ (~Live(token[s]) /\ "session" \in o.todo)
    BY <1>2 DEF Reads
  <2> QED BY <1>2, <1>3, <1>4, <1>5, <2>1 DEF IInv, Places, Live, database
<1>8. Maps'
  BY <1>5, MapsStay DEF IInv
<1> QED BY <1>6, <1>7, <1>8 DEF IInv

\* validateSocket: the reads end in any order, the row of the session among them.
LEMMA ValidateReadKeeps ==
    ASSUME IInv, NEW s \in Socket, NEW r \in Reads, ValidateRead(s, r) PROVE IInv'
<1>1. op[s].pc = "validate" /\ op[s] \in Op /\ token[s] \in Session
      /\ (op[s].fresh \/ (~Live(token[s]) /\ "session" \in op[s].todo))
  BY DEF ValidateRead, IInv, TypeOK, Places
<1>2. PICK a \in Answers(s, r) : op' = [op EXCEPT ![s] =
                  IF a THEN [op[s] EXCEPT !.todo = @ \ {r}]
                  ELSE [NoOp EXCEPT !.pc = "refused", !.fresh = op[s].fresh]]
  BY DEF ValidateRead
<1>3. UNCHANGED <<database, conn, token, indexes, rooms>>
  BY DEF ValidateRead
<1>4. CASE a
  <2>1. PICK o : o = [op[s] EXCEPT !.todo = @ \ {r}]
    OBVIOUS
  <2>2. /\ o \in Op /\ o.pc = "validate" /\ o.todo = op[s].todo \ {r} /\ o.fresh = op[s].fresh
        /\ o.kind = op[s].kind /\ o.room = op[s].room
    BY <1>1, <2>1 DEF Op
  <2>3. r = "session" => Live(token[s])
    BY <1>2, <1>4 DEF Answers, SessionOk
  <2>4. PlaceOf(s, o)
    BY <1>1, <2>2, <2>3 DEF PlaceOf
  <2> QED BY <1>2, <1>3, <1>4, <2>1, <2>2, <2>4, HandlerStep
<1>5. CASE ~a
  <2>1. PICK o : o = [NoOp EXCEPT !.pc = "refused", !.fresh = op[s].fresh]
    OBVIOUS
  <2>2. o \in Op /\ o.pc = "refused"
    BY <1>1, <2>1 DEF NoOp, Op
  <2>3. PlaceOf(s, o)
    BY <1>1, <2>2 DEF PlaceOf
  <2> QED BY <1>2, <1>3, <1>5, <2>1, <2>2, <2>3, HandlerStep
<1> QED BY <1>4, <1>5

\* The other steps of a handler on an open or a closed socket.
LEMMA HandlerKeeps ==
    ASSUME IInv, NEW s \in Socket, TokenExpired(s) \/ Validated(s) \/ Authorize(s) \/ Serve(s)
    PROVE  IInv'
<1>1. op[s] \in Op /\ UNCHANGED <<database, conn, token, indexes, rooms>>
  BY DEF TokenExpired, Validated, Authorize, Serve, IInv, TypeOK
<1>2. ASSUME op[s].pc # "handshake", op' = [op EXCEPT ![s] = NoOp] PROVE IInv'
  <2>1. PlaceOf(s, NoOp)
    BY <1>2, NoOpType DEF PlaceOf
  <2> QED BY <1>1, <1>2, <2>1, NoOpType, HandlerStep
<1>3. ASSUME NEW pc \in {"authorize", "join", "serve"}, op[s].pc # "handshake", op[s].fresh,
             pc \in {"authorize", "join"} => op[s].room \in Room,
             op' = [op EXCEPT ![s] = [op[s] EXCEPT !.pc = pc]]
      PROVE  IInv'
  <2>1. PICK o : o = [op[s] EXCEPT !.pc = pc]
    OBVIOUS
  <2>2. o \in Op /\ o.pc = pc /\ o.fresh = op[s].fresh /\ o.room = op[s].room
    BY <1>1, <2>1 DEF Op
  <2>3. PlaceOf(s, o)
    BY <1>3, <2>2 DEF PlaceOf
  <2> QED BY <1>1, <1>3, <2>1, <2>2, <2>3, HandlerStep
<1>4. CASE TokenExpired(s)
  <2>1. PICK o : o = [NoOp EXCEPT !.pc = "refused", !.fresh = op[s].fresh]
    OBVIOUS
  <2>2. o \in Op /\ o.pc = "refused"
    BY <1>1, <2>1 DEF NoOp, Op
  <2>3. PlaceOf(s, o) /\ op' = [op EXCEPT ![s] = o]
    BY <1>4, <2>1, <2>2 DEF PlaceOf, TokenExpired
  <2> QED BY <1>1, <2>2, <2>3, HandlerStep
<1>5. CASE Validated(s)
  <2>1. op[s].pc = "validate" /\ op[s].fresh
        /\ (op[s].kind = "join_room" => op[s].room \in Room)
    BY <1>5 DEF Validated, IInv, Places
  <2>2. \/ /\ op[s].kind = "join_room"
           /\ op' = [op EXCEPT ![s] = [op[s] EXCEPT !.pc = "authorize"]]
        \/ op' = [op EXCEPT ![s] = NoOp]
        \/ op' = [op EXCEPT ![s] = [op[s] EXCEPT !.pc = "serve"]]
    BY <1>5 DEF Validated
  <2> QED BY <1>2, <1>3, <2>1, <2>2
<1>6. CASE Authorize(s)
  <2>1. op[s].pc = "authorize" /\ op[s].fresh /\ op[s].room \in Room
    BY <1>6 DEF Authorize, IInv, Places
  <2>2. \/ op' = [op EXCEPT ![s] = [op[s] EXCEPT !.pc = "join"]]
        \/ op' = [op EXCEPT ![s] = NoOp]
    BY <1>6 DEF Authorize, IInv, TypeOK
  <2> QED BY <1>2, <1>3, <2>1, <2>2
<1>7. CASE Serve(s)
  BY <1>2, <1>7 DEF Serve
<1> QED BY <1>4, <1>5, <1>6, <1>7

\* client.join and client.leave touch the rooms only.
LEMMA RoomsKeep ==
    ASSUME IInv, NEW s \in Socket, JoinRoom(s) \/ \E r \in Room : LeaveRoom(s, r)
    PROVE  IInv'
<1>1. UNCHANGED <<database, conn, token, indexes>>
  BY DEF JoinRoom, LeaveRoom
<1>2. rooms' \in [Socket -> SUBSET Room]
  BY DEF JoinRoom, LeaveRoom, IInv, TypeOK, Places
<1>3. op' \in [Socket -> Op] /\ \A t \in Socket : op'[t] = op[t] \/ (op[t].pc # "handshake" /\ op'[t].pc = "idle")
  BY NoOpType DEF JoinRoom, LeaveRoom, IInv, TypeOK
<1>4. TypeOK'
  BY <1>1, <1>2, <1>3 DEF IInv, TypeOK, database, indexes
<1>5. Places'
  BY <1>1, <1>3 DEF IInv, Places, Live, database
<1>6. Maps'
  BY <1>1, MapsStay DEF IInv
<1> QED BY <1>4, <1>5, <1>6 DEF IInv

-----------------------------------------------------------------------------
(* The ends of connections, and what happens outside the gateway *)

\* Closing sockets that are not in a handshake.
LEMMA TearDownKeeps ==
    ASSUME IInv, NEW T \in SUBSET Socket, \A t \in T : conn[t] # "handshake", TearDown(T),
           UNCHANGED <<row, device, account, assigned, keys, admin, adminLeft, token>>,
           channel' \subseteq channel, op' \in [Socket -> Op],
           \A t \in Socket : op'[t] = op[t] \/ (op[t].pc # "handshake" /\ op'[t].pc = "idle")
    PROVE  IInv'
<1>1. /\ conn' \in [Socket -> {"new", "handshake", "connected", "closed"}]
      /\ \A t \in Socket : conn'[t] = IF t \in T THEN "closed" ELSE conn[t]
  BY DEF IInv, TypeOK, TearDown
<1>2. TypeOK'
  <2>1. rooms' \in [Socket -> SUBSET Room] /\ sockets' \subseteq Socket
    BY DEF IInv, TypeOK, TearDown
  <2>2. userSockets' \in [User -> SUBSET Socket]
    BY DEF IInv, TypeOK, TearDown, RemoveFromIndex
  <2>3. sessionSockets' \in [Session -> SUBSET Socket]
    BY DEF IInv, TypeOK, TearDown, RemoveFromIndex
  <2>4. deviceSockets' \in [Device -> SUBSET Socket]
    BY DEF IInv, TypeOK, TearDown, RemoveFromIndex
  <2>5. driverSockets' \in [Driver -> Socket \cup {None}]
    BY DEF IInv, TypeOK, TearDown
  <2> QED BY <1>1, <2>1, <2>2, <2>3, <2>4, <2>5 DEF IInv, TypeOK
<1>3. Places'
  BY <1>1 DEF IInv, Places, Live
<1>4. Maps'
  BY MapsAfterTearDown DEF IInv
<1> QED BY <1>2, <1>3, <1>4 DEF IInv

\* A refused handler and a lost client close one socket, a revocation event those
\* the maps name.
LEMMA ClosingKeeps ==
    ASSUME IInv, \/ \E s \in Socket : Refuse(s) \/ HandleDisconnect(s)
                 \/ \E e \in Event : HandleRevocation(e)
    PROVE  IInv'
<1>1. ASSUME NEW s \in Socket, Refuse(s) \/ HandleDisconnect(s) PROVE IInv'
  <2>1. conn[s] # "handshake"
    BY <1>1 DEF Refuse, HandleDisconnect, IInv, Places
  <2>2. op' \in [Socket -> Op]
        /\ \A t \in Socket : op'[t] = op[t] \/ (op[t].pc # "handshake" /\ op'[t].pc = "idle")
    BY <1>1, NoOpType DEF Refuse, HandleDisconnect, IInv, TypeOK
  <2>3. TearDown({s}) /\ UNCHANGED <<database, token>>
    BY <1>1 DEF Refuse, HandleDisconnect
  <2>4. {s} \in SUBSET Socket /\ \A t \in {s} : conn[t] # "handshake"
    BY <2>1
  <2> QED BY <2>2, <2>3, <2>4, TearDownKeeps DEF database
<1>2. ASSUME NEW e \in Event, HandleRevocation(e) PROVE IInv'
  <2>1. PICK T : T = Matching(e) \cap sockets
    OBVIOUS
  <2>2. T \in SUBSET Socket /\ \A t \in T : conn[t] # "handshake"
    BY <2>1 DEF IInv, Maps, IndexesAgree
  <2>3. /\ TearDown(T) /\ channel' \subseteq channel
        /\ UNCHANGED <<row, device, account, assigned, keys, admin, adminLeft, token>> /\ op' = op
    BY <1>2, <2>1 DEF HandleRevocation
  <2> QED BY <2>2, <2>3, TearDownKeeps DEF IInv, TypeOK
<1> QED BY <1>1, <1>2

\* Rows may only leave ACTIVE; the gateway's own state is untouched.
LEMMA OutsideKeeps ==
    ASSUME IInv, \/ \E e \in Event : BeginRevocation(e)
                 \/ FinishRevocation
                 \/ Environment
    PROVE  IInv'
<1>1. UNCHANGED <<conn, token, indexes, rooms, op>>
  BY DEF BeginRevocation, FinishRevocation, Environment
<1>2. \A x \in Session : row'[x] = row[x] \/ row'[x] # "ACTIVE"
  BY DEF BeginRevocation, FinishRevocation, Environment, IInv, TypeOK
<1>3. \A e \in Event : Victims(e) \subseteq Session /\ KeysFor(e) \subseteq Session \cup User
  BY DEF Event, Victims, KeysFor
<1>4. TypeOK'
  <2>1. CASE \E e \in Event : BeginRevocation(e)
    BY <1>1, <2>1 DEF BeginRevocation, IInv, TypeOK, indexes
  <2>2. CASE FinishRevocation
    <3>1. row' \in [Session -> {"ACTIVE", "REVOKED", "EXPIRED"}]
      BY <2>2 DEF FinishRevocation, IInv, TypeOK
    <3>2. admin \in Event /\ keys' \subseteq Session \cup User /\ channel' \subseteq Event
      BY <1>3, <2>2 DEF FinishRevocation, IInv, TypeOK
    <3> QED BY <1>1, <2>2, <3>1, <3>2 DEF FinishRevocation, IInv, TypeOK, indexes
  <2>3. CASE Environment
    <3>1. /\ row' \in [Session -> {"ACTIVE", "REVOKED", "EXPIRED"}]
          /\ device' \in [Device -> {"ACTIVE", "REVOKED"}]
          /\ account' \in [User -> {"ACTIVE", "SUSPENDED"}]
          /\ assigned' \in [Room -> Driver \cup {None}]
      BY <2>3 DEF Environment, IInv, TypeOK
    <3>2. adminLeft' \in Nat
      BY <2>3 DEF Environment, IInv, TypeOK
    <3> QED BY <1>1, <2>3, <3>1, <3>2 DEF Environment, IInv, TypeOK, indexes
  <2> QED BY <2>1, <2>2, <2>3
<1>5. Places'
  BY <1>1, <1>2 DEF IInv, Places, Live
<1>6. Maps'
  BY <1>1, MapsStay DEF IInv
<1> QED BY <1>4, <1>5, <1>6 DEF IInv

-----------------------------------------------------------------------------
(* The invariant and the theorems *)

\* The inductive invariant holds in every reachable state.
LEMMA Invariance == Spec => []IInv
<1>1. Init => IInv
  <2> SUFFICES ASSUME Init PROVE IInv
    OBVIOUS
  <2>1. op \in [Socket -> Op] /\ \A s \in Socket : op[s].pc = "idle"
    BY NoOpType DEF Init
  <2>2. TypeOK
    BY <2>1, DirectoryAssumption, RealtimeNamesAssumption DEF Init, TypeOK
  <2>3. Places
    BY <2>1 DEF Init, Places
  <2>4. Maps
    BY DEF Init, Maps, IndexesAgree, DriverMap, OneSocketPerDriver
  <2> QED BY <2>2, <2>3, <2>4 DEF IInv
<1>2. IInv /\ [Next]_vars => IInv'
  <2> SUFFICES ASSUME IInv, [Next]_vars PROVE IInv'
    OBVIOUS
  <2>1. CASE UNCHANGED vars
    <3>1. TypeOK'
      BY <2>1 DEF vars, database, indexes, IInv, TypeOK
    <3>2. Places'
      BY <2>1 DEF vars, database, IInv, Places, Live
    <3>3. Maps'
      BY <2>1, MapsStay DEF vars, IInv
    <3> QED BY <3>1, <3>2, <3>3 DEF IInv
  <2>2. ASSUME NEW s \in Socket, Client(s) PROVE IInv'
    <3>1. ASSUME NEW k \in Ops \ {"join_room"}, BeginOp(s, k, None) PROVE IInv'
      BY <3>1, BeginOpKeeps
    <3>2. ASSUME NEW r \in Room, BeginOp(s, "join_room", r) PROVE IInv'
      BY <3>2, BeginOpKeeps, RealtimeOpsAssumption
    <3> QED BY <2>2, <3>1, <3>2, BeginHandshakeKeeps, RoomsKeep, ClosingKeeps DEF Client
  <2>3. ASSUME NEW s \in Socket, Server(s) PROVE IInv'
    BY <2>3, HandshakeReadKeeps, HandleConnectionKeeps, ValidateReadKeeps, HandlerKeeps,
       RoomsKeep, ClosingKeeps DEF Server
  <2> QED BY <2>1, <2>2, <2>3, OutsideKeeps, ClosingKeeps DEF Next
<1> QED BY <1>1, <1>2, PTL DEF Spec

\* Rows, keys, indexes and handlers of the gateway keep their types.
THEOREM TypeCorrect == Spec => []TypeOK
<1>1. IInv => TypeOK
  BY DEF IInv
<1> QED BY <1>1, Invariance, PTL

\* The maps of ws-connection-manager.service.ts name exactly the connected sockets,
\* whatever connects, supersedes, refuses or closes them.
THEOREM IndexesCorrect == Spec => []IndexesAgree
<1>1. IInv => IndexesAgree
  BY DEF IInv, Maps
<1> QED BY <1>1, Invariance, PTL

\* registerSocket keeps one connected socket per driver.
THEOREM DriverCorrect == Spec => []OneSocketPerDriver
<1>1. IInv => OneSocketPerDriver
  BY DEF IInv, Maps
<1> QED BY <1>1, Invariance, PTL

\* validateHandshake and validateSocket refuse what was over before they began,
\* because the row of the session is always read after that.
THEOREM RefusalCorrect == Spec => []RevokedBeforeIsRefused
<1>1. IInv => RevokedBeforeIsRefused
  BY DEF IInv, Places, RevokedBeforeIsRefused
<1> QED BY <1>1, Invariance, PTL

\* handleRevocationMessage closes every socket of the session, device or user.
THEOREM RevocationCorrect == Spec => RevocationReachesAll
<1> DEFINE Reaches == \A e \in channel \ channel' : \A s \in Socket :
                        conn'[s] = "connected" => token[s] \notin Victims(e)
<1>1. IInv /\ [Next]_vars => [Reaches]_vars
  <2> SUFFICES ASSUME IInv, Next, NEW e \in channel \ channel', NEW s \in Socket,
                      conn'[s] = "connected"
               PROVE  token[s] \notin Victims(e)
    OBVIOUS
  <2>1. e \in Event
    BY DEF IInv, TypeOK
  <2>2. HandleRevocation(e)
    BY DEF Next, Client, Server, database, BeginHandshake, BeginOp, LeaveRoom, HandleDisconnect,
       HandshakeRead, HandleConnection, ValidateRead, TokenExpired, Refuse, Validated, Authorize,
       JoinRoom, Serve, BeginRevocation, FinishRevocation, Environment, HandleRevocation
  <2>3. conn[s] = "connected" /\ s \notin Matching(e)
    BY <2>2 DEF HandleRevocation, TearDown, IInv, Maps, IndexesAgree
  <2>4. token[s] \in Session /\ s \in sockets
    BY <2>3 DEF IInv, Places, Maps, IndexesAgree
  <2>5. \/ e.type = "SESSION_REVOKED" /\ e.id \in Session
        \/ e.type = "DEVICE_REVOKED" /\ e.id \in Device
        \/ e.type = "USER_REVOKED" /\ e.id \in User
    BY <2>1 DEF Event
  <2>6. /\ \A u \in User : userSockets[u] = {t \in sockets : UserOf[token[t]] = u}
        /\ \A x \in Session : sessionSockets[x] = {t \in sockets : token[t] = x}
        /\ \A d \in Device : deviceSockets[d] = {t \in sockets : DeviceOf[token[t]] = d}
    BY DEF IInv, Maps, IndexesAgree, UserAt, DeviceAt
  <2> QED BY <2>3, <2>4, <2>5, <2>6 DEF Matching, Victims
<1>2. Spec => [][Reaches]_vars
  BY <1>1, Invariance, PTL DEF Spec
<1> QED BY <1>2 DEF RevocationReachesAll

-----------------------------------------------------------------------------
(* The safety half of RevokedSocketClosesOnUse *)

\* A handler whose session was already over when it began, before its refusal has
\* closed the socket.
Doomed(s) == op[s].pc \in {"validate", "refused"} /\ ~op[s].fresh

\* Such a handler has one way to go: each step ends one of its reads, refuses it or
\* closes the socket, and the read of the session's row stays to be done.
DoomedOnlyCloses ==
    [][\A s \in Socket : Doomed(s) =>
         \/ conn'[s] = "closed"
         \/ op'[s] = op[s]
         \/ /\ op[s].pc = "validate" /\ op'[s].pc = "refused" /\ ~op'[s].fresh
         \/ /\ op[s].pc = "validate" /\ op'[s].pc = "validate" /\ ~op'[s].fresh
            /\ \E r \in op[s].todo \ {"session"} : op'[s].todo = op[s].todo \ {r}
            /\ "session" \in op'[s].todo]_vars

\* A socket that was closed is never connected again, although handshakes and
\* handlers that began before the end go on.
ClosedStaysClosed ==
    [][\A s \in Socket : conn[s] = "closed" => conn'[s] = "closed"]_vars

\* A step changes the handler of one socket, by an action of that socket.
LEMMA OpStep ==
    ASSUME IInv, [Next]_vars, NEW s \in Socket
    PROVE  \/ op'[s] = op[s]
           \/ Client(s)
           \/ Server(s)
<1> USE DEF IInv, TypeOK
<1>1. ASSUME NEW t \in Socket, t # s, Client(t) PROVE op'[s] = op[s]
  BY <1>1 DEF Client, BeginHandshake, BeginOp, LeaveRoom, HandleDisconnect
<1>2. ASSUME NEW t \in Socket, t # s, Server(t) PROVE op'[s] = op[s]
  BY <1>2 DEF Server, HandshakeRead, HandleConnection, ValidateRead, TokenExpired, Refuse,
     Validated, Authorize, JoinRoom, Serve
<1>3. ASSUME UNCHANGED vars \/ (\E e \in Event : BeginRevocation(e)) \/ FinishRevocation
             \/ Environment \/ \E e \in Event : HandleRevocation(e)
      PROVE  op'[s] = op[s]
  BY <1>3 DEF vars, BeginRevocation, FinishRevocation, Environment, HandleRevocation
<1> QED BY <1>1, <1>2, <1>3 DEF Next

\* Nothing runs on a socket before its handshake.
NewIsIdle == \A s \in Socket : conn[s] = "new" => op[s].pc = "idle"

\* A socket gets its first handler from BeginHandshake, which makes it old.
LEMMA NewInvariance == Spec => []NewIsIdle
<1>1. Init => NewIsIdle
  BY DEF Init, NewIsIdle, NoOp
<1>2. IInv /\ NewIsIdle /\ [Next]_vars => NewIsIdle'
  <2> SUFFICES ASSUME IInv, NewIsIdle, [Next]_vars, NEW s \in Socket, conn'[s] = "new"
               PROVE  op'[s].pc = "idle"
    BY DEF NewIsIdle
  <2> USE DEF IInv, TypeOK
  <2>1. conn[s] = "new"
    <3>1. ASSUME NEW t \in Socket, Client(t) PROVE conn[s] = "new"
      BY <3>1 DEF Client, BeginHandshake, BeginOp, LeaveRoom, HandleDisconnect, TearDown
    <3>2. ASSUME NEW t \in Socket, Server(t) PROVE conn[s] = "new"
      BY <3>2 DEF Server, HandshakeRead, HandleConnection, Register, ValidateRead, TokenExpired,
         Refuse, TearDown, Validated, Authorize, JoinRoom, Serve
    <3>3. ASSUME NEW e \in Event, HandleRevocation(e) PROVE conn[s] = "new"
      BY <3>3 DEF HandleRevocation, TearDown
    <3>4. CASE UNCHANGED vars \/ (\E e \in Event : BeginRevocation(e)) \/ FinishRevocation
               \/ Environment
      BY <3>4 DEF vars, BeginRevocation, FinishRevocation, Environment
    <3> QED BY <3>1, <3>2, <3>3, <3>4 DEF Next
  <2>2. op[s].pc = "idle"
    BY <2>1 DEF NewIsIdle
  <2>3. Client(s) => op'[s] = op[s]
    BY <2>1 DEF Client, BeginHandshake, BeginOp, LeaveRoom, HandleDisconnect
  <2>4. ~Server(s)
    BY <2>2 DEF Server, HandshakeRead, HandleConnection, ValidateRead, TokenExpired, Refuse,
       Validated, Authorize, JoinRoom, Serve
  <2> QED BY <2>2, <2>3, <2>4, OpStep
<1> QED BY <1>1, <1>2, Invariance, PTL DEF Spec

\* One read of a doomed validation refuses it, or leaves the session's to come.
LEMMA DoomedRead ==
    ASSUME IInv, NEW s \in Socket, Doomed(s), NEW r \in Reads, ValidateRead(s, r)
    PROVE  \/ op'[s].pc = "refused" /\ ~op'[s].fresh
           \/ /\ op'[s].pc = "validate" /\ ~op'[s].fresh
              /\ r \in op[s].todo \ {"session"} /\ op'[s].todo = op[s].todo \ {r}
              /\ "session" \in op'[s].todo
<1>1. op[s] \in Op /\ op[s].pc = "validate" /\ ~op[s].fresh /\ r \in op[s].todo
  BY DEF ValidateRead, Doomed, IInv, TypeOK
<1>2. ~Live(token[s]) /\ "session" \in op[s].todo
  BY <1>1 DEF IInv, Places
<1>3. PICK a \in Answers(s, r) :
         op' = [op EXCEPT ![s] =
                  IF a THEN [op[s] EXCEPT !.todo = @ \ {r}]
                  ELSE [NoOp EXCEPT !.pc = "refused", !.fresh = op[s].fresh]]
  BY DEF ValidateRead
<1>4. op'[s] = IF a THEN [op[s] EXCEPT !.todo = @ \ {r}]
               ELSE [NoOp EXCEPT !.pc = "refused", !.fresh = op[s].fresh]
  BY <1>3 DEF IInv, TypeOK
<1>5. CASE a
  <2>1. r # "session"
    BY <1>2, <1>5 DEF Answers, SessionOk
  <2>2. op'[s] = [op[s] EXCEPT !.todo = @ \ {r}]
    BY <1>4, <1>5
  <2> QED BY <1>1, <1>2, <2>1, <2>2 DEF Op
<1>6. CASE ~a
  <2>1. op'[s] = [NoOp EXCEPT !.pc = "refused", !.fresh = op[s].fresh]
    BY <1>4, <1>6
  <2> QED BY <1>1, <2>1 DEF NoOp
<1> QED BY <1>5, <1>6

\* A message on a socket whose session is over can only end with the socket closed:
\* revalidateSensitiveSocket is never passed and nothing restarts or skips it.
THEOREM DoomedCorrect == Spec => DoomedOnlyCloses
<1> DEFINE Goes == \A s \in Socket : Doomed(s) =>
                     \/ conn'[s] = "closed"
                     \/ op'[s] = op[s]
                     \/ /\ op[s].pc = "validate" /\ op'[s].pc = "refused" /\ ~op'[s].fresh
                     \/ /\ op[s].pc = "validate" /\ op'[s].pc = "validate" /\ ~op'[s].fresh
                        /\ \E r \in op[s].todo \ {"session"} : op'[s].todo = op[s].todo \ {r}
                        /\ "session" \in op'[s].todo
<1>1. IInv /\ NewIsIdle /\ [Next]_vars => Goes
  <2> SUFFICES ASSUME IInv, NewIsIdle, [Next]_vars, NEW s \in Socket, Doomed(s), op'[s] # op[s],
                      conn'[s] # "closed"
               PROVE  \/ /\ op[s].pc = "validate" /\ op'[s].pc = "refused" /\ ~op'[s].fresh
                      \/ /\ op[s].pc = "validate" /\ op'[s].pc = "validate" /\ ~op'[s].fresh
                         /\ \E r \in op[s].todo \ {"session"} : op'[s].todo = op[s].todo \ {r}
                         /\ "session" \in op'[s].todo
    OBVIOUS
  <2>1. /\ op[s].pc \in {"validate", "refused"} /\ ~op[s].fresh /\ op[s] \in Op
        /\ conn[s] # "new"
    BY DEF Doomed, IInv, TypeOK, NewIsIdle
  <2>2. ~Client(s)
    BY <2>1 DEF Client, BeginHandshake, BeginOp, LeaveRoom, HandleDisconnect
  <2>3. CASE \E r \in Reads : ValidateRead(s, r)
    BY <2>1, <2>3, DoomedRead DEF ValidateRead
  <2>4. CASE TokenExpired(s)
    BY <2>1, <2>4 DEF TokenExpired, NoOp, IInv, TypeOK
  <2>5. ~Refuse(s)
    BY DEF Refuse, TearDown
  <2>6. ~Validated(s)
    BY <2>1 DEF Validated, IInv, Places
  <2>7. ~HandshakeRead(s) /\ ~HandleConnection(s) /\ ~Authorize(s) /\ ~JoinRoom(s) /\ ~Serve(s)
    BY <2>1 DEF HandshakeRead, HandleConnection, Authorize, JoinRoom, Serve
  <2> QED BY <2>2, <2>3, <2>4, <2>5, <2>6, <2>7, OpStep DEF Server
<1>2. Spec => [][Goes]_vars
  BY <1>1, Invariance, NewInvariance, PTL DEF Spec
<1> QED BY <1>2 DEF DoomedOnlyCloses

\* disconnect(true) is final: no late step of the handshake, of a handler or of
\* registerSocket brings a closed socket back.
THEOREM ClosedIsFinal == Spec => ClosedStaysClosed
<1> DEFINE Stays == \A s \in Socket : conn[s] = "closed" => conn'[s] = "closed"
<1>1. IInv /\ [Next]_vars => Stays
  <2> SUFFICES ASSUME IInv, [Next]_vars, NEW s \in Socket, conn[s] = "closed"
               PROVE  conn'[s] = "closed"
    OBVIOUS
  <2> USE DEF IInv, TypeOK
  <2>1. op[s].pc # "handshake"
    BY DEF Places
  <2>2. ASSUME NEW t \in Socket, Client(t) PROVE conn'[s] = "closed"
    BY <2>2 DEF Client, BeginHandshake, BeginOp, LeaveRoom, HandleDisconnect, TearDown
  <2>3. ASSUME NEW t \in Socket, HandleConnection(t) PROVE conn'[s] = "closed"
    BY <2>1, <2>3 DEF HandleConnection, Register
  <2>4. ASSUME NEW t \in Socket, Server(t), ~HandleConnection(t) PROVE conn'[s] = "closed"
    BY <2>4 DEF Server, HandshakeRead, ValidateRead, TokenExpired, Refuse, TearDown,
       Validated, Authorize, JoinRoom, Serve
  <2>5. ASSUME NEW e \in Event, HandleRevocation(e) PROVE conn'[s] = "closed"
    BY <2>5 DEF HandleRevocation, TearDown
  <2>6. CASE UNCHANGED vars \/ (\E e \in Event : BeginRevocation(e)) \/ FinishRevocation
             \/ Environment
    BY <2>6 DEF vars, BeginRevocation, FinishRevocation, Environment
  <2> QED BY <2>2, <2>3, <2>4, <2>5, <2>6 DEF Next
<1>2. Spec => [][Stays]_vars
  BY <1>1, Invariance, PTL DEF Spec
<1> QED BY <1>2 DEF ClosedStaysClosed
=============================================================================
