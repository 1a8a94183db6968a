---------------------------- MODULE MCRealtime ----------------------------
(***************************************************************************)
(* Two sockets, each of the session of a driver or of that of an owner,    *)
(* and the room of one delivery of the owner that the driver carries.      *)
(***************************************************************************)
EXTENDS Realtime

MCUserOf == [x \in Session |-> IF x = "x1" THEN "u1" ELSE "u2"]
MCDeviceOf == [x \in Session |-> IF x = "x1" THEN "d1" ELSE "d2"]
MCRoleOf == [u \in User |-> IF u = "u1" THEN "DRIVER" ELSE "OWNER"]
MCDriverOf == [u \in User |-> IF u = "u1" THEN "v1" ELSE None]
MCKindOf == [r \in Room |-> "delivery"]
MCAssigned == [r \in Room |-> "v1"]
MCOwnersOf == [r \in Room |-> {"u2"}]
=============================================================================
