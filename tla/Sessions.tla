----------------------------- MODULE Sessions -----------------------------
(***************************************************************************)
(* The login sessions of one user account: session.service.ts, with the    *)
(* callers in auth.service.ts, users.service.ts and device.service.ts, over *)
(* the PostgreSQL tables users, devices and sessions and the revocation    *)
(* keys in Redis.                                                          *)
(*                                                                         *)
(* Requests are slots p of Procs, as in DeliveryLifecycle.  PostgreSQL runs *)
(* at READ COMMITTED: a multi-row UPDATE fixes the rows it will touch when *)
(* it starts (the victims of a request) and then waits for those that an   *)
(* open transaction has locked.  Inserting a session locks the user's row  *)
(* FOR KEY SHARE (its foreign key), which SELECT ... FOR UPDATE excludes.  *)
(***************************************************************************)
EXTENDS Naturals, FiniteSets

CONSTANTS Ids,        \* session ids 1..n in order of creation (bounds logins)
          Devices,    \* devices of the user
          Procs,      \* request slots
          None,       \* no parent session, no device
          Limit,      \* concurrent sessions of other roles (5 in the code)
          Failures    \* TRUE: a request may die between two statements

ASSUME IdsAssumption == Ids \subseteq Nat \ {0}
ASSUME SessionNoneAssumption == None \notin Ids \cup Devices
ASSUME PolicyAssumption == /\ Failures \in BOOLEAN
                           /\ Limit \in Nat \ {0}

VARIABLES role,     \* users.role_id: a driver, or a role with Limit sessions
          status,   \* users.status
          dev,      \* devices.status
          sess,     \* sessions
          nextId,   \* the next session id
          sessKey,  \* Redis: sessions with a key revoked:session:<id>
          userKey,  \* Redis: the key revoked:user:<id> exists
          req       \* the requests in flight

rows == <<status, dev, sess, nextId>>
keys == <<sessKey, userKey>>
vars == <<role, rows, keys, req>>

-----------------------------------------------------------------------------
\* A session belongs to the token family of the login that started it; parent
\* is the session whose refresh token was exchanged for it.
SessionRow == [state : {"none", "active", "revoked"}, family : Ids \cup {None},
               parent : Ids \cup {None}, device : Devices \cup {None}]
Session(state, f, parent, d) ==
    [state |-> state, family |-> f, parent |-> parent, device |-> d]

Request == [pc : {"idle", "login", "locked", "marked", "update", "evict",
                  "rotate", "claimed", "reuse", "device", "revoke", "apply", "key"},
            id : Ids \cup {None},      \* the session presented or revoked
            device : Devices \cup {None},
            victims : SUBSET Ids,      \* rows a revocation will touch
            user : BOOLEAN]            \* it then sets the user's key

Req(pc, s, d, victims, user) ==
    [pc |-> pc, id |-> s, device |-> d, victims |-> victims, user |-> user]
Idle == Req("idle", None, None, {}, FALSE)

IsDriver == role = "DRIVER"
Exists(s) == sess[s].state # "none"
Active == {s \in Ids : sess[s].state = "active"}

Init == /\ role \in {"DRIVER", "OTHER"}
        /\ status = "ACTIVE"
        /\ dev = [d \in Devices |-> "ACTIVE"]
        /\ sess = [s \in Ids |-> Session("none", None, None, None)]
        /\ nextId = 1
        /\ sessKey = {}
        /\ userKey = FALSE
        /\ req = [p \in Procs |-> Idle]

-----------------------------------------------------------------------------
(* Locks of open transactions. *)

\* SELECT id FROM users ... FOR UPDATE.
HoldsUser(p) == req[p].pc \in {"locked", "marked", "update"}
UserFree(p) == \A q \in Procs \ {p} : ~HoldsUser(q)

\* rotateSession has updated the row of the presented session.
HoldsSession(p, s) == req[p].pc = "claimed" /\ req[p].id = s
SessionsFree(p, victims) ==
    \A q \in Procs \ {p}, s \in victims : ~HoldsSession(q, s)

\* UPDATE sessions SET is_revoked = true for these rows.
RevokedRow(s) == Session("revoked", sess[s].family, sess[s].parent, sess[s].device)
Revoke(victims) ==
    [s \in Ids |-> IF s \in victims THEN RevokedRow(s) ELSE sess[s]]

Goto(p, r) == req' = [req EXCEPT ![p] = r]
Begin(p, r) == req[p].pc = "idle" /\ Goto(p, r)
Finish(p) == Goto(p, Idle)

-----------------------------------------------------------------------------
(* auth.service.ts login and session.service.ts createSession. *)

\* The account is ACTIVE and the password matches.
BeginLogin(p, d) ==
    /\ status = "ACTIVE"
    /\ Begin(p, Req("login", None, d, {}, FALSE))
    /\ UNCHANGED <<rows, keys>>

\* A driver's login locks the user row,
LoginLock(p) ==
    /\ req[p].pc = "login" /\ IsDriver
    /\ UserFree(p)
    /\ Goto(p, Req("locked", None, req[p].device, {}, FALSE))
    /\ UNCHANGED <<rows, keys>>

\* finds the active sessions and sets their Redis keys (no rollback undoes
\* that),
LoginMark(p) ==
    /\ req[p].pc = "locked"
    /\ sessKey' = sessKey \cup Active
    /\ Goto(p, Req("marked", None, req[p].device, {}, FALSE))
    /\ UNCHANGED <<rows, userKey>>

\* starts the UPDATE of the active sessions,
LoginUpdate(p) ==
    /\ req[p].pc = "marked"
    /\ Goto(p, Req("update", None, req[p].device, Active, FALSE))
    /\ UNCHANGED <<rows, keys>>

\* which waits for rotations, inserts the new session and commits.
\* Fault: the sessions found are not revoked.
LoginKeepsOld(p) == sess
LoginRevokes(p) == Revoke(req[p].victims)
LoginCommit(p) ==
    /\ req[p].pc = "update"
    /\ nextId \in Ids
    /\ SessionsFree(p, req[p].victims)
    /\ sess' = [LoginRevokes(p) EXCEPT ![nextId] =
                  Session("active", nextId, None, req[p].device)]
    /\ nextId' = nextId + 1
    /\ Finish(p)
    /\ UNCHANGED <<status, dev, keys>>

\* Other roles read the active sessions without a lock; the oldest are evicted
\* so that Limit - 1 remain.
Oldest(n, S) == {s \in S : Cardinality({t \in S : t < s}) < n}
\* Fault: off by one, Limit sessions remain.
ToEvictTooFew == IF Cardinality(Active) >= Limit
                   THEN Oldest(Cardinality(Active) - Limit, Active) ELSE {}
ToEvict == IF Cardinality(Active) >= Limit
             THEN Oldest(Cardinality(Active) - (Limit - 1), Active) ELSE {}
LoginRead(p) ==
    /\ req[p].pc = "login" /\ ~IsDriver
    /\ Goto(p, Req("evict", None, req[p].device, ToEvict, FALSE))
    /\ UNCHANGED <<rows, keys>>

\* One victim at a time: its row, then its Redis key.
Evict(p, s) ==
    /\ req[p].pc = "evict" /\ s \in req[p].victims
    /\ SessionsFree(p, {s})
    /\ sess' = Revoke({s})
    /\ sessKey' = sessKey \cup {s}
    /\ Goto(p, Req("evict", None, req[p].device, req[p].victims \ {s}, FALSE))
    /\ UNCHANGED <<status, dev, nextId, userKey>>

LoginCreate(p) ==
    /\ req[p].pc = "evict" /\ req[p].victims = {}
    /\ nextId \in Ids
    /\ UserFree(p)
    /\ sess' = [sess EXCEPT ![nextId] = Session("active", nextId, None, req[p].device)]
    /\ nextId' = nextId + 1
    /\ Finish(p)
    /\ UNCHANGED <<status, dev, keys>>

-----------------------------------------------------------------------------
(* auth.service.ts refresh and session.service.ts rotateSession. *)

\* The token presented is that of a session.
\* Fault: the session looked up is not checked.
KnownUnchecked(s) == TRUE
Known(s) == Exists(s)

\* A client presents the refresh token of session s, current or old; after 7
\* days without a refresh it has expired, which counts as a reuse.
BeginRefresh(p, s) ==
    /\ Known(s)
    /\ \E expired \in BOOLEAN :
         Begin(p, Req(IF sess[s].state = "active" /\ ~expired THEN "rotate" ELSE "reuse",
                      s, None, {}, TRUE))
    /\ UNCHANGED <<rows, keys>>

\* Compare-and-set on the row; it stays locked until the commit.
\* Fault: the row is updated by its id only.
CanClaimAny(s) == TRUE
CanClaim(s) == sess[s].state = "active"
RotateClaim(p) ==
    /\ req[p].pc = "rotate"
    /\ SessionsFree(p, {req[p].id})
    /\ Goto(p, Req(IF CanClaim(req[p].id) THEN "claimed" ELSE "reuse",
                   req[p].id, None, {}, TRUE))
    /\ UNCHANGED <<rows, keys>>

RotateCommit(p) ==
    LET s == req[p].id IN
    /\ req[p].pc = "claimed"
    /\ nextId \in Ids
    /\ UserFree(p)
    /\ sess' = [Revoke({s}) EXCEPT ![nextId] =
                  Session("active", sess[s].family, s, sess[s].device)]
    /\ nextId' = nextId + 1
    /\ Finish(p)
    /\ UNCHANGED <<status, dev, keys>>

\* revokeTokenFamily: the UPDATE starts and sees the committed family.
Family(f) == {s \in Ids : Exists(s) /\ sess[s].family = f}
ReuseDetected(p) ==
    /\ req[p].pc = "reuse"
    /\ Goto(p, Req("apply", req[p].id, None, Family(sess[req[p].id].family), TRUE))
    /\ UNCHANGED <<rows, keys>>

-----------------------------------------------------------------------------
(* Revocations. *)

\* An UPDATE sessions SET is_revoked = true starts: of the user's active
\* sessions, or of those on one device.
OnDevice(d) == {s \in Active : sess[s].device = d}
StartRevocation(p) ==
    /\ req[p].pc = "revoke"
    /\ Goto(p, Req("apply", None, None,
                   IF req[p].device = None THEN Active ELSE OnDevice(req[p].device),
                   req[p].user))
    /\ UNCHANGED <<rows, keys>>

\* It has the locks it waited for, and commits.
ApplyRevocation(p) ==
    /\ req[p].pc = "apply"
    /\ SessionsFree(p, req[p].victims)
    /\ sess' = Revoke(req[p].victims)
    /\ Goto(p, Req("key", req[p].id, None, {}, req[p].user))
    /\ UNCHANGED <<status, dev, nextId, keys>>

\* Then the Redis keys are written and the event is published.
WriteKeys(p) ==
    /\ req[p].pc = "key"
    /\ sessKey' = IF req[p].id = None THEN sessKey ELSE sessKey \cup {req[p].id}
    /\ userKey' = (userKey \/ req[p].user)
    /\ Finish(p)
    /\ UNCHANGED rows

\* logoutAll, and updateUserRole (to a role with the same session policy) and
\* adminResetPassword, which first update a column of users not modelled here.
BeginRevokeAll(p) ==
    /\ Begin(p, Req("revoke", None, None, {}, TRUE))
    /\ UNCHANGED <<rows, keys>>

\* updateUserStatus to SUSPENDED or DISABLED, and back to ACTIVE.
BeginSuspend(p) ==
    /\ UserFree(p)
    /\ status' = "SUSPENDED"
    /\ Begin(p, Req("revoke", None, None, {}, TRUE))
    /\ UNCHANGED <<dev, sess, nextId, keys>>

Reactivate(p) ==
    /\ req[p].pc = "idle"
    /\ UserFree(p)
    /\ status' = "ACTIVE"
    /\ UNCHANGED <<dev, sess, nextId, keys, req>>

\* logout: revokeSession finds the session, then updates it by its id.
BeginLogout(p, s) ==
    /\ Known(s)
    /\ Begin(p, Req("apply", s, None, {s}, FALSE))
    /\ UNCHANGED <<rows, keys>>

\* revokeDevice: the device is revoked,
BeginRevokeDevice(p, d) ==
    /\ dev' = [dev EXCEPT ![d] = "REVOKED"]
    /\ Begin(p, Req("device", None, d, {}, FALSE))
    /\ UNCHANGED <<status, sess, nextId, keys>>

\* its active sessions found and their keys set; their rows are updated last.
MarkDevice(p) ==
    /\ req[p].pc = "device"
    /\ sessKey' = sessKey \cup OnDevice(req[p].device)
    /\ Goto(p, Req("revoke", None, req[p].device, {}, FALSE))
    /\ UNCHANGED <<rows, userKey>>

\* registerDevice with a known identifier.
RegisterDevice(p, d) ==
    /\ req[p].pc = "idle"
    /\ dev' = [dev EXCEPT ![d] = "ACTIVE"]
    /\ UNCHANGED <<status, sess, nextId, keys, req>>

-----------------------------------------------------------------------------
(* The environment. *)

\* The Redis keys live 15 minutes.
KeyExpires ==
    /\ \/ userKey' = FALSE /\ userKey /\ UNCHANGED sessKey
       \/ \E s \in sessKey : sessKey' = sessKey \ {s} /\ UNCHANGED userKey
    /\ UNCHANGED <<rows, req>>

\* The process dies or a statement errs: an open transaction rolls back.
Fail(p) ==
    /\ Failures
    /\ req[p].pc # "idle"
    /\ Finish(p)
    /\ UNCHANGED <<rows, keys>>

\* A rotation that holds the row of a session and needs the user row, against a
\* driver's login that holds the user row and needs the session: one is aborted.
DeadlockVictim(p) ==
    /\ \E q \in Procs \ {p} :
         \/ req[q].pc = "update" /\ \E s \in req[q].victims : HoldsSession(p, s)
         \/ req[p].pc = "update" /\ \E s \in req[p].victims : HoldsSession(q, s)
    /\ Finish(p)
    /\ UNCHANGED <<rows, keys>>

Arrive(p) ==
    \/ \E d \in Devices : BeginLogin(p, d)
    \/ \E s \in Ids : BeginRefresh(p, s)
    \/ BeginRevokeAll(p)
    \/ BeginSuspend(p)
    \/ Reactivate(p)
    \/ \E s \in Ids : BeginLogout(p, s)
    \/ \E d \in Devices : BeginRevokeDevice(p, d)
    \/ \E d \in Devices : RegisterDevice(p, d)

Proceed(p) ==
    \/ LoginLock(p)
    \/ LoginMark(p)
    \/ LoginUpdate(p)
    \/ LoginCommit(p)
    \/ LoginRead(p)
    \/ \E s \in Ids : Evict(p, s)
    \/ LoginCreate(p)
    \/ RotateClaim(p)
    \/ RotateCommit(p)
    \/ ReuseDetected(p)
    \/ MarkDevice(p)
    \/ StartRevocation(p)
    \/ ApplyRevocation(p)
    \/ WriteKeys(p)

\* The role is not changed between the two policies.
Next == /\ \/ \E p \in Procs : Arrive(p) \/ Proceed(p) \/ Fail(p) \/ DeadlockVictim(p)
           \/ KeyExpires
        /\ UNCHANGED role

Spec == Init /\ [][Next]_vars

-----------------------------------------------------------------------------
(* Properties. *)

\* The rows, keys and requests have their declared types; rows are created in
\* the order of their ids, and a request that carries a session carries one that
\* exists.
Created ==
    /\ \A s \in Ids : Exists(s) <=> s < nextId
    /\ \A s \in Ids : Exists(s) => sess[s].family \in Ids /\ sess[s].family <= s
    /\ \A p \in Procs : req[p].id # None => Exists(req[p].id)
TypeOK ==
    /\ role \in {"DRIVER", "OTHER"}
    /\ status \in {"ACTIVE", "SUSPENDED"}
    /\ dev \in [Devices -> {"ACTIVE", "REVOKED"}]
    /\ sess \in [Ids -> SessionRow]
    /\ nextId \in Nat \ {0}
    /\ sessKey \subseteq Ids
    /\ userKey \in BOOLEAN
    /\ req \in [Procs -> Request]
    /\ Created

\* A driver has at most one active session.  Only logins lock the user row:
\* a rotation that overlaps a login is kept out by the foreign key of the row
\* it inserts.
SingleActiveDriver ==
    IsDriver => \A s, t \in Active : s = t

\* A refresh token is exchanged at most once, however many requests present it.
TokenExchangedOnce ==
    \A s, t \in Ids : sess[s].parent = sess[t].parent /\ sess[s].parent # None => s = t

\* In a token family at most one session is active, and it is the newest: no
\* interleaving of rotations and revocations leaves an older token usable.
OneActivePerFamily ==
    \A s, t \in Ids :
       s \in Active /\ Exists(t) /\ sess[t].family = sess[s].family => t <= s

\* At most 5 (Limit) concurrent sessions of the roles other than DRIVER, for which
\* createSession evicts the oldest before it inserts one more.
AtMostLimit == ~IsDriver => Cardinality(Active) <= Limit
=============================================================================
