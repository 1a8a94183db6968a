-------------------------- MODULE SessionsProofs --------------------------
(* Proofs about Sessions for any number of sessions, devices and concurrent *)
(* requests.                                                                *)
EXTENDS MCSessions, FiniteSetTheorems, TLAPS

\* The columns and keys that no other invariant depends on.
Columns == /\ role \in {"DRIVER", "OTHER"}
           /\ status \in {"ACTIVE", "SUSPENDED"}
           /\ dev \in [Devices -> {"ACTIVE", "REVOKED"}]
           /\ sessKey \subseteq Ids
           /\ userKey \in BOOLEAN

\* The sessions table on its own: an exchanged token is revoked, which is why
\* it is not exchanged again.
ParentRevoked == \A s \in Ids : sess[s].parent # None =>
                    /\ sess[s].parent \in Ids
                    /\ sess[sess[s].parent].state = "revoked"
                    /\ Exists(s)
RowsOK == /\ sess \in [Ids -> SessionRow]
          /\ nextId \in Nat \ {0}
          /\ \A s \in Ids : Exists(s) <=> s < nextId
          /\ \A s \in Ids : Exists(s) => sess[s].family \in Ids /\ sess[s].family <= s
          /\ ParentRevoked
          /\ TokenExchangedOnce
          /\ OneActivePerFamily

\* A request agrees with the table: what it has claimed is still active, and a
\* login that updates the sessions has seen every active one.
Fits(r) == /\ r \in Request
           /\ r.id # None => Exists(r.id)
           /\ r.pc \in {"rotate", "claimed", "reuse"} => r.id \in Ids
           /\ r.pc = "claimed" => sess[r.id].state = "active"
           /\ \A s \in r.victims : Exists(s)
           /\ r.pc \in {"locked", "marked", "update"} => IsDriver
           /\ r.pc = "evict" => ~IsDriver
           /\ r.pc = "update" => Active \subseteq r.victims
RequestsFit == /\ req \in [Procs -> Request]
               /\ \A p \in Procs : Fits(req[p])

\* Row locks exclude each other.
LocksExclude ==
    /\ \A p, q \in Procs : HoldsUser(p) /\ HoldsUser(q) => p = q
    /\ \A p, q \in Procs, s \in Ids : HoldsSession(p, s) /\ HoldsSession(q, s) => p = q

IInv == Columns /\ RowsOK /\ RequestsFit /\ LocksExclude /\ SingleActiveDriver

-----------------------------------------------------------------------------
(* The table under its three kinds of writes. *)

\* A step that leaves the table alone keeps it in order.
LEMMA RowsSame == ASSUME RowsOK, sess' = sess, nextId' = nextId PROVE RowsOK'
BY DEF RowsOK, Exists, ParentRevoked, TokenExchangedOnce, OneActivePerFamily, Active

\* Revoking rows that exist.
LEMMA RowsRevoke ==
    ASSUME RowsOK, NEW V, \A s \in V : Exists(s), sess' = Revoke(V), nextId' = nextId
    PROVE  /\ RowsOK'
           /\ Active' = Active \ V
           /\ \A s \in Ids : Exists(s)' <=> Exists(s)
           /\ \A s \in Ids \ V : sess'[s] = sess[s]
<1>1. \A s \in Ids : sess'[s] = IF s \in V THEN RevokedRow(s) ELSE sess[s]
  BY DEF Revoke
<1>2. \A s \in Ids : /\ RevokedRow(s) \in SessionRow
                     /\ RevokedRow(s).state = "revoked"
                     /\ RevokedRow(s).family = sess[s].family
                     /\ RevokedRow(s).parent = sess[s].parent
  BY DEF RowsOK, RevokedRow, Session, SessionRow
<1>3. \A s \in Ids : /\ sess'[s].family = sess[s].family
                     /\ sess'[s].parent = sess[s].parent
                     /\ sess'[s].state = IF s \in V THEN "revoked" ELSE sess[s].state
  BY <1>1, <1>2
<1>4. sess' \in [Ids -> SessionRow]
  BY <1>1, <1>2 DEF Revoke, RowsOK
<1>5. \A s \in Ids : Exists(s)' <=> Exists(s)
  BY <1>3 DEF Exists
<1>6. Active' = Active \ V
  BY <1>3 DEF Active
<1>7. ParentRevoked'
  BY <1>3, <1>5 DEF ParentRevoked, RowsOK
<1>8. TokenExchangedOnce'
  BY <1>3 DEF TokenExchangedOnce, RowsOK
<1>9. OneActivePerFamily'
  BY <1>3, <1>5, <1>6 DEF OneActivePerFamily, RowsOK
<1> QED BY <1>1, <1>3, <1>4, <1>5, <1>6, <1>7, <1>8, <1>9 DEF RowsOK

\* Revoking rows and inserting a new one: of a family of its own, or as the
\* child of an active session that is among those revoked.
LEMMA RowsInsert ==
    ASSUME RowsOK, NEW V, NEW f \in Ids, NEW parent \in Ids \cup {None},
           NEW d \in Devices \cup {None}, nextId \in Ids,
           \A s \in V : Exists(s),
           \/ f = nextId /\ parent = None
           \/ /\ parent \in V /\ parent \in Active
              /\ f = sess[parent].family,
           sess' = [Revoke(V) EXCEPT ![nextId] = Session("active", f, parent, d)],
           nextId' = nextId + 1
    PROVE  /\ RowsOK'
           /\ Active' = (Active \ V) \cup {nextId}
           /\ \A s \in Ids : Exists(s) => Exists(s)'
           /\ \A s \in Ids \ V : s # nextId => sess'[s] = sess[s]
<1>1. nextId \notin V /\ ~Exists(nextId) /\ nextId \notin Active
  BY IdsAssumption DEF RowsOK, Exists, Active
<1>2. \A s \in Ids : sess'[s] = IF s = nextId THEN Session("active", f, parent, d)
                                ELSE IF s \in V THEN RevokedRow(s) ELSE sess[s]
  BY DEF Revoke
<1>3. \A s \in Ids : /\ RevokedRow(s) \in SessionRow
                     /\ RevokedRow(s).state = "revoked"
                     /\ RevokedRow(s).family = sess[s].family
                     /\ RevokedRow(s).parent = sess[s].parent
  BY DEF RowsOK, RevokedRow, Session, SessionRow
<1>4. /\ Session("active", f, parent, d) \in SessionRow
      /\ sess'[nextId].state = "active"
      /\ sess'[nextId].family = f
      /\ sess'[nextId].parent = parent
  BY <1>2 DEF Session, SessionRow
<1>5. \A s \in Ids : s # nextId => 
                     /\ sess'[s].family = sess[s].family
                     /\ sess'[s].parent = sess[s].parent
                     /\ sess'[s].state = IF s \in V THEN "revoked" ELSE sess[s].state
  BY <1>2, <1>3
<1>6. sess' \in [Ids -> SessionRow]
  <2>1. Revoke(V) \in [Ids -> SessionRow]
    BY <1>3 DEF Revoke, RowsOK
  <2> QED BY <1>4, <2>1
<1>7. \A s \in Ids : Exists(s)' <=> (Exists(s) \/ s = nextId)
  BY <1>4, <1>5 DEF Exists
<1>8. \A s \in Ids : Exists(s)' <=> s < nextId'
  BY <1>7, IdsAssumption DEF RowsOK
<1>9. Active' = (Active \ V) \cup {nextId}
  BY <1>1, <1>4, <1>5 DEF Active
<1>10. f <= nextId /\ (parent # None => parent # nextId)
  BY <1>1, IdsAssumption, SessionNoneAssumption DEF RowsOK, Exists, Active
<1>11. \A s \in Ids : Exists(s)' => sess'[s].family \in Ids /\ sess'[s].family <= s
  BY <1>4, <1>5, <1>7, <1>10 DEF RowsOK
<1>12. parent # None => parent \in Ids /\ sess'[parent].state = "revoked"
  BY <1>1, <1>5, SessionNoneAssumption DEF Active
<1>13. ParentRevoked'
  <2> SUFFICES ASSUME NEW s \in Ids, sess'[s].parent # None
               PROVE  /\ sess'[s].parent \in Ids
                      /\ sess'[sess'[s].parent].state = "revoked"
                      /\ Exists(s)'
    BY DEF ParentRevoked
  <2>1. CASE s = nextId
    BY <1>4, <1>7, <1>12, <2>1
  <2>2. CASE s # nextId
    <3>1. sess'[s].parent = sess[s].parent
      BY <1>5, <2>2
    <3>2. PICK q \in Ids : q = sess[s].parent /\ sess[q].state = "revoked" /\ Exists(s)
      BY <3>1 DEF RowsOK, ParentRevoked
    <3>3. q # nextId
      BY <1>1, <3>2 DEF Exists
    <3>4. sess'[q].state = "revoked"
      BY <1>5, <3>2, <3>3
    <3> QED BY <1>7, <3>1, <3>2, <3>4
  <2> QED BY <2>1, <2>2
<1>14. \A s \in Ids : sess[s].parent # None => sess[s].parent # parent
  <2> SUFFICES ASSUME NEW s \in Ids, sess[s].parent # None, sess[s].parent = parent
               PROVE  FALSE
    OBVIOUS
  <2>1. sess[parent].state = "revoked" /\ parent \in Active
    BY DEF RowsOK, ParentRevoked
  <2> QED BY <2>1 DEF Active
<1>15. TokenExchangedOnce'
  BY <1>4, <1>5, <1>14 DEF TokenExchangedOnce, RowsOK
<1>16. OneActivePerFamily'
  <2> SUFFICES ASSUME NEW s \in Ids, NEW t \in Ids, s \in Active', Exists(t)',
                      sess'[t].family = sess'[s].family
               PROVE  t <= s
    BY DEF OneActivePerFamily
  <2>1. CASE s = nextId
    BY <1>8, <2>1, IdsAssumption DEF RowsOK
  <2>2. CASE s # nextId /\ t # nextId
    BY <1>5, <1>7, <1>9, <2>2 DEF RowsOK, OneActivePerFamily
  <2>3. CASE s # nextId /\ t = nextId
    <3>1. s \in Active /\ s \notin V /\ sess[s].family = f /\ s < nextId
      BY <1>4, <1>5, <1>9, <2>3 DEF Active, RowsOK, Exists
    <3>2. CASE f = nextId /\ parent = None
      BY <3>1, <3>2, IdsAssumption DEF RowsOK, Exists, Active
    <3>3. CASE parent \in V /\ parent \in Active /\ f = sess[parent].family
      <4>1. parent <= s /\ s <= parent
        BY <3>1, <3>3 DEF RowsOK, OneActivePerFamily, Exists, Active
      <4> QED BY <3>1, <3>3, <4>1, IdsAssumption DEF Active
    <3> QED BY <3>2, <3>3
  <2> QED BY <2>1, <2>2, <2>3
<1> QED BY <1>2, <1>6, <1>7, <1>8, <1>9, <1>11, <1>13, <1>15, <1>16 DEF RowsOK

-----------------------------------------------------------------------------
(* The requests when the request of p becomes r. *)

\* What p does to the table respects the locks of the others.
Respects(p) ==
    /\ \A s \in Ids : Exists(s) => Exists(s)'
    /\ \A q \in Procs \ {p}, s \in Ids : HoldsSession(q, s) => sess'[s] = sess[s]
    /\ (\E q \in Procs \ {p} : HoldsUser(q)) => Active' \subseteq Active

\* A step of one request keeps what every request knows of the table, and the locks.
LEMMA RequestsKept ==
    ASSUME IInv, role' = role, NEW p \in Procs, NEW r, req' = [req EXCEPT ![p] = r],
           Respects(p), Fits(r)',
           r.pc \in {"locked", "marked", "update"} => UserFree(p),
           \A s \in Ids : r.pc = "claimed" /\ r.id = s =>
              \A q \in Procs \ {p} : ~HoldsSession(q, s)
    PROVE  RequestsFit' /\ LocksExclude'
<1>1. req' \in [Procs -> Request]
  BY DEF Fits, IInv, RequestsFit
<1>2. req'[p] = r /\ \A q \in Procs \ {p} : req'[q] = req[q]
  BY DEF IInv, RequestsFit
<1>3. ASSUME NEW q \in Procs \ {p} PROVE Fits(req[q])'
  <2>1. req'[q] = req[q] /\ Fits(req[q])
    BY <1>2 DEF IInv, RequestsFit
  <2>2. req[q].victims \subseteq Ids /\ req[q].id \in Ids \cup {None}
    BY <2>1 DEF Fits, Request
  <2>3. req[q].pc = "claimed" => sess'[req[q].id] = sess[req[q].id]
    BY <2>1 DEF Respects, HoldsSession, Fits
  <2>4. req[q].pc = "update" => Active' \subseteq Active
    BY DEF Respects, HoldsUser
  <2>5. req[q].id # None => Exists(req[q].id)'
    BY <2>1, <2>2 DEF Respects, Fits, Exists
  <2>6. \A s \in req[q].victims : Exists(s)'
    BY <2>1, <2>2 DEF Respects, Fits
  <2> QED BY <2>1, <2>2, <2>3, <2>4, <2>5, <2>6 DEF Fits, Exists, IsDriver
<1>4. RequestsFit'
  BY <1>1, <1>2, <1>3 DEF RequestsFit
<1>5. \A q \in Procs \ {p} : HoldsUser(q)' <=> HoldsUser(q)
  BY <1>2 DEF HoldsUser
<1>6. HoldsUser(p)' => \A q \in Procs \ {p} : ~HoldsUser(q)
  BY <1>2 DEF HoldsUser, UserFree
<1>7. \A q \in Procs \ {p}, s \in Ids : HoldsSession(q, s)' <=> HoldsSession(q, s)
  BY <1>2 DEF HoldsSession
<1>8. \A s \in Ids : HoldsSession(p, s)' => \A q \in Procs \ {p} : ~HoldsSession(q, s)
  BY <1>2 DEF HoldsSession
<1> QED BY <1>4, <1>5, <1>6, <1>7, <1>8 DEF LocksExclude, IInv

\* A step that only moves the request of p.
LEMMA RequestMoves ==
    ASSUME IInv, role' = role, NEW p \in Procs, NEW r, req' = [req EXCEPT ![p] = r],
           sess' = sess, nextId' = nextId, Fits(r),
           r.pc \in {"locked", "marked", "update"} => UserFree(p),
           \A s \in Ids : r.pc = "claimed" /\ r.id = s =>
              \A q \in Procs \ {p} : ~HoldsSession(q, s)
    PROVE  RowsOK' /\ RequestsFit' /\ LocksExclude' /\ SingleActiveDriver'
<1>1. RowsOK'
  BY RowsSame DEF IInv
<1>2. Respects(p) /\ Fits(r)'
  BY DEF Respects, Exists, Active, Fits, IsDriver
<1>3. RequestsFit' /\ LocksExclude'
  BY <1>2, RequestsKept
<1> QED BY <1>1, <1>3 DEF IInv, SingleActiveDriver, Active, IsDriver

\* A request that ends.
LEMMA IdleFits == Fits(Idle) /\ Idle.pc = "idle"
BY DEF Fits, Idle, Req, Request

\* A step that ends the request of p and leaves the table alone.
LEMMA RequestEnds ==
    ASSUME IInv, role' = role, NEW p \in Procs, Finish(p), sess' = sess, nextId' = nextId
    PROVE  RowsOK' /\ RequestsFit' /\ LocksExclude' /\ SingleActiveDriver'
BY RequestMoves, IdleFits DEF Finish, Goto

-----------------------------------------------------------------------------
(* The steps. *)

InvRest == RowsOK /\ RequestsFit /\ LocksExclude /\ SingleActiveDriver

\* The request that arrives carries what it has read.
LEMMA BeginMoves ==
    ASSUME IInv, role' = role, NEW p \in Procs, NEW r, Begin(p, r), sess' = sess, nextId' = nextId,
           Fits(r), r.pc \in {"login", "rotate", "reuse", "device", "revoke", "apply"}
    PROVE  InvRest'
BY RequestMoves DEF Begin, Goto, InvRest

\* Requests that arrive keep the invariant.
LEMMA StepArrive == ASSUME IInv, role' = role, NEW p \in Procs, Arrive(p) PROVE InvRest'
<1>1. ASSUME NEW d \in Devices, BeginLogin(p, d) PROVE InvRest'
  <2>1. PICK r : r = Req("login", None, d, {}, FALSE)
    OBVIOUS
  <2>2. Fits(r) /\ r.pc = "login"
    BY <2>1 DEF Fits, Req, Request
  <2> QED BY <1>1, <2>1, <2>2, BeginMoves DEF BeginLogin, rows
<1>2. ASSUME NEW s \in Ids, BeginRefresh(p, s) PROVE InvRest'
  <2>1. PICK pc \in {"rotate", "reuse"} : Begin(p, Req(pc, s, None, {}, TRUE))
    BY <1>2 DEF BeginRefresh
  <2>2. PICK r : r = Req(pc, s, None, {}, TRUE)
    OBVIOUS
  <2>3. Fits(r) /\ r.pc \in {"rotate", "reuse"}
    BY <1>2, <2>2 DEF Fits, Req, Request, BeginRefresh, Known
  <2> QED BY <1>2, <2>1, <2>2, <2>3, BeginMoves DEF BeginRefresh, rows
<1>3. CASE BeginRevokeAll(p) \/ BeginSuspend(p)
  <2>1. PICK r : r = Req("revoke", None, None, {}, TRUE)
    OBVIOUS
  <2>2. Fits(r) /\ r.pc = "revoke"
    BY <2>1 DEF Fits, Req, Request
  <2> QED BY <1>3, <2>1, <2>2, BeginMoves DEF BeginRevokeAll, BeginSuspend, rows
<1>4. ASSUME NEW s \in Ids, BeginLogout(p, s) PROVE InvRest'
  <2>1. PICK r : r = Req("apply", s, None, {s}, FALSE)
    OBVIOUS
  <2>2. Fits(r) /\ r.pc = "apply"
    BY <1>4, <2>1 DEF Fits, Req, Request, BeginLogout, Known
  <2> QED BY <1>4, <2>1, <2>2, BeginMoves DEF BeginLogout, rows
<1>5. ASSUME NEW d \in Devices, BeginRevokeDevice(p, d) PROVE InvRest'
  <2>1. PICK r : r = Req("device", None, d, {}, FALSE)
    OBVIOUS
  <2>2. Fits(r) /\ r.pc = "device"
    BY <2>1 DEF Fits, Req, Request
  <2> QED BY <1>5, <2>1, <2>2, BeginMoves DEF BeginRevokeDevice
<1>6. CASE Reactivate(p) \/ \E d \in Devices : RegisterDevice(p, d)
  <2>1. sess' = sess /\ nextId' = nextId /\ req' = req
    BY <1>6 DEF Reactivate, RegisterDevice
  <2> QED BY <2>1, RowsSame DEF InvRest, IInv, RequestsFit, Fits, Exists, Active,
             LocksExclude, HoldsUser, HoldsSession, SingleActiveDriver, IsDriver
<1> QED BY <1>1, <1>2, <1>3, <1>4, <1>5, <1>6 DEF Arrive

\* A login of another role inserts without a lock, a driver's under the lock.
LEMMA StepLogin ==
    ASSUME IInv, role' = role, NEW p \in Procs,
           \/ LoginLock(p) \/ LoginMark(p) \/ LoginUpdate(p) \/ LoginCommit(p)
           \/ LoginRead(p) \/ LoginCreate(p)
           \/ \E s \in Ids : Evict(p, s)
    PROVE  InvRest'
<1>0. /\ req[p] \in Request /\ Fits(req[p])
      /\ req[p].device \in Devices \cup {None}
      /\ req[p].victims \subseteq Ids
  BY DEF IInv, RequestsFit, Request
<1>1. CASE LoginLock(p)
  <2>1. PICK r : r = Req("locked", None, req[p].device, {}, FALSE)
    OBVIOUS
  <2>2. Fits(r) /\ r.pc = "locked"
    BY <1>0, <1>1, <2>1 DEF LoginLock, Fits, Req, Request
  <2> QED BY <1>1, <2>1, <2>2, RequestMoves DEF LoginLock, Goto, rows, InvRest
<1>2. CASE LoginMark(p)
  <2>1. PICK r : r = Req("marked", None, req[p].device, {}, FALSE)
    OBVIOUS
  <2>2. Fits(r) /\ r.pc = "marked"
    BY <1>0, <1>2, <2>1 DEF LoginMark, Fits, Req, Request
  <2>3. UserFree(p)
    BY <1>2 DEF LoginMark, UserFree, HoldsUser, IInv, LocksExclude
  <2> QED BY <1>2, <2>1, <2>2, <2>3, RequestMoves DEF LoginMark, Goto, rows, InvRest
<1>3. CASE LoginUpdate(p)
  <2>1. PICK r : r = Req("update", None, req[p].device, Active, FALSE)
    OBVIOUS
  <2>2. Fits(r) /\ r.pc = "update"
    BY <1>0, <1>3, <2>1 DEF LoginUpdate, Fits, Req, Request, Active, Exists
  <2>3. UserFree(p)
    BY <1>3 DEF LoginUpdate, UserFree, HoldsUser, IInv, LocksExclude
  <2> QED BY <1>3, <2>1, <2>2, <2>3, RequestMoves DEF LoginUpdate, Goto, rows, InvRest
<1>4. CASE LoginCommit(p)
  <2>1. PICK V : V = req[p].victims
    OBVIOUS
  <2>2. PICK d \in Devices \cup {None} : d = req[p].device
    BY <1>0
  <2>3. /\ nextId \in Ids /\ nextId' = nextId + 1
        /\ sess' = [Revoke(V) EXCEPT ![nextId] = Session("active", nextId, None, d)]
        /\ Active \subseteq V
        /\ \A s \in V : Exists(s)
    BY <1>0, <1>4, <2>1, <2>2 DEF LoginCommit, LoginRevokes, Fits
  <2>4. PICK f \in Ids : f = nextId
    BY <2>3
  <2>5. /\ RowsOK'
        /\ Active' = (Active \ V) \cup {nextId}
        /\ \A s \in Ids : Exists(s) => Exists(s)'
        /\ \A s \in Ids \ V : s # nextId => sess'[s] = sess[s]
    BY <2>3, <2>4, RowsInsert DEF IInv
  <2>6. SingleActiveDriver'
    BY <2>3, <2>5 DEF SingleActiveDriver
  <2>7. \A q \in Procs \ {p} : ~HoldsUser(q)
    BY <1>4 DEF LoginCommit, HoldsUser, IInv, LocksExclude
  <2>8. \A q \in Procs \ {p}, s \in Ids : HoldsSession(q, s) => s \notin V /\ s \in Active
    BY <1>4, <2>1 DEF LoginCommit, SessionsFree, HoldsSession, IInv, RequestsFit, Fits, Active
  <2>9. Respects(p)
    BY <2>3, <2>5, <2>7, <2>8 DEF Respects
  <2>10. Fits(Idle)'
    BY DEF Fits, Idle, Req, Request
  <2>11. RequestsFit' /\ LocksExclude'
    BY <1>4, <2>9, <2>10, IdleFits, RequestsKept DEF LoginCommit, Finish, Goto
  <2> QED BY <2>5, <2>6, <2>11 DEF InvRest
<1>5. CASE LoginRead(p)
  <2>1. PICK r : r = Req("evict", None, req[p].device, ToEvict, FALSE)
    OBVIOUS
  <2>2. ToEvict \subseteq Active
    BY DEF ToEvict, Oldest
  <2>3. Fits(r) /\ r.pc = "evict"
    BY <1>0, <1>5, <2>1, <2>2 DEF LoginRead, Fits, Req, Request, Active, Exists
  <2> QED BY <1>5, <2>1, <2>3, RequestMoves DEF LoginRead, Goto, rows, InvRest
<1>6. CASE LoginCreate(p)
  <2>1. PICK V : V = {}
    OBVIOUS
  <2>2. PICK d \in Devices \cup {None} : d = req[p].device
    BY <1>0
  <2>3. Revoke(V) = sess
    BY <2>1 DEF Revoke, IInv, RowsOK
  <2>4. /\ nextId \in Ids /\ nextId' = nextId + 1
        /\ sess' = [Revoke(V) EXCEPT ![nextId] = Session("active", nextId, None, d)]
        /\ ~IsDriver
    BY <1>0, <1>6, <2>2, <2>3 DEF LoginCreate, Fits
  <2>5. PICK f \in Ids : f = nextId
    BY <2>4
  <2>6. /\ RowsOK'
        /\ \A s \in Ids : Exists(s) => Exists(s)'
        /\ \A s \in Ids : s # nextId => sess'[s] = sess[s]
    BY <2>1, <2>4, <2>5, RowsInsert DEF IInv
  <2>7. ~Exists(nextId)
    BY <2>4, IdsAssumption DEF IInv, RowsOK
  <2>8. \A q \in Procs \ {p}, s \in Ids : HoldsSession(q, s) => s \in Active
    BY DEF HoldsSession, IInv, RequestsFit, Fits, Active
  <2>9. Respects(p)
    BY <1>6, <2>6, <2>7, <2>8 DEF Respects, LoginCreate, UserFree, Active, Exists
  <2>10. Fits(Idle)'
    BY DEF Fits, Idle, Req, Request
  <2>11. RequestsFit' /\ LocksExclude'
    BY <1>6, <2>9, <2>10, IdleFits, RequestsKept DEF LoginCreate, Finish, Goto
  <2> QED BY <2>4, <2>6, <2>11 DEF InvRest, SingleActiveDriver, IsDriver
<1>7. ASSUME NEW s \in Ids, Evict(p, s) PROVE InvRest'
  <2>1. PICK V : V = {s}
    OBVIOUS
  <2>2. /\ sess' = Revoke(V) /\ nextId' = nextId /\ Exists(s) /\ ~IsDriver
    BY <1>0, <1>7, <2>1 DEF Evict, Fits
  <2>3. /\ RowsOK'
        /\ Active' = Active \ V
        /\ \A t \in Ids : Exists(t)' <=> Exists(t)
        /\ \A t \in Ids \ V : sess'[t] = sess[t]
    BY <2>1, <2>2, RowsRevoke DEF IInv
  <2>4. Respects(p)
    BY <1>7, <2>1, <2>3 DEF Respects, Evict, SessionsFree
  <2>5. PICK r : r = Req("evict", None, req[p].device, req[p].victims \ {s}, FALSE)
    OBVIOUS
  <2>6. r.pc = "evict" /\ Fits(r)'
    BY <1>0, <2>2, <2>3, <2>5 DEF Fits, Req, Request, IsDriver
  <2>7. RequestsFit' /\ LocksExclude'
    BY <1>7, <2>4, <2>5, <2>6, RequestsKept DEF Evict, Goto
  <2> QED BY <2>2, <2>3, <2>7 DEF InvRest, SingleActiveDriver, IsDriver
<1> QED BY <1>1, <1>2, <1>3, <1>4, <1>5, <1>6, <1>7

\* Rotations keep the invariant.
LEMMA StepRotate ==
    ASSUME IInv, role' = role, NEW p \in Procs,
           RotateClaim(p) \/ RotateCommit(p) \/ ReuseDetected(p)
    PROVE  InvRest'
<1>0. req[p] \in Request /\ Fits(req[p])
  BY DEF IInv, RequestsFit
<1>1. CASE RotateClaim(p)
  <2>1. PICK s \in Ids : s = req[p].id
    BY <1>0, <1>1 DEF RotateClaim, Fits
  <2>2. PICK pc \in {"claimed", "reuse"} :
           /\ Goto(p, Req(pc, s, None, {}, TRUE))
           /\ pc = "claimed" => sess[s].state = "active"
    BY <1>1, <2>1 DEF RotateClaim, CanClaim
  <2>3. PICK r : r = Req(pc, s, None, {}, TRUE)
    OBVIOUS
  <2>4. Fits(r) /\ r.pc \in {"claimed", "reuse"} /\ r.id = s
    BY <1>0, <1>1, <2>1, <2>2, <2>3, SessionNoneAssumption
       DEF RotateClaim, Fits, Req, Request
  <2>5. \A q \in Procs \ {p} : ~HoldsSession(q, s)
    BY <1>1, <2>1 DEF RotateClaim, SessionsFree
  <2>6. sess' = sess /\ nextId' = nextId /\ req' = [req EXCEPT ![p] = r]
    BY <1>1, <2>2, <2>3 DEF RotateClaim, Goto, rows
  <2>7. \A t \in Ids : r.pc = "claimed" /\ r.id = t =>
           \A q \in Procs \ {p} : ~HoldsSession(q, t)
    BY <2>4, <2>5
  <2> QED BY <2>4, <2>6, <2>7, RequestMoves DEF InvRest
<1>2. CASE RotateCommit(p)
  <2>1. PICK s \in Ids : s = req[p].id
    BY <1>0, <1>2 DEF RotateCommit, Fits
  <2>2. s \in Active /\ Exists(s)
    BY <1>0, <1>2, <2>1 DEF RotateCommit, Fits, Active, Exists
  <2>3. PICK V : V = {s}
    OBVIOUS
  <2>4. PICK f \in Ids : f = sess[s].family
    BY <2>2 DEF IInv, RowsOK
  <2>5. PICK d \in Devices \cup {None} : d = sess[s].device
    BY DEF IInv, RowsOK, SessionRow
  <2>6. /\ nextId \in Ids /\ nextId' = nextId + 1
        /\ sess' = [Revoke(V) EXCEPT ![nextId] = Session("active", f, s, d)]
    BY <1>2, <2>1, <2>3, <2>4, <2>5 DEF RotateCommit
  <2>7. /\ RowsOK'
        /\ Active' = (Active \ V) \cup {nextId}
        /\ \A t \in Ids : Exists(t) => Exists(t)'
        /\ \A t \in Ids \ V : t # nextId => sess'[t] = sess[t]
    <3>1. RowsOK /\ s \in V /\ \A t \in V : Exists(t)
      BY <2>2, <2>3 DEF IInv
    <3>2. PICK parent \in Ids \cup {None} : parent = s
      OBVIOUS
    <3>3. /\ parent \in V /\ parent \in Active
          /\ f = sess[parent].family
          /\ sess' = [Revoke(V) EXCEPT ![nextId] = Session("active", f, parent, d)]
      BY <2>2, <2>4, <2>6, <3>1, <3>2
    <3> QED BY <2>6, <3>1, <3>3, RowsInsert
  <2>8. SingleActiveDriver'
    BY <2>2, <2>3, <2>7 DEF SingleActiveDriver, IInv, IsDriver
  <2>9. ~Exists(nextId)
    BY <2>6, IdsAssumption DEF IInv, RowsOK
  <2>10. \A q \in Procs \ {p}, t \in Ids : HoldsSession(q, t) => t \in Active /\ t # s
    BY <1>2, <2>1 DEF RotateCommit, HoldsSession, IInv, RequestsFit, Fits, Active, LocksExclude
  <2>11. Respects(p)
    BY <1>2, <2>3, <2>7, <2>9, <2>10 DEF Respects, RotateCommit, UserFree, Active, Exists
  <2>12. Fits(Idle)'
    BY DEF Fits, Idle, Req, Request
  <2>13. RequestsFit' /\ LocksExclude'
    BY <1>2, <2>11, <2>12, IdleFits, RequestsKept DEF RotateCommit, Finish, Goto
  <2> QED BY <2>7, <2>8, <2>13 DEF InvRest
<1>3. CASE ReuseDetected(p)
  <2>1. PICK s \in Ids : s = req[p].id
    BY <1>0, <1>3 DEF ReuseDetected, Fits
  <2>2. PICK r : r = Req("apply", s, None, Family(sess[s].family), TRUE)
    OBVIOUS
  <2>3. Fits(r) /\ r.pc = "apply"
    BY <1>0, <1>3, <2>1, <2>2, SessionNoneAssumption
       DEF ReuseDetected, Fits, Req, Request, Family
  <2> QED BY <1>3, <2>1, <2>2, <2>3, RequestMoves DEF ReuseDetected, Goto, rows, InvRest
<1> QED BY <1>1, <1>2, <1>3

\* Revocations keep the invariant.
LEMMA StepRevoke ==
    ASSUME IInv, role' = role, NEW p \in Procs,
           MarkDevice(p) \/ StartRevocation(p) \/ ApplyRevocation(p) \/ WriteKeys(p)
    PROVE  InvRest'
<1>0. /\ req[p] \in Request /\ Fits(req[p])
      /\ req[p].device \in Devices \cup {None}
      /\ req[p].victims \subseteq Ids
      /\ req[p].user \in BOOLEAN
  BY DEF IInv, RequestsFit, Request
<1>1. CASE MarkDevice(p)
  <2>1. PICK r : r = Req("revoke", None, req[p].device, {}, FALSE)
    OBVIOUS
  <2>2. Fits(r) /\ r.pc = "revoke"
    BY <1>0, <2>1 DEF Fits, Req, Request
  <2> QED BY <1>1, <2>1, <2>2, RequestMoves DEF MarkDevice, Goto, rows, InvRest
<1>2. CASE StartRevocation(p)
  <2>1. PICK V \in SUBSET Ids : /\ \A s \in V : Exists(s)
                                /\ Goto(p, Req("apply", None, None, V, req[p].user))
    <3>1. CASE req[p].device = None
      <4>1. Active \in SUBSET Ids /\ \A s \in Active : Exists(s)
        BY DEF Active, Exists
      <4> QED BY <1>2, <3>1, <4>1 DEF StartRevocation
    <3>2. CASE req[p].device # None
      <4> DEFINE V == OnDevice(req[p].device)
      <4>1. V \in SUBSET Ids /\ \A s \in V : Exists(s)
        BY DEF OnDevice, Active, Exists
      <4>2. Goto(p, Req("apply", None, None, V, req[p].user))
        BY <1>2, <3>2 DEF StartRevocation
      <4> QED BY <4>1, <4>2
    <3> QED BY <3>1, <3>2
  <2>2. PICK r : r = Req("apply", None, None, V, req[p].user)
    OBVIOUS
  <2>3. Fits(r) /\ r.pc = "apply"
    BY <1>0, <2>1, <2>2 DEF Fits, Req, Request
  <2> QED BY <1>2, <2>1, <2>2, <2>3, RequestMoves DEF StartRevocation, Goto, rows, InvRest
<1>3. CASE ApplyRevocation(p)
  <2>1. PICK V : V = req[p].victims
    OBVIOUS
  <2>2. /\ sess' = Revoke(V) /\ nextId' = nextId
        /\ \A s \in V : Exists(s)
    BY <1>0, <1>3, <2>1 DEF ApplyRevocation, Fits
  <2>3. /\ RowsOK'
        /\ Active' = Active \ V
        /\ \A s \in Ids : Exists(s)' <=> Exists(s)
        /\ \A s \in Ids \ V : sess'[s] = sess[s]
    BY <2>2, RowsRevoke DEF IInv
  <2>4. Respects(p)
    BY <1>3, <2>1, <2>3 DEF Respects, ApplyRevocation, SessionsFree
  <2>5. PICK r : r = Req("key", req[p].id, None, {}, req[p].user)
    OBVIOUS
  <2>6. r.pc = "key" /\ r.id = req[p].id /\ r.victims = {} /\ r \in Request
    BY <1>0, <2>5 DEF Req, Request
  <2>7. r.id # None => Exists(r.id)'
    BY <1>0, <2>3, <2>6 DEF Fits, Request
  <2>8. Fits(r)'
    BY <2>6, <2>7 DEF Fits
  <2>9. RequestsFit' /\ LocksExclude'
    BY <1>3, <2>4, <2>5, <2>6, <2>8, RequestsKept DEF ApplyRevocation, Goto
  <2>10. SingleActiveDriver'
    BY <2>3 DEF SingleActiveDriver, IInv, IsDriver
  <2> QED BY <2>3, <2>9, <2>10 DEF InvRest
<1>4. CASE WriteKeys(p)
  BY <1>4, RequestEnds DEF WriteKeys, rows, InvRest
<1> QED BY <1>1, <1>2, <1>3, <1>4

\* Every step keeps the types of the other columns.
LEMMA StepColumns == ASSUME IInv, [Next]_vars PROVE Columns'
<1>0. role' = role
  BY DEF Next, vars
<1> USE <1>0 DEF IInv, Columns, rows, keys
<1>1. ASSUME NEW p \in Procs, Arrive(p) PROVE Columns'
  BY <1>1 DEF Arrive, BeginLogin, BeginRefresh, BeginRevokeAll, BeginSuspend, Reactivate,
              BeginLogout, BeginRevokeDevice, RegisterDevice
<1>2. ASSUME NEW p \in Procs, Proceed(p) PROVE Columns'
  <2>1. req[p].id \in Ids \cup {None} /\ req[p].user \in BOOLEAN
    BY DEF RequestsFit, Request
  <2>2. nextId \in Nat
    BY DEF RowsOK
  <2>3. CASE WriteKeys(p)
    BY <2>1, <2>2, <2>3 DEF WriteKeys
  <2>4. CASE LoginMark(p) \/ MarkDevice(p) \/ \E s \in Ids : Evict(p, s)
    BY <2>4 DEF LoginMark, MarkDevice, Evict, Active, OnDevice
  <2>5. CASE LoginLock(p) \/ LoginUpdate(p) \/ LoginCommit(p) \/ LoginRead(p) \/ LoginCreate(p)
    BY <2>5 DEF LoginLock, LoginUpdate, LoginCommit, LoginRead, LoginCreate
  <2>6. CASE RotateClaim(p) \/ RotateCommit(p) \/ ReuseDetected(p)
    BY <2>6 DEF RotateClaim, RotateCommit, ReuseDetected
  <2>7. CASE StartRevocation(p) \/ ApplyRevocation(p)
    BY <2>7 DEF StartRevocation, ApplyRevocation
  <2> QED BY <1>2, <2>3, <2>4, <2>5, <2>6, <2>7 DEF Proceed
<1>3. ASSUME NEW p \in Procs, Fail(p) \/ DeadlockVictim(p) PROVE Columns'
  BY <1>3 DEF Fail, DeadlockVictim
<1>4. CASE KeyExpires
  BY <1>4 DEF KeyExpires
<1>5. CASE UNCHANGED vars
  BY <1>5 DEF vars
<1> QED BY <1>1, <1>2, <1>3, <1>4, <1>5 DEF Next

\* A step that leaves sessions and requests alone keeps the invariant.
LEMMA StepSame ==
    ASSUME IInv, role' = role, sess' = sess, nextId' = nextId, req' = req
    PROVE  InvRest'
BY RowsSame DEF InvRest, IInv, RequestsFit, Fits, Exists, Active, LocksExclude, HoldsUser,
   HoldsSession, SingleActiveDriver, IsDriver

\* The inductive invariant is kept by every step.
LEMMA InvStep == ASSUME IInv, [Next]_vars PROVE IInv'
<1>0. role' = role
  BY DEF Next, vars
<1>1. ASSUME NEW p \in Procs, Arrive(p) PROVE InvRest'
  BY <1>0, <1>1, StepArrive
<1>2. ASSUME NEW p \in Procs, Proceed(p) PROVE InvRest'
  BY <1>0, <1>2, StepLogin, StepRotate, StepRevoke DEF Proceed
<1>3. ASSUME NEW p \in Procs, Fail(p) \/ DeadlockVictim(p) PROVE InvRest'
  BY <1>0, <1>3, RequestEnds DEF Fail, DeadlockVictim, rows, InvRest
<1>4. ASSUME KeyExpires PROVE InvRest'
  BY <1>0, <1>4, StepSame DEF KeyExpires, rows
<1>5. ASSUME UNCHANGED vars PROVE InvRest'
  BY <1>0, <1>5, StepSame DEF vars, rows
<1>6. InvRest'
  BY <1>1, <1>2, <1>3, <1>4, <1>5 DEF Next
<1>7. Columns'
  BY StepColumns
<1> QED BY <1>6, <1>7 DEF IInv, InvRest

\* The inductive invariant holds at first: no session.
LEMMA InvInit == Init => IInv
<1> SUFFICES ASSUME Init PROVE IInv
  OBVIOUS
<1>1. \A s \in Ids : /\ sess[s] = Session("none", None, None, None)
                     /\ sess[s] \in SessionRow
                     /\ sess[s].state = "none" /\ sess[s].parent = None
  BY DEF Init, Session, SessionRow
<1>2. Active = {} /\ \A s \in Ids : ~Exists(s)
  BY <1>1 DEF Active, Exists
<1>3. sess \in [Ids -> SessionRow] /\ nextId = 1
  BY <1>1 DEF Init
<1>4. \A s \in Ids : ~(s < 1)
  BY IdsAssumption
<1>5. RowsOK
  BY <1>1, <1>2, <1>3, <1>4 DEF RowsOK, ParentRevoked, TokenExchangedOnce, OneActivePerFamily
<1>6. Idle \in Request /\ Idle.pc = "idle" /\ Idle.id = None /\ Idle.victims = {}
  BY DEF Idle, Req, Request
<1>7. RequestsFit /\ LocksExclude
  BY <1>6 DEF Init, RequestsFit, Fits, LocksExclude, HoldsUser, HoldsSession
<1>8. Columns /\ SingleActiveDriver
  BY <1>2 DEF Init, Columns, SingleActiveDriver
<1> QED BY <1>5, <1>7, <1>8 DEF IInv

\* The inductive invariant holds in every reachable state.
LEMMA Invariant == Spec => []IInv
BY InvInit, InvStep, PTL DEF Spec

-----------------------------------------------------------------------------

\* The rows, keys and requests keep their types; a request that carries a
\* session carries one that the table holds.
THEOREM SessionTypes == Spec => []TypeOK
<1>1. IInv => TypeOK
  BY DEF IInv, TypeOK, Columns, RowsOK, RequestsFit, Fits, Created
<1> QED BY <1>1, Invariant, PTL

\* Concurrent logins, rotations and revocations never leave a driver with two
\* active sessions (createSession under the lock of the user row).
THEOREM SingleDriverSession == Spec => []SingleActiveDriver
<1>1. IInv => SingleActiveDriver
  BY DEF IInv
<1> QED BY <1>1, Invariant, PTL

\* rotateSession exchanges a refresh token at most once, whatever overlaps it.
THEOREM ExchangedOnce == Spec => []TokenExchangedOnce
<1>1. IInv => TokenExchangedOnce
  BY DEF IInv, RowsOK
<1> QED BY <1>1, Invariant, PTL

\* In a token family only the newest session can be active.
THEOREM FamilyHead == Spec => []OneActivePerFamily
<1>1. IInv => OneActivePerFamily
  BY DEF IInv, RowsOK
<1> QED BY <1>1, Invariant, PTL

-----------------------------------------------------------------------------
(* The limit of the other roles when requests do not overlap               *)

\* While requests do not overlap, a login that has chosen its victims leaves fewer
\* than Limit sessions when they are gone.
OneAtATime == \A p, q \in Procs : req[p].pc # "idle" /\ req[q].pc # "idle" => p = q
RoomForOne == \A p \in Procs : req[p].pc = "evict" =>
                 Cardinality(Active \ req[p].victims) <= Limit - 1
LimitInv == alone => OneAtATime /\ (~IsDriver => Cardinality(Active) <= Limit /\ RoomForOne)

\* Without its k oldest a set has k elements fewer: the rank of an element, the number
\* of those before it, tells the remaining ones apart.
LEMMA OldestBound ==
    ASSUME NEW S \in SUBSET Nat, IsFiniteSet(S), NEW k \in Nat, k <= Cardinality(S)
    PROVE  Cardinality(S \ Oldest(k, S)) <= Cardinality(S) - k
<1> DEFINE n == Cardinality(S)
           before(s) == {t \in S : t < s}
           rank(s) == Cardinality(before(s))
           T == S \ Oldest(k, S)
           f == [s \in T |-> rank(s)]
<1>1. n \in Nat
  BY FS_CardinalityType
<1>2. ASSUME NEW s \in S PROVE IsFiniteSet(before(s)) /\ rank(s) \in Nat /\ rank(s) < n
  <2>1. before(s) \in SUBSET S /\ s \notin before(s)
    OBVIOUS
  <2>2. PICK B : B = before(s)
    OBVIOUS
  <2>3. IsFiniteSet(B) /\ Cardinality(B) <= n /\ Cardinality(B) # n
    BY <2>1, <2>2, FS_Subset
  <2>4. Cardinality(B) \in Nat
    BY <2>3, FS_CardinalityType
  <2> QED BY <1>1, <2>2, <2>3, <2>4
<1>3. ASSUME NEW s \in S, NEW t \in S, s < t PROVE rank(s) < rank(t)
  <2>1. before(s) \in SUBSET before(t) /\ s \in before(t) /\ s \notin before(s)
    <3>1. s \in Nat /\ t \in Nat /\ \A x \in S : x \in Nat
      OBVIOUS
    <3>2. \A x \in S : x < s => x < t
      BY <1>3, <3>1
    <3>3. ~(s < s)
      BY <3>1
    <3> QED BY <1>3, <3>2, <3>3
  <2>2. IsFiniteSet(before(t)) /\ rank(s) \in Nat /\ rank(t) \in Nat
    BY <1>2
  <2>3. rank(s) <= rank(t) /\ rank(s) # rank(t)
    <3>1. PICK A, B : A = before(s) /\ B = before(t)
      OBVIOUS
    <3>2. A \in SUBSET B /\ IsFiniteSet(B) /\ A # B
      BY <2>1, <2>2, <3>1
    <3>3. Cardinality(A) <= Cardinality(B) /\ Cardinality(A) # Cardinality(B)
      BY <3>2, FS_Subset
    <3> QED BY <3>1, <3>3
  <2> QED BY <2>2, <2>3
<1>4. \A s \in T : s \in S /\ rank(s) >= k
  BY <1>2 DEF Oldest
<1>5. \A s \in T : rank(s) \in k..(n - 1)
  <2> SUFFICES ASSUME NEW s \in T PROVE rank(s) \in k..(n - 1)
    OBVIOUS
  <2>1. rank(s) \in Nat /\ rank(s) < n /\ rank(s) >= k
    BY <1>2, <1>4
  <2> HIDE DEF rank, n
  <2> QED BY <1>1, <2>1
<1>6. \A s, t \in T : rank(s) = rank(t) => s = t
  <2> SUFFICES ASSUME NEW s \in T, NEW t \in T, rank(s) = rank(t) PROVE s = t
    OBVIOUS
  <2>1. s \in Nat /\ t \in Nat /\ rank(s) \in Nat /\ rank(t) \in Nat
    BY <1>2, <1>4
  <2>2. ~(s < t) /\ ~(t < s)
    <3>1. s < t => rank(s) < rank(t)
      BY <1>3, <1>4
    <3>2. t < s => rank(t) < rank(s)
      BY <1>3, <1>4
    <3> HIDE DEF rank
    <3> QED BY <2>1, <3>1, <3>2
  <2> QED BY <2>1, <2>2
<1> HIDE DEF rank, T, n
<1>7. f \in Injection(T, k..(n - 1))
  BY <1>5, <1>6 DEF Injection, IsInjective
<1> HIDE DEF f
<1>8. IsFiniteSet(k..(n - 1)) /\ Cardinality(k..(n - 1)) = IF k > n - 1 THEN 0 ELSE n - 1 - k + 1
  BY <1>1, FS_Interval
<1>9. Cardinality(T) <= Cardinality(k..(n - 1))
  BY <1>7, <1>8, FS_Injection
<1>10. k <= n
  BY DEF n
<1>11. Cardinality(k..(n - 1)) = n - k
  BY <1>1, <1>8, <1>10
<1>12. Cardinality(T) <= n - k
  BY <1>9, <1>11
<1> QED BY <1>12 DEF T, n

\* The active sessions are finitely many: they are among those created.
LEMMA ActiveFinite ==
    ASSUME IInv
    PROVE  /\ Active \in SUBSET Nat /\ IsFiniteSet(Active)
           /\ \A V : IsFiniteSet(Active \ V) /\ Cardinality(Active \ V) \in Nat
<1>1. Active \in SUBSET Nat /\ nextId \in Nat /\ \A s \in Active : s <= nextId
  <2>1. \A s \in Active : s \in Ids /\ Exists(s)
    BY DEF Active, Exists
  <2>2. nextId \in Nat /\ \A s \in Ids : Exists(s) <=> s < nextId
    BY DEF IInv, RowsOK
  <2>3. \A s \in Active : s \in Nat /\ s < nextId
    BY <2>1, <2>2, IdsAssumption
  <2> QED BY <2>2, <2>3
<1>2. IsFiniteSet(Active)
  BY <1>1, FS_BoundedSetOfNaturals
<1>3. ASSUME NEW V PROVE IsFiniteSet(Active \ V) /\ Cardinality(Active \ V) \in Nat
  <2>1. Active \ V \in SUBSET Active
    OBVIOUS
  <2>2. IsFiniteSet(Active \ V)
    BY <1>2, <2>1, FS_Subset
  <2> QED BY <2>2, FS_CardinalityType
<1> QED BY <1>1, <1>2, <1>3

\* The sessions that createSession chooses leave room for one more.
LEMMA EvictionMakesRoom ==
    ASSUME IInv PROVE Cardinality(Active \ ToEvict) <= Limit - 1
<1> DEFINE n == Cardinality(Active)
<1>1. Active \in SUBSET Nat /\ IsFiniteSet(Active) /\ n \in Nat /\ Limit \in Nat \ {0}
  BY ActiveFinite, FS_CardinalityType, PolicyAssumption
<1>2. CASE n >= Limit
  <2>1. PICK k : k = n - (Limit - 1)
    OBVIOUS
  <2>2. k \in Nat /\ k <= n /\ n - k = Limit - 1
    <3> HIDE DEF n
    <3> QED BY <1>1, <1>2, <2>1
  <2>3. Cardinality(Active \ Oldest(k, Active)) <= n - k
    BY <1>1, <2>2, OldestBound
  <2>4. ToEvict = Oldest(k, Active)
    BY <1>2, <2>1 DEF ToEvict
  <2> QED BY <2>2, <2>3, <2>4
<1>3. CASE ~(n >= Limit)
  <2>1. ToEvict = {} /\ Active \ {} = Active
    BY <1>3 DEF ToEvict
  <2>2. n <= Limit - 1
    <3> HIDE DEF n
    <3> QED BY <1>1, <1>3
  <2> QED BY <2>1, <2>2
<1> QED BY <1>2, <1>3

\* Steps that activate no session and choose no victims.
LEMMA LimitShrinks ==
    ASSUME IInv, LimitInv, role' = role, alone' => alone /\ OneAtATime',
           Active' \in SUBSET Active,
           \A q \in Procs : req'[q].pc = "evict" => req'[q] = req[q]
    PROVE  LimitInv'
<1> SUFFICES ASSUME alone', ~IsDriver' PROVE Cardinality(Active') <= Limit /\ RoomForOne'
  BY DEF LimitInv
<1>1. ~IsDriver /\ Cardinality(Active) <= Limit /\ RoomForOne
  BY DEF LimitInv, IsDriver
<1>2. IsFiniteSet(Active) /\ \A V : IsFiniteSet(Active \ V) /\ Cardinality(Active \ V) \in Nat
  BY ActiveFinite
<1>3. Limit \in Nat /\ Limit - 1 \in Int
  BY PolicyAssumption
<1>4. Cardinality(Active) \in Nat
  BY <1>2, FS_CardinalityType
<1>5. ASSUME NEW V PROVE Cardinality(Active' \ V) <= Cardinality(Active \ V) /\ Cardinality(Active' \ V) \in Nat
  <2>1. Active' \ V \in SUBSET (Active \ V)
    OBVIOUS
  <2>2. IsFiniteSet(Active' \ V) /\ Cardinality(Active' \ V) <= Cardinality(Active \ V)
    BY <1>2, <2>1, FS_Subset
  <2> QED BY <2>2, FS_CardinalityType
<1>6. Cardinality(Active') <= Limit
  <2>1. Active' \ {} = Active' /\ Active \ {} = Active
    OBVIOUS
  <2>2. Cardinality(Active') <= Cardinality(Active) /\ Cardinality(Active') \in Nat
    BY <1>5, <2>1
  <2> QED BY <1>1, <1>3, <1>4, <2>2
<1>7. RoomForOne'
  <2> SUFFICES ASSUME NEW q \in Procs, req'[q].pc = "evict"
               PROVE  Cardinality(Active' \ req'[q].victims) <= Limit - 1
    BY DEF RoomForOne
  <2>1. PICK V : V = req[q].victims /\ V = req'[q].victims
    OBVIOUS
  <2>2. Cardinality(Active \ V) <= Limit - 1 /\ Cardinality(Active \ V) \in Nat
    BY <1>1, <1>2, <2>1 DEF RoomForOne
  <2>3. Cardinality(Active' \ V) <= Limit - 1
    <3>1. PICK a, b : a = Cardinality(Active' \ V) /\ b = Cardinality(Active \ V)
      OBVIOUS
    <3>2. a <= b /\ a \in Nat
      BY <1>5, <3>1
    <3> QED BY <1>3, <2>2, <3>1, <3>2
  <2> QED BY <2>1, <2>3
<1> QED BY <1>6, <1>7

\* A request that moves on to anything but an eviction, and activates no session.
LEMMA LimitMoves ==
    ASSUME IInv, LimitInv, role' = role, alone' => alone /\ OneAtATime', NEW p \in Procs, NEW r,
           Goto(p, r), r.pc # "evict", Active' \in SUBSET Active
    PROVE  LimitInv'
<1>1. req'[p] = r /\ \A q \in Procs : q # p => req'[q] = req[q]
  BY DEF IInv, RequestsFit, Goto
<1>2. \A q \in Procs : req'[q].pc = "evict" => req'[q] = req[q]
  BY <1>1
<1> QED BY <1>2, LimitShrinks

\* The login of another role: it chooses its victims, revokes them one by one and
\* inserts its session.
LEMMA LimitLogin ==
    ASSUME IInv, LimitInv, role' = role, alone' => alone /\ OneAtATime', NEW p \in Procs,
           LoginRead(p) \/ LoginCreate(p) \/ \E s \in Ids : Evict(p, s)
    PROVE  LimitInv'
<1> SUFFICES ASSUME alone', ~IsDriver'
             PROVE  Cardinality(Active') <= Limit /\ RoomForOne'
  BY DEF LimitInv
<1>1. OneAtATime /\ OneAtATime' /\ Cardinality(Active) <= Limit /\ RoomForOne
  BY DEF LimitInv, IsDriver
<1>2. Limit \in Nat \ {0} /\ req \in [Procs -> Request]
  BY PolicyAssumption DEF IInv, RequestsFit
<1>3. IsFiniteSet(Active) /\ Cardinality(Active) \in Nat
  BY ActiveFinite, FS_CardinalityType
<1>4. CASE LoginRead(p)
  <2>1. PICK r : r = Req("evict", None, req[p].device, ToEvict, FALSE)
    OBVIOUS
  <2>2. r.pc = "evict" /\ r.victims = ToEvict
    BY <2>1 DEF Req
  <2>3. req'[p] = r
    BY <1>2, <1>4, <2>1 DEF LoginRead, Goto
  <2>4. Active' = Active
    BY <1>4 DEF LoginRead, rows, Active
  <2>5. RoomForOne'
    <3> SUFFICES ASSUME NEW q \in Procs, req'[q].pc = "evict"
                 PROVE  Cardinality(Active' \ req'[q].victims) <= Limit - 1
      BY DEF RoomForOne
    <3>1. q = p
      BY <1>1, <2>2, <2>3 DEF OneAtATime
    <3>2. req'[q].victims = ToEvict
      BY <2>2, <2>3, <3>1
    <3> QED BY <2>4, <3>2, EvictionMakesRoom
  <2> QED BY <1>1, <2>4, <2>5
<1>5. ASSUME NEW s \in Ids, Evict(p, s) PROVE Cardinality(Active') <= Limit /\ RoomForOne'
  <2>1. PICK V : V = req[p].victims
    OBVIOUS
  <2>2. PICK r : r = Req("evict", None, req[p].device, V \ {s}, FALSE)
    OBVIOUS
  <2>3. r.pc = "evict" /\ r.victims = V \ {s}
    BY <2>2 DEF Req
  <2>4. req'[p] = r /\ req[p].pc = "evict" /\ s \in V
    BY <1>2, <1>5, <2>1, <2>2 DEF Evict, Goto
  <2>5. Active' = Active \ {s}
    <3>1. PICK W : W = {s}
      OBVIOUS
    <3>2. Exists(s)
      BY <2>1, <2>4 DEF IInv, RequestsFit, Fits
    <3>3. sess' = Revoke(W) /\ nextId' = nextId /\ \A t \in W : Exists(t)
      BY <1>5, <3>1, <3>2 DEF Evict
    <3>4. Active' = Active \ W
      BY <3>3, RowsRevoke DEF IInv
    <3> QED BY <3>1, <3>4
  <2>6. Cardinality(Active') <= Limit
    <3>1. PICK A : A = Active'
      OBVIOUS
    <3>2. A \in SUBSET Active
      BY <2>5, <3>1
    <3>3. Cardinality(A) <= Cardinality(Active) /\ IsFiniteSet(A)
      BY <1>3, <3>2, FS_Subset
    <3>4. Cardinality(A) \in Nat
      BY <3>3, FS_CardinalityType
    <3> QED BY <1>1, <1>2, <1>3, <3>1, <3>3, <3>4
  <2>7. RoomForOne'
    <3> SUFFICES ASSUME NEW q \in Procs, req'[q].pc = "evict"
                 PROVE  Cardinality(Active' \ req'[q].victims) <= Limit - 1
      BY DEF RoomForOne
    <3>1. q = p
      BY <1>1, <2>3, <2>4 DEF OneAtATime
    <3>2. Active' \ req'[q].victims = Active \ V
      BY <2>3, <2>4, <2>5, <3>1
    <3>3. Cardinality(Active \ V) <= Limit - 1
      BY <1>1, <2>1, <2>4 DEF RoomForOne
    <3> QED BY <3>2, <3>3
  <2> QED BY <2>6, <2>7
<1>6. CASE LoginCreate(p)
  <2>1. req[p].pc = "evict" /\ req[p].victims = {} /\ nextId \in Ids /\ Finish(p)
    BY <1>6 DEF LoginCreate
  <2>2. \A q \in Procs : req'[q].pc # "evict"
    BY <1>1, <1>2, <2>1, IdleFits DEF OneAtATime, Finish, Goto
  <2>3. Cardinality(Active) <= Limit - 1
    <3>1. Active \ req[p].victims = Active
      BY <2>1
    <3> QED BY <1>1, <2>1, <3>1 DEF RoomForOne
  <2>4. Active' = Active \cup {nextId}
    <3>1. sess \in [Ids -> SessionRow]
      BY DEF IInv, RowsOK
    <3>2. \A t \in Ids : sess'[t].state = IF t = nextId THEN "active" ELSE sess[t].state
      BY <1>6, <3>1 DEF LoginCreate, Session
    <3> QED BY <2>1, <3>2 DEF Active
  <2>5. Cardinality(Active') <= Cardinality(Active) + 1
    <3>1. PICK A, x : A = Active /\ x = nextId
      OBVIOUS
    <3>2. Cardinality(A \cup {x}) = Cardinality(A) \/ Cardinality(A \cup {x}) = Cardinality(A) + 1
      BY <1>3, <3>1, FS_AddElement
    <3> QED BY <1>3, <2>4, <3>1, <3>2
  <2>6. Cardinality(Active') <= Limit
    <3>1. Active \cup {nextId} \in SUBSET (Active \cup {nextId}) /\ IsFiniteSet(Active \cup {nextId})
      BY <1>3, FS_AddElement
    <3>2. Cardinality(Active') \in Nat
      BY <2>4, <3>1, FS_CardinalityType
    <3> QED BY <1>2, <1>3, <2>3, <2>5, <3>2
  <2> QED BY <2>2, <2>6 DEF RoomForOne
<1> QED BY <1>4, <1>5, <1>6

\* A rotation replaces the active session that it has claimed.
LEMMA LimitRotates ==
    ASSUME IInv, LimitInv, role' = role, alone' => alone /\ OneAtATime', NEW p \in Procs, RotateCommit(p)
    PROVE  LimitInv'
<1> SUFFICES ASSUME alone', ~IsDriver'
             PROVE  Cardinality(Active') <= Limit /\ RoomForOne'
  BY DEF LimitInv
<1>1. OneAtATime /\ Cardinality(Active) <= Limit
  BY DEF LimitInv, IsDriver
<1>2. req[p].pc = "claimed" /\ nextId \in Ids /\ Finish(p) /\ req \in [Procs -> Request]
  BY DEF RotateCommit, IInv, RequestsFit
<1>3. PICK s \in Ids : s = req[p].id
  BY <1>2 DEF IInv, RequestsFit, Fits
<1>4. s \in Active
  BY <1>2, <1>3 DEF IInv, RequestsFit, Fits, Active
<1>5. Active' = (Active \ {s}) \cup {nextId}
  <2>1. sess \in [Ids -> SessionRow]
    BY DEF IInv, RowsOK
  <2>2. sess' = [Revoke({s}) EXCEPT ![nextId] = Session("active", sess[s].family, s, sess[s].device)]
    BY <1>3 DEF RotateCommit
  <2>3. \A t \in Ids : sess'[t].state = IF t = nextId THEN "active"
                                        ELSE IF t = s THEN "revoked" ELSE sess[t].state
    BY <2>1, <2>2 DEF Revoke, RevokedRow, Session
  <2> QED BY <1>2, <2>3 DEF Active
<1>6. \A q \in Procs : req'[q].pc # "evict"
  BY <1>1, <1>2, IdleFits DEF OneAtATime, Finish, Goto
<1>7. Cardinality(Active') <= Limit
  <2>1. IsFiniteSet(Active) /\ Cardinality(Active) \in Nat
    BY ActiveFinite, FS_CardinalityType
  <2>2. PICK A, B, x : A = Active /\ B = A \ {s} /\ x = nextId
    OBVIOUS
  <2>3. IsFiniteSet(B) /\ Cardinality(B) = Cardinality(A) - 1
    BY <1>4, <2>1, <2>2, FS_RemoveElement
  <2>4. Cardinality(B \cup {x}) = Cardinality(B) \/ Cardinality(B \cup {x}) = Cardinality(B) + 1
    BY <2>3, FS_AddElement
  <2>5. Limit \in Nat
    BY PolicyAssumption
  <2> QED BY <1>1, <1>5, <2>1, <2>2, <2>3, <2>4, <2>5
<1> QED BY <1>6, <1>7 DEF RoomForOne

\* Every step keeps the limit of requests that do not overlap.
LEMMA LimitStep == ASSUME IInv, LimitInv, [MCNext]_<<vars, alone>> PROVE LimitInv'
<1>1. CASE UNCHANGED <<vars, alone>>
  <2>1. UNCHANGED <<role, sess, req, alone>>
    BY <1>1 DEF vars, rows
  <2> QED BY <2>1 DEF LimitInv, OneAtATime, RoomForOne, Active, IsDriver
<1>2. CASE MCNext
  <2>1. role' = role /\ (alone' => alone /\ OneAtATime')
    BY <1>2 DEF MCNext, Next, OneAtATime
  <2>2. ASSUME sess' = sess PROVE Active' \in SUBSET Active
    BY <2>2 DEF Active
  <2>3. ASSUME NEW p \in Procs, Arrive(p) PROVE LimitInv'
    <3>1. sess' = sess
      BY <2>3 DEF Arrive, BeginLogin, BeginRefresh, BeginRevokeAll, BeginSuspend, Reactivate,
                  BeginLogout, BeginRevokeDevice, RegisterDevice, rows
    <3>2. CASE req' = req
      BY <2>1, <2>2, <3>1, <3>2, LimitShrinks
    <3>3. ASSUME NEW pc \in {"login", "rotate", "reuse", "revoke", "apply", "device"},
                 NEW s, NEW d, NEW V, NEW u, Goto(p, Req(pc, s, d, V, u))
          PROVE  LimitInv'
      <4>1. PICK r : r = Req(pc, s, d, V, u)
        OBVIOUS
      <4>2. r.pc # "evict"
        BY <4>1 DEF Req
      <4> QED BY <2>1, <2>2, <3>1, <3>3, <4>1, <4>2, LimitMoves
    <3>4. ASSUME NEW s \in Ids, BeginRefresh(p, s) PROVE LimitInv'
      BY <3>3, <3>4 DEF BeginRefresh, Begin
    <3> QED BY <2>3, <3>2, <3>3, <3>4 DEF Arrive, BeginLogin, BeginRevokeAll, BeginSuspend, Reactivate,
              BeginLogout, BeginRevokeDevice, RegisterDevice, Begin
  <2>4. ASSUME NEW p \in Procs, LoginCommit(p) PROVE LimitInv'
    <3>1. IsDriver
      BY <2>4 DEF LoginCommit, IInv, RequestsFit, Fits
    <3> QED BY <2>1, <3>1 DEF LimitInv, IsDriver
  <2>5. ASSUME NEW p \in Procs, ApplyRevocation(p) PROVE LimitInv'
    <3>1. PICK V : V = req[p].victims
      OBVIOUS
    <3>2. sess' = Revoke(V) /\ nextId' = nextId /\ \A s \in V : Exists(s)
      BY <2>5, <3>1 DEF ApplyRevocation, IInv, RequestsFit, Fits
    <3>3. Active' \in SUBSET Active
      BY <3>2, RowsRevoke DEF IInv
    <3>4. PICK r : r = Req("key", req[p].id, None, {}, req[p].user)
      OBVIOUS
    <3>5. r.pc # "evict" /\ Goto(p, r)
      BY <2>5, <3>4 DEF Req, ApplyRevocation
    <3> QED BY <2>1, <3>3, <3>5, LimitMoves
  <2>6. ASSUME NEW p \in Procs,
               \/ LoginLock(p) \/ LoginMark(p) \/ LoginUpdate(p) \/ RotateClaim(p) \/ ReuseDetected(p)
               \/ MarkDevice(p) \/ StartRevocation(p)
        PROVE  LimitInv'
    <3>1. sess' = sess
      BY <2>6 DEF LoginLock, LoginMark, LoginUpdate, RotateClaim, ReuseDetected, MarkDevice,
                  StartRevocation, rows
    <3>2. PICK pc \in {"locked", "marked", "update", "claimed", "reuse", "apply", "revoke"} :
             \E s, d, V, u : Goto(p, Req(pc, s, d, V, u))
      BY <2>6 DEF LoginLock, LoginMark, LoginUpdate, RotateClaim, ReuseDetected, MarkDevice, StartRevocation
    <3>3. PICK s, d, V, u : Goto(p, Req(pc, s, d, V, u))
      BY <3>2
    <3>4. PICK r : r = Req(pc, s, d, V, u)
      OBVIOUS
    <3>5. r.pc # "evict"
      BY <3>4 DEF Req
    <3> QED BY <2>1, <2>2, <3>1, <3>3, <3>4, <3>5, LimitMoves
  <2>7. ASSUME NEW p \in Procs, WriteKeys(p) \/ Fail(p) \/ DeadlockVictim(p) PROVE LimitInv'
    <3>1. sess' = sess /\ Goto(p, Idle) /\ Idle.pc # "evict"
      BY <2>7, IdleFits DEF WriteKeys, Fail, DeadlockVictim, Finish, rows
    <3> QED BY <2>1, <2>2, <3>1, LimitMoves
  <2>8. CASE KeyExpires
    <3>1. sess' = sess /\ req' = req
      BY <2>8 DEF KeyExpires, rows
    <3> QED BY <2>1, <2>2, <3>1, LimitShrinks
  <2>9. ASSUME NEW p \in Procs, Proceed(p) PROVE LimitInv'
    BY <2>1, <2>4, <2>5, <2>6, <2>7, <2>9, LimitLogin, LimitRotates DEF Proceed
  <2> QED BY <1>2, <2>3, <2>7, <2>8, <2>9 DEF MCNext, Next
<1> QED BY <1>1, <1>2

\* createSession evicts the oldest sessions before it inserts one: as long as
\* requests do not overlap, the other roles have at most Limit active sessions, for
\* every Limit and whatever revocations, failures and refreshes come between.
THEOREM LimitHolds == MCSpec => []LimitWhenAlone
<1>1. MCInit => IInv /\ LimitInv
  <2> SUFFICES ASSUME MCInit PROVE IInv /\ LimitInv
    OBVIOUS
  <2>1. IInv
    BY InvInit DEF MCInit
  <2>2. Active = {} /\ \A p \in Procs : req[p].pc = "idle"
    BY DEF MCInit, Init, Active, Session, Idle, Req
  <2>3. Cardinality(Active) = 0 /\ Limit \in Nat
    BY <2>2, FS_EmptySet, PolicyAssumption
  <2>4. LimitInv
    BY <2>2, <2>3 DEF LimitInv, OneAtATime, RoomForOne
  <2> QED BY <2>1, <2>4
<1>2. IInv /\ LimitInv /\ [MCNext]_<<vars, alone>> => IInv' /\ LimitInv'
  <2> SUFFICES ASSUME IInv, LimitInv, [MCNext]_<<vars, alone>> PROVE IInv' /\ LimitInv'
    OBVIOUS
  <2>1. [Next]_vars
    BY DEF MCNext
  <2>2. IInv'
    BY <2>1, InvStep
  <2> QED BY <2>2, LimitStep
<1>3. LimitInv => LimitWhenAlone
  BY DEF LimitInv, LimitWhenAlone, AtMostLimit
<1> QED BY <1>1, <1>2, <1>3, PTL DEF MCSpec
=============================================================================
