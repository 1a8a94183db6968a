------------------------------- MODULE Routes -------------------------------
(***************************************************************************)
(* Route versions of a delivery: routes-domain.service.ts over the tables  *)
(* routes, route_stops, delivery_stops.sequence and idempotency_records.   *)
(*                                                                         *)
(* A request is a slot p of Procs.  selectRoute stores an order of the     *)
(* stops as a new version; reorderStops renumbers the stops as well.  Both *)
(* read the delivery, look the idempotency key up, then run one            *)
(* transaction: lock the delivery row, insert the key, update the stops    *)
(* (reorderStops), read the highest version, write and commit.  A refused  *)
(* request changes nothing and is not a step (access, the rate limit, an   *)
(* incomplete set of stops).  Other services hold rows of stops too.       *)
(***************************************************************************)
EXTENDS Integers, Sequences, FiniteSets, FiniteSetsExt, Functions

CONSTANTS Delivery, Stop,     \* every delivery has the stops Stop
          FirstSeq,           \* the numbers createDelivery gave them
          Key, Procs, None,
          Selections, Lists,  \* what clients send: [order, source] to selectRoute,
                              \* lists of stops and numbers to reorderStops
          MaxRoutes,          \* bound: versions stored or under way
          MaxStopTx           \* bound: stops that other services hold at a time

Mode == {"MANUAL", "RECOMMENDED_2OPT"}
Item == [stop : Stop, seq : Int]
N == Cardinality(Stop)
\* createDelivery stores the numbers of the client: at least 1, no two alike.
ASSUME RoutesAssumption == /\ IsFiniteSet(Stop) /\ MaxRoutes \in Nat /\ MaxStopTx \in Nat
                           /\ FirstSeq \in [Stop -> Nat \ {0}] /\ IsInjective(FirstSeq)
                           /\ None \notin Procs \cup Key \cup Delivery
                           /\ None \notin [delivery : Delivery, version : Nat]
\* The DTOs: known modes, stops and whole numbers.
ASSUME RoutesInputAssumption == /\ Selections \subseteq [order : Seq(Stop), source : Mode]
                                /\ Lists \subseteq Seq(Item)

VARIABLES terminal,    \* the delivery is COMPLETED, CANCELLED or FAILED
          stopSeq,     \* delivery_stops.sequence
          mode,        \* deliveries.route_mode
          routes,      \* routes with their route_stops, of each delivery
          lock,        \* the transaction that holds the row of the delivery
          stopTx,      \* what a transaction of another service that holds the row
                       \* of a stop still needs
          record,      \* committed idempotency records
          answered,    \* answers given for a key, by endpoint
          failed,      \* unique constraints that made a request fail
          crashed,
          req

tables == <<terminal, stopSeq, mode, routes, record>>
history == <<answered, failed, crashed>>
vars == <<tables, lock, stopTx, history, req>>

Kind == {"select", "reorder"}
Answer == [delivery : Delivery, version : Nat]
Route == [version : Nat, stops : SUBSET Item, kind : Kind, source : Mode, key : Key \cup {None}]
\* held: how many items of the list have had their stop updated.
Request == [pc : {"idle", "lock", "key", "stops", "version", "commit", "conflict",
                  "aborted", "broadcast"},
            delivery : Delivery \cup {None}, kind : Kind, items : Seq(Item), held : Nat,
            source : Mode, key : Key \cup {None}, version : Nat]
Idle == [pc |-> "idle", delivery |-> None, kind |-> "select", items |-> <<>>, held |-> 0,
         source |-> "MANUAL", key |-> None, version |-> 0]

Init == /\ terminal = [d \in Delivery |-> FALSE]
        /\ stopSeq = [d \in Delivery |-> FirstSeq]
        /\ mode = [d \in Delivery |-> "RECOMMENDED_2OPT"]
        /\ routes = [d \in Delivery |-> {}]
        /\ lock = [d \in Delivery |-> None]
        /\ stopTx = [d \in Delivery |-> [s \in Stop |-> "none"]]
        /\ record = [i \in Key \X Kind |-> None]
        /\ answered = [i \in Key \X Kind |-> {}]
        /\ failed = {} /\ crashed = FALSE
        /\ req = [p \in Procs |-> Idle]

Goto(p, r) == req' = [req EXCEPT ![p] = r]
Locked(p) == req[p].pc \in {"key", "stops", "version", "commit"}   \* it has the delivery
RecordOf(p) == <<req[p].key, req[p].kind>>
Tell(p, a) == answered' = IF req[p].key = None THEN answered
                          ELSE [answered EXCEPT ![RecordOf(p)] = @ \cup {a}]

-----------------------------------------------------------------------------
\* validateCompleteStopSet: every stop once, the sequences 1 to N.
\* Fault: sequences that differ are enough.
ContiguousDistinct(q) == Cardinality(Range(q)) = Len(q)
Contiguous(q) == Range(q) = 1..Len(q)
CompleteStopSet(items) ==
    LET ids == [i \in DOMAIN items |-> items[i].stop] IN
    /\ Len(ids) = N /\ N > 0
    /\ Range(ids) = Stop
    /\ Contiguous([i \in DOMAIN items |-> items[i].seq])

\* The delivery is read, then the key; a key that is known is answered at once.
Begin(p, d, kind, items, source, key) ==
    /\ req[p].pc = "idle"
    /\ ~terminal[d]
    /\ IF key # None /\ record[<<key, kind>>] # None
         THEN /\ answered' = [answered EXCEPT ![<<key, kind>>] = @ \cup {record[<<key, kind>>]}]
              /\ UNCHANGED req
         ELSE /\ CompleteStopSet(items)
              /\ Goto(p, [pc |-> "lock", delivery |-> d, kind |-> kind, items |-> items,
                          held |-> 0, source |-> source, key |-> key, version |-> 0])
              /\ UNCHANGED answered
    /\ UNCHANGED <<tables, lock, stopTx, failed, crashed>>

\* selectRoute: the stops in the order of the list.
SelectRoute(p, d, order, source, key) ==
    Begin(p, d, "select", [i \in DOMAIN order |-> [stop |-> order[i], seq |-> i]], source, key)

ReorderStops(p, d, items, key) == Begin(p, d, "reorder", items, "MANUAL", key)

-----------------------------------------------------------------------------
(* The transaction *)

\* lockRouteMutation, SELECT ... FOR UPDATE.
\* Fault: the row is read without the lock.
LockFreeAlways(d) == TRUE
LockFree(d) == lock[d] = None
AfterKey(p) == IF req[p].kind = "reorder" THEN "stops" ELSE "version"
LockRouteMutation(p) ==
    LET d == req[p].delivery IN
    /\ req[p].pc = "lock" /\ LockFree(d)
    /\ lock' = [lock EXCEPT ![d] = p]
    /\ Goto(p, [req[p] EXCEPT !.pc = IF req[p].key = None THEN AfterKey(p) ELSE "key"])
    /\ UNCHANGED <<tables, stopTx, history>>

Release(p) == [lock EXCEPT ![req[p].delivery] = None]

\* INSERT of the idempotency record: it waits for a transaction that has inserted
\* the same one, and fails if that one commits.
\* Fault: the conflict is ignored.
KeyTakenNever(i) == FALSE
KeyTaken(i) == record[i] # None
HoldsKey(q, i) == req[q].pc \in {"stops", "version", "commit"} /\ RecordOf(q) = i
InsertKey(p) ==
    /\ req[p].pc = "key"
    /\ \A q \in Procs \ {p} : ~HoldsKey(q, RecordOf(p))
    /\ IF KeyTaken(RecordOf(p))
         THEN Goto(p, [req[p] EXCEPT !.pc = "conflict"]) /\ lock' = Release(p)
         ELSE Goto(p, [req[p] EXCEPT !.pc = AfterKey(p)]) /\ UNCHANGED lock
    /\ UNCHANGED <<tables, stopTx, history>>

\* The first UPDATE of a stop, in the order of the list, waits for its row; what
\* the updates leave in delivery_stops is part of Store.
NextStop(p) == req[p].items[req[p].held + 1].stop
HoldsStop(q, d, s) == /\ Locked(q) /\ req[q].delivery = d
                      /\ \E i \in 1..req[q].held : req[q].items[i].stop = s
UpdateStop(p) ==
    LET n == req[p].held + 1  d == req[p].delivery IN
    /\ req[p].pc = "stops"
    /\ stopTx[d][NextStop(p)] = "none"
    /\ \A q \in Procs \ {p} : ~HoldsStop(q, d, NextStop(p))
    /\ Goto(p, [req[p] EXCEPT !.held = n,
                              !.pc = IF n = Len(req[p].items) THEN "version" ELSE "stops"])
    /\ UNCHANGED <<tables, lock, stopTx, history>>

Versions(d) == {r.version : r \in routes[d]}
MaxVersion(d) == Max(Versions(d) \cup {0})
ReadVersion(p) ==
    /\ req[p].pc = "version"
    /\ Goto(p, [req[p] EXCEPT !.pc = "commit", !.version = MaxVersion(req[p].delivery) + 1])
    /\ UNCHANGED <<tables, lock, stopTx, history>>

\* The renumbering of reorderStops: every stop is parked at the negative of its
\* new number before the first one gets it.
\* Fault: the stops get their numbers at once.
WritesDirect(items) == items
Writes(items) == [i \in DOMAIN items |-> [items[i] EXCEPT !.seq = -@]] \o items

\* delivery_stops.sequence after the first k updates.
Numbered(f, w, k) ==
    [s \in Stop |-> LET I == {i \in 1..k : w[i].stop = s}
                    IN IF I = {} THEN f[s] ELSE w[Max(I)].seq]
Renumbers(f, w) == \A k \in DOMAIN w : IsInjective(Numbered(f, w, k))

\* The constraints of the database that the writes may violate.
UniqueErrors(p) ==
    LET d == req[p].delivery  items == req[p].items IN
    {c \in {"version", "route_stops", "stop_sequence"} :
        \/ c = "version" /\ req[p].version \in Versions(d)
        \/ c = "route_stops" /\ Cardinality({items[i].seq : i \in DOMAIN items}) < Len(items)
        \/ c = "stop_sequence" /\ req[p].kind = "reorder" /\ ~Renumbers(stopSeq[d], Writes(items))}

NewRoute(p) == [version |-> req[p].version, stops |-> Range(req[p].items),
                kind |-> req[p].kind, source |-> req[p].source, key |-> req[p].key]

Store(p) ==
    LET d == req[p].delivery  w == Writes(req[p].items) IN
    /\ stopSeq' = IF req[p].kind = "reorder"
                    THEN [stopSeq EXCEPT ![d] = Numbered(@, w, Len(w))] ELSE stopSeq
    /\ routes' = [routes EXCEPT ![d] = @ \cup {NewRoute(p)}]
    /\ mode' = [mode EXCEPT ![d] = req[p].source]
    /\ record' = IF req[p].key = None THEN record
                 ELSE [record EXCEPT ![RecordOf(p)] = [delivery |-> d, version |-> req[p].version]]
    /\ Goto(p, [req[p] EXCEPT !.pc = "broadcast"])
    /\ UNCHANGED failed

\* With a key, a unique error is first taken for a repeated request.
RollBack(p) ==
    /\ IF req[p].key = None
         THEN Goto(p, Idle) /\ failed' = failed \cup UniqueErrors(p)
         ELSE Goto(p, [req[p] EXCEPT !.pc = "conflict"]) /\ UNCHANGED failed
    /\ UNCHANGED <<stopSeq, routes, mode, record>>

Commit(p) ==
    /\ req[p].pc = "commit"
    /\ IF UniqueErrors(p) = {} THEN Store(p) ELSE RollBack(p)
    /\ lock' = Release(p)
    /\ UNCHANGED <<terminal, stopTx, answered, crashed>>

\* The transaction is rolled back from outside: its time is over (5 s, Prisma's
\* default), or PostgreSQL chose it to break a circle of waits.
Abort(p) ==
    /\ req[p].pc = "lock" \/ Locked(p)
    /\ Goto(p, IF req[p].key = None THEN Idle ELSE [req[p] EXCEPT !.pc = "aborted"])
    /\ lock' = IF Locked(p) THEN Release(p) ELSE lock
    /\ UNCHANGED <<tables, stopTx, history>>

\* isUniqueConstraintError takes every known error for a conflict of the key: the
\* stored answer of the request that was first, or the error.
Conflict(p) ==
    /\ req[p].pc \in {"conflict", "aborted"}
    /\ IF record[RecordOf(p)] # None
         THEN Tell(p, record[RecordOf(p)]) /\ UNCHANGED failed
         ELSE /\ failed' = IF req[p].pc = "conflict" THEN failed \cup {"unknown"} ELSE failed
              /\ UNCHANGED answered
    /\ Goto(p, Idle)
    /\ UNCHANGED <<tables, lock, stopTx, crashed>>

\* The event goes to the room of the delivery after the commit (so events of two
\* requests may come in either order), then the answer to the client.
BroadcastRouteUpdated(p) ==
    /\ req[p].pc = "broadcast"
    /\ Tell(p, [delivery |-> req[p].delivery, version |-> req[p].version])
    /\ Goto(p, Idle)
    /\ UNCHANGED <<tables, lock, stopTx, failed, crashed>>

-----------------------------------------------------------------------------
\* The delivery ends; its UPDATE waits for the row.
EndDelivery(d) ==
    /\ ~terminal[d] /\ lock[d] = None
    /\ terminal' = [terminal EXCEPT ![d] = TRUE]
    /\ UNCHANGED <<stopSeq, mode, routes, record, lock, stopTx, history, req>>

\* Another service takes the row of a stop: a stop update, which needs no more; or
\* submitPod and an override, which need the row of the delivery after it.
StopNeeds == {"none", "nothing", "delivery"}
HeldElsewhere == {i \in Delivery \X Stop : stopTx[i[1]][i[2]] # "none"}
TakeStop(d, s, needs) ==
    /\ stopTx[d][s] = "none" /\ Cardinality(HeldElsewhere) < MaxStopTx
    /\ \A q \in Procs : ~HoldsStop(q, d, s)
    /\ stopTx' = [stopTx EXCEPT ![d][s] = needs]
    /\ UNCHANGED <<tables, lock, history, req>>

LeaveStop(d, s) ==
    /\ stopTx[d][s] # "none" /\ (stopTx[d][s] = "delivery" => lock[d] = None)
    /\ stopTx' = [stopTx EXCEPT ![d][s] = "none"]
    /\ UNCHANGED <<tables, lock, history, req>>

\* reorderStops has the delivery and waits for the stop of a transaction that waits
\* for the delivery.  PostgreSQL rolls that one back, or reorderStops (Abort).
BreakDeadlock(p) ==
    LET d == req[p].delivery IN
    /\ req[p].pc = "stops" /\ stopTx[d][NextStop(p)] = "delivery"
    /\ stopTx' = [stopTx EXCEPT ![d][NextStop(p)] = "none"]
    /\ UNCHANGED <<tables, lock, history, req>>

\* The process stops: open transactions are rolled back, nothing is announced.
Crash ==
    /\ ~crashed /\ crashed' = TRUE
    /\ lock' = [d \in Delivery |-> None]
    /\ stopTx' = [d \in Delivery |-> [s \in Stop |-> "none"]]
    /\ req' = [p \in Procs |-> Idle]
    /\ UNCHANGED <<tables, answered, failed>>

Proceed(p) == \/ LockRouteMutation(p)
              \/ InsertKey(p)
              \/ UpdateStop(p)
              \/ ReadVersion(p)
              \/ Commit(p)
              \/ Abort(p)
              \/ Conflict(p)
              \/ BroadcastRouteUpdated(p)
              \/ BreakDeadlock(p)

UnderWay == Cardinality({p \in Procs : req[p].pc # "idle"})
          + Cardinality(UNION {{<<d, r>> : r \in routes[d]} : d \in Delivery})
Arrive(p, d) ==
    /\ UnderWay < MaxRoutes
    /\ \E key \in Key \cup {None} :
         \/ \E x \in Selections : SelectRoute(p, d, x.order, x.source, key)
         \/ \E items \in Lists : ReorderStops(p, d, items, key)

Next == \/ \E p \in Procs, d \in Delivery : Arrive(p, d)
        \/ \E p \in Procs : Proceed(p)
        \/ \E d \in Delivery : EndDelivery(d)
        \/ \E d \in Delivery, s \in Stop : \/ LeaveStop(d, s)
                                           \/ \E n \in StopNeeds \ {"none"} : TakeStop(d, s, n)
        \/ Crash

Spec == Init /\ [][Next]_vars

-----------------------------------------------------------------------------
\* The tables, the row locks and the requests have their types.
TypeOK == /\ terminal \in [Delivery -> BOOLEAN]
          /\ stopSeq \in [Delivery -> [Stop -> Int]]
          /\ mode \in [Delivery -> Mode]
          /\ routes \in [Delivery -> SUBSET Route]
          /\ lock \in [Delivery -> Procs \cup {None}]
          /\ stopTx \in [Delivery -> [Stop -> StopNeeds]]
          /\ record \in [Key \X Kind -> Answer \cup {None}]
          /\ answered \in [Key \X Kind -> SUBSET Answer]
          /\ failed \subseteq {"version", "route_stops", "stop_sequence", "unknown"}
          /\ crashed \in BOOLEAN
          /\ req \in [Procs -> Request]

\* What getCurrentRoute returns: the newest version, or the stops as numbered.
AsItems(f) == {[stop |-> s, seq |-> f[s]] : s \in Stop}
CurrentRoute(d) ==
    IF routes[d] = {} THEN AsItems(stopSeq[d])
    ELSE (CHOOSE r \in routes[d] : r.version = MaxVersion(d)).stops

EveryStopOnce(S) == Cardinality(S) = N /\ {i.stop : i \in S} = Stop
Complete(S) == EveryStopOnce(S) /\ {i.seq : i \in S} = 1..N

\* However requests interleave, are rolled back, crash and repeat: the versions of
\* a delivery are 1 to n, each visits every stop once in the places 1 to N, and
\* the current route visits every stop once.  The stops have the numbers of the
\* newest manual order, and before the first one those of createDelivery.
RoutesAreComplete ==
    \A d \in Delivery :
      /\ Versions(d) = 1..Cardinality(routes[d])
      /\ \A r \in routes[d] : Complete(r.stops)
      /\ EveryStopOnce(CurrentRoute(d))
      /\ (\A r \in routes[d] : r.kind # "reorder") => stopSeq[d] = FirstSeq
      /\ \A r \in routes[d] :
           r.kind = "reorder" /\ (\A q \in routes[d] : q.kind = "reorder" => q.version <= r.version)
             => r.stops = AsItems(stopSeq[d])

\* A key makes one route per endpoint, and everyone who sent it is told of that one.
OneRoutePerKey ==
    \A k \in Key, kind \in Kind :
      LET made == UNION {{[delivery |-> d, version |-> r.version] :
                         r \in {q \in routes[d] : q.key = k /\ q.kind = kind}} : d \in Delivery}
      IN Cardinality(made) <= 1 /\ answered[<<k, kind>>] \subseteq made

\* A request that passed the checks does not fail on a unique constraint: the lock
\* orders the versions, and parking the stops keeps the renumbering free of clashes.
NoUniqueFailure == failed = {}

\* Requests wait for the row of a delivery, for a key that another one has inserted
\* and for the rows of the stops, in whatever order their lists name them, but no
\* requests wait for each other in a circle: the row of the delivery is first.
WaitsFor(p, q) ==
    \/ req[p].pc = "lock" /\ lock[req[p].delivery] = q
    \/ req[p].pc = "key" /\ q # p /\ HoldsKey(q, RecordOf(p))
    \/ req[p].pc = "stops" /\ q # p /\ HoldsStop(q, req[p].delivery, NextStop(p))
NoCircularWait ==
    \A S \in SUBSET Procs : S # {} => \E p \in S : \A q \in S : ~WaitsFor(p, q)
=============================================================================
