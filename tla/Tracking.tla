------------------------------ MODULE Tracking ------------------------------
(***************************************************************************)
(* GPS reports of one driver: tracking.service.ts over location_points and *)
(* idempotency_records, location-validation.service.ts with the checks of  *)
(* gps-validator.util.ts, and the latest location kept in Redis by         *)
(* tracking-cache.service.ts.                                              *)
(*                                                                         *)
(* A request is a slot p of Procs: one point, over REST or the socket, or  *)
(* a batch whose points run through the same pipeline one after the other. *)
(* Every await on the database or on Redis is a step, and may fail.  A     *)
(* place is a number on a line; time is counted in ticks.                  *)
(***************************************************************************)
EXTENDS Integers, Sequences, FiniteSets

CONSTANTS Point, RecordedAt, Place, Accurate,   \* what the phone measured;
                              \* Accurate: coordinates in range, accuracy <= 50 m
          KeyOf,              \* the idempotency key of a point, None if it has none
          Batches,            \* the batches the phone may send
          Procs, None,
          Future, Stale,      \* 5 min, 1 h
          MaxSpeed,           \* 150 km/h
          SingleWindow, BatchWindow,   \* 1 s, 60 s
          MaxTime, MaxRows,   \* bounds: the clock, rows and requests under way,
          MaxFaults           \* failed calls and crashes

ASSUME TrackingAssumption ==
    /\ RecordedAt \in [Point -> Nat] /\ Place \in [Point -> Int]
    /\ Accurate \in [Point -> BOOLEAN]
    /\ Batches \subseteq Seq(Point) \ {<<>>}   \* at least one point: ArrayMinSize(1)
    /\ None \notin Point
    /\ {Future, Stale, MaxSpeed, SingleWindow, BatchWindow, MaxTime, MaxRows,
        MaxFaults} \subseteq Nat

VARIABLES now,
          rows,        \* location_points: [id, point, status, key, endpoint]
          record,      \* idempotency_records: the id in the stored answer
          cache,       \* Redis: the point of driver:location:latest
          window,      \* Redis: when the rate limits of the endpoints end
          told,        \* ids answered for a key
          raced,       \* keys (per endpoint) looked up in vain while another request
                       \* had done so and had not recorded its answer yet
          unrecorded,  \* keys of rows whose answer could not be recorded
          setBack,     \* the cache lost its point, did not get one, or got one
                       \* for a newer one that the writer had not seen
          faults,
          req

store == <<rows, record>>
history == <<told, raced, unrecorded, setBack>>
vars == <<now, store, cache, window, history, faults, req>>

Endpoint == {"rest", "socket", "batch"}
Status == {"VALID", "ANOMALY_VELOCITY"}
Keys == {KeyOf[x] : x \in Point} \ {None}
Idle == [pc |-> "idle", endpoint |-> "rest", points |-> <<>>, at |-> 0,
         done |-> 0, status |-> "VALID", id |-> 0, seen |-> None]

Init == /\ now = 0
        /\ rows = {} /\ record = [i \in Keys \X Endpoint |-> 0]
        /\ cache = None
        /\ window = [k \in {"single", "batch"} |-> 0]
        /\ told = [i \in Keys \X Endpoint |-> {}]
        /\ raced = {} /\ unrecorded = {} /\ setBack = FALSE /\ faults = 0
        /\ req = [p \in Procs |-> Idle]

Goto(p, r) == req' = [req EXCEPT ![p] = r]
At(p, pc) == req[p].pc = pc
Current(p) == req[p].points[req[p].done + 1]
Slot(p) == <<KeyOf[Current(p)], req[p].endpoint>>
Keyed(p) == KeyOf[Current(p)] # None

Pending == {p \in Procs : req[p].pc # "idle"}
Fault == faults < MaxFaults /\ faults' = faults + 1

\* The point is stored, rejected or known: the next of the batch, or the answer.
Done(p) == IF req[p].done + 1 < Len(req[p].points)
             THEN [req[p] EXCEPT !.done = @ + 1, !.pc = "lookup"]
             ELSE Idle

-----------------------------------------------------------------------------
\* incrRateLimit: the first call of a window is admitted.  An error admits any; if
\* it came between INCR and EXPIRE, the window never ends.
Forever == MaxTime + 1
Admitted(k, length) ==
    \/ /\ window[k] <= now /\ window' = [window EXCEPT ![k] = now + length]
       /\ UNCHANGED faults
    \/ Fault /\ UNCHANGED window
    \/ Fault /\ window[k] <= now /\ window' = [window EXCEPT ![k] = Forever]

\* One point: ownership of the delivery is checked before, the rate limit later.
BeginSingle(p, x, e) ==
    /\ At(p, "idle") /\ e # "batch"
    /\ Goto(p, [Idle EXCEPT !.pc = "lookup", !.endpoint = e, !.points = <<x>>, !.at = now])
    /\ UNCHANGED <<now, store, cache, window, history, faults>>

\* A batch: one a minute.
BeginBatch(p, b) ==
    /\ At(p, "idle") /\ Admitted("batch", BatchWindow)
    /\ Goto(p, [Idle EXCEPT !.pc = "lookup", !.endpoint = "batch", !.points = b, !.at = now])
    /\ UNCHANGED <<now, store, cache, history>>

\* p has looked its key up in vain, and has not recorded its answer.
Storing(p) == req[p].pc \in {"rate", "validate", "insert", "record"} /\ Keyed(p)

\* The stored answer of the key, if there is one.
\* Fault: the key is not looked up.
KnownNever(p) == FALSE
Known(p) == Keyed(p) /\ record[Slot(p)] # 0
Races(p) == Keyed(p) /\ \E q \in Procs : Storing(q) /\ Slot(q) = Slot(p)
Lookup(p) ==
    /\ At(p, "lookup")
    /\ IF Known(p)
         THEN /\ told' = [told EXCEPT ![Slot(p)] = @ \cup {record[Slot(p)]}]
              /\ Goto(p, Done(p))
              /\ UNCHANGED raced
         ELSE /\ Goto(p, [req[p] EXCEPT !.pc = IF req[p].endpoint = "batch" THEN "validate" ELSE "rate"])
              /\ raced' = IF Races(p) THEN raced \cup {Slot(p)} ELSE raced
              /\ UNCHANGED told
    /\ UNCHANGED <<now, store, cache, window, unrecorded, setBack, faults>>

\* A point of its own: one a second, over either endpoint.
RateLimit(p) ==
    /\ At(p, "rate")
    /\ \/ Admitted("single", SingleWindow) /\ Goto(p, [req[p] EXCEPT !.pc = "validate"])
       \/ window["single"] > now /\ Goto(p, Done(p)) /\ UNCHANGED <<window, faults>>
    /\ UNCHANGED <<now, store, cache, history>>

-----------------------------------------------------------------------------
(* location-validation.service.ts *)

ClockSkewOk(x, at) == RecordedAt[x] <= at + Future /\ RecordedAt[x] >= at - Stale
Distance(x, c) == LET k == Place[x] - Place[c] IN IF k < 0 THEN -k ELSE k
TooFast(x, c) == Distance(x, c) > MaxSpeed * (RecordedAt[x] - RecordedAt[c])

\* The speed from the cached point, if the new one is later.
VelocityAnomaly(x, c) == c # None /\ RecordedAt[x] > RecordedAt[c] /\ TooFast(x, c)

\* The cache as Redis answers; an error reads as a miss.
Read(c) == \/ c = cache /\ UNCHANGED faults
           \/ c = None /\ Fault

Validate(p) ==
    LET x == Current(p) IN
    /\ At(p, "validate")
    /\ \/ /\ ~Accurate[x] \/ ~ClockSkewOk(x, req[p].at)
          /\ Goto(p, Done(p)) /\ UNCHANGED faults
       \/ /\ Accurate[x] /\ ClockSkewOk(x, req[p].at)
          /\ \E c \in {cache, None} :
               /\ Read(c)
               /\ Goto(p, [req[p] EXCEPT !.pc = "insert",
                             !.status = IF VelocityAnomaly(x, c) THEN "ANOMALY_VELOCITY" ELSE "VALID"])
    /\ UNCHANGED <<now, store, cache, window, history>>

-----------------------------------------------------------------------------
(* processTelemetry, steps 6 to 9 *)

NextId == Cardinality(rows) + 1
Insert(p) ==
    /\ At(p, "insert")
    /\ rows' = rows \cup {[id |-> NextId, point |-> Current(p), status |-> req[p].status,
                           key |-> KeyOf[Current(p)], endpoint |-> req[p].endpoint]}
    /\ Goto(p, [req[p] EXCEPT !.id = NextId, !.pc = IF Keyed(p) THEN "record" ELSE "get"])
    /\ UNCHANGED <<now, record, cache, window, history, faults>>

\* The record of a request that was faster stays; the row stays as well.
SaveRecord(p) ==
    /\ At(p, "record")
    /\ record' = IF record[Slot(p)] = 0 THEN [record EXCEPT ![Slot(p)] = req[p].id] ELSE record
    /\ told' = [told EXCEPT ![Slot(p)] = @ \cup {req[p].id}]
    /\ Goto(p, [req[p] EXCEPT !.pc = "get"])
    /\ UNCHANGED <<now, rows, cache, window, raced, unrecorded, setBack, faults>>

\* Any other error of that INSERT is swallowed too: the phone is answered, and the
\* next request with the key finds nothing.
RecordFails(p) ==
    /\ At(p, "record") /\ Fault
    /\ unrecorded' = unrecorded \cup {Slot(p)}
    /\ told' = [told EXCEPT ![Slot(p)] = @ \cup {req[p].id}]
    /\ Goto(p, [req[p] EXCEPT !.pc = "get"])
    /\ UNCHANGED <<now, store, cache, window, raced, setBack>>

\* setLatestLocation: GET, compare, SET.
CacheGet(p) ==
    /\ At(p, "get")
    /\ \E c \in {cache, None} : Read(c) /\ Goto(p, [req[p] EXCEPT !.pc = "set", !.seen = c])
    /\ UNCHANGED <<now, store, cache, window, history>>

\* Fault: the last report wins.
NewerAlways(x, c) == TRUE
Newer(x, c) == c # None => RecordedAt[x] > RecordedAt[c]
\* The SET replaces a point as new as its own that the GET did not show.
Overwrites(x, seen) == seen # cache /\ cache # None /\ RecordedAt[x] <= RecordedAt[cache]
CacheSet(p) ==
    LET x == Current(p) IN
    /\ At(p, "set")
    /\ \/ ~Newer(x, req[p].seen) /\ UNCHANGED <<cache, setBack, faults>>
       \/ /\ Newer(x, req[p].seen) /\ cache' = x
          /\ setBack' = (setBack \/ Overwrites(x, req[p].seen))
          /\ UNCHANGED faults
       \/ Newer(x, req[p].seen) /\ Fault /\ setBack' = TRUE /\ UNCHANGED cache
    /\ Goto(p, [req[p] EXCEPT !.pc = "broadcast"])
    /\ UNCHANGED <<now, store, window, told, raced, unrecorded>>

\* A VALID point goes to the monitors, after one more read; the point is done.
Broadcast(p) ==
    /\ At(p, "broadcast")
    /\ Goto(p, Done(p))
    /\ UNCHANGED <<now, store, cache, window, history, faults>>

\* A query throws.  The point is rejected, whatever was stored of it: the read of
\* the driver before the record leaves a row without record and without cache.
QueryFails(p) ==
    /\ req[p].pc \in {"lookup", "insert", "record", "broadcast"} /\ Fault
    /\ Goto(p, Done(p))
    /\ unrecorded' = IF At(p, "record") THEN unrecorded \cup {Slot(p)} ELSE unrecorded
    /\ setBack' = (setBack \/ At(p, "record"))
    /\ UNCHANGED <<now, store, cache, window, told, raced>>

-----------------------------------------------------------------------------
\* The key of the location expires, or Redis is emptied.
CacheLost ==
    /\ cache # None /\ Fault
    /\ cache' = None /\ setBack' = TRUE
    /\ UNCHANGED <<now, store, window, told, raced, unrecorded, req>>

\* p has stored the row of its point and not yet been to the cache.
Caching(p) == req[p].pc \in {"record", "get", "set"}

\* The process stops; phones send again what was not answered.
Crash ==
    /\ Pending # {} /\ Fault
    /\ unrecorded' = unrecorded \cup {Slot(p) : p \in {q \in Procs : At(q, "record")}}
    /\ setBack' = (setBack \/ \E p \in Procs : Caching(p))
    /\ req' = [p \in Procs |-> Idle]
    /\ UNCHANGED <<now, store, cache, window, told, raced>>

Tick == /\ now < MaxTime
        /\ now' = now + 1
        /\ UNCHANGED <<store, cache, window, history, faults, req>>

Load == Cardinality(rows) + Cardinality(Pending)
Arrive(p) == /\ Load < MaxRows
             /\ \/ \E x \in Point, e \in Endpoint : BeginSingle(p, x, e)
                \/ \E b \in Batches : BeginBatch(p, b)

Next == \/ \E p \in Procs : \/ Arrive(p)
                            \/ Lookup(p)
                            \/ RateLimit(p)
                            \/ Validate(p)
                            \/ Insert(p)
                            \/ SaveRecord(p)
                            \/ RecordFails(p)
                            \/ CacheGet(p)
                            \/ CacheSet(p)
                            \/ Broadcast(p)
                            \/ QueryFails(p)
        \/ CacheLost
        \/ Crash
        \/ Tick

Spec == Init /\ [][Next]_vars

-----------------------------------------------------------------------------
SlotOf(r) == <<r.key, r.endpoint>>

\* Retries of a point, overlapping or not, with failures in between.  A key has a
\* second row in location_points only if two requests missed each other between
\* lookup and record, or if the record could not be written; and every answer given
\* for a key, at first or from idempotency_records, names a row of that key and
\* endpoint.
OneRowPerKey ==
    /\ \A r, s \in rows :
         SlotOf(r) = SlotOf(s) /\ r.key # None /\ SlotOf(r) \notin raced \cup unrecorded => r = s
    /\ \A i \in Keys \X Endpoint : \A n \in told[i] : \E r \in rows : r.id = n /\ SlotOf(r) = i

\* The latest location is as new as every VALID point that has been through
\* setLatestLocation, in whatever order reports come and however they overlap,
\* until a point is lost to it: by expiry, by a failed SET or a crash before it, or
\* by a SET that lands on a newer point than the one its GET had shown.
CacheIsNewest ==
    ~setBack =>
      \A r \in rows : r.status = "VALID" =>
        \/ \E p \in Procs : Caching(p) /\ req[p].id = r.id
        \/ cache # None /\ RecordedAt[r.point] <= RecordedAt[cache]
=============================================================================
