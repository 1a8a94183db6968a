--------------------------- MODULE TrackingProofs ---------------------------
(***************************************************************************)
(* Proofs about Tracking.tla, for any points, batches, keys, number of     *)
(* requests, failures and clock: a key has one row unless requests raced   *)
(* or its answer was not recorded, answers are true, and the cache holds   *)
(* the newest point unless a point was lost to it.                         *)
(***************************************************************************)
EXTENDS Tracking, FiniteSetTheorems, TLAPS

Slots == Keys \X Endpoint
Request == [pc : {"idle", "lookup", "rate", "validate", "insert", "record", "get", "set", "broadcast"},
            endpoint : Endpoint, points : Seq(Point), at : Nat, done : Nat,
            status : Status, id : Nat, seen : Point \cup {None}]
Row == [id : Nat \ {0}, point : Point, status : Status, key : {KeyOf[x] : x \in Point},
        endpoint : Endpoint]

\* Rows are numbered in the order they are stored and carry the key of their point.
TypeOK == /\ now \in Nat
          /\ rows \in SUBSET Row /\ IsFiniteSet(rows)
          /\ \A r \in rows : r.id <= Cardinality(rows) /\ r.key = KeyOf[r.point]
          /\ \A r, s \in rows : r.id = s.id => r = s
          /\ record \in [Slots -> Nat]
          /\ told \in [Slots -> SUBSET Nat]
          /\ cache \in Point \cup {None}
          /\ req \in [Procs -> Request]

\* A request that runs has a current point, and after its INSERT the row of it.
RequestsFit ==
    \A p \in Procs :
      /\ req[p].pc # "idle" => req[p].done < Len(req[p].points)
      /\ At(p, "record") => Keyed(p)
      /\ Caching(p) =>
           \E r \in rows : /\ r.id = req[p].id /\ r.point = Current(p)
                           /\ r.endpoint = req[p].endpoint

\* The answer stored under a key is a row of that key and endpoint, and so is every
\* answer that was given.
RecordsAreTrue ==
    \A i \in Slots : record[i] # 0 => \E r \in rows : r.id = record[i] /\ SlotOf(r) = i
ToldAreTrue ==
    \A i \in Slots : \A n \in told[i] : \E r \in rows : r.id = n /\ SlotOf(r) = i

\* A key for which no two requests raced and no answer was lost: one request at a
\* time is between its lookup and its record, the key is not recorded then, and
\* the only row of the key, if any, is the one it is about to record.
Undisturbed(i) ==
    /\ \A p, q \in Procs : Storing(p) /\ Storing(q) /\ Slot(p) = i /\ Slot(q) = i => p = q
    /\ \A p \in Procs : Storing(p) /\ Slot(p) = i => record[i] = 0
    /\ \A r \in rows : SlotOf(r) = i =>
         \/ record[i] # 0
         \/ \E p \in Procs : At(p, "record") /\ Storing(p) /\ Slot(p) = i /\ req[p].id = r.id
    /\ \A r, s \in rows : SlotOf(r) = i /\ SlotOf(s) = i => r = s
KeysAreOrderly == \A i \in Slots : i \notin raced \cup unrecorded => Undisturbed(i)

\* The cache is as new as every row, but for the rows of requests on their way to
\* it; and as new as whatever such a request has read of it.
CacheCovers ==
    ~setBack =>
      \A r \in rows : \/ \E p \in Procs : Caching(p) /\ req[p].id = r.id
                      \/ cache # None /\ RecordedAt[r.point] <= RecordedAt[cache]
SeenIsOld ==
    ~setBack =>
      \A p \in Procs : At(p, "set") /\ req[p].seen # None =>
        cache # None /\ RecordedAt[req[p].seen] <= RecordedAt[cache]

TrackInv == /\ TypeOK /\ RequestsFit /\ RecordsAreTrue /\ ToldAreTrue
            /\ KeysAreOrderly /\ CacheCovers /\ SeenIsOld

-----------------------------------------------------------------------------
(* Facts about requests *)

\* The slot of an idle request is well typed.
LEMMA IdleType == Idle \in Request /\ Idle.pc = "idle"
BY DEF Idle, Request, Endpoint, Status

\* A request that goes elsewhere leaves the others where they are.
LEMMA GotoFacts ==
    ASSUME TypeOK, NEW p \in Procs, NEW r \in Request, Goto(p, r)
    PROVE  /\ req'[p] = r
           /\ \A q \in Procs : q # p => req'[q] = req[q]
           /\ req' \in [Procs -> Request]
BY DEF TypeOK, Goto

\* A request that runs works on one of its points; the slot of its key is in the tables.
LEMMA CurrentType ==
    ASSUME TypeOK, RequestsFit, NEW p \in Procs, req[p].pc # "idle"
    PROVE  Current(p) \in Point /\ (Keyed(p) => Slot(p) \in Slots)
<1>1. req[p] \in Request
  BY DEF TypeOK
<1>2. req[p].points \in Seq(Point) /\ req[p].done \in Nat /\ req[p].endpoint \in Endpoint
  BY <1>1 DEF Request
<1>3. req[p].done < Len(req[p].points)
  BY DEF RequestsFit
<1>4. Current(p) \in Point
  <2>1. Len(req[p].points) \in Nat
    BY <1>2
  <2>2. req[p].done + 1 \in 1..Len(req[p].points)
    BY <1>2, <1>3, <2>1
  <2> QED BY <1>2, <2>2 DEF Current
<1>5. Keyed(p) => Slot(p) \in Slots
  BY <1>2, <1>4 DEF Keyed, Slot, Slots, Keys
<1> QED BY <1>4, <1>5

\* A request that is done with a point goes to the next one or is answered.
LEMMA DoneFacts ==
    ASSUME TypeOK, NEW p \in Procs
    PROVE  /\ Done(p) \in Request
           /\ Done(p).pc \in {"lookup", "idle"}
           /\ Done(p).pc # "idle" => Done(p).done < Len(Done(p).points)
<1>1. req[p] \in Request /\ req[p].done \in Nat
  BY DEF TypeOK, Request
<1>2. CASE req[p].done + 1 < Len(req[p].points)
  <2>1. PICK n : n = req[p].done + 1
    OBVIOUS
  <2>2. PICK r : r = [req[p] EXCEPT !.done = n, !.pc = "lookup"]
    OBVIOUS
  <2>3. n \in Nat
    BY <1>1, <2>1
  <2>4. r \in Request /\ r.pc = "lookup" /\ r.done = n /\ r.points = req[p].points
    BY <1>1, <2>2, <2>3 DEF Request
  <2>5. Done(p) = r
    BY <1>2, <2>1, <2>2, Zenon DEF Done
  <2> QED BY <1>2, <2>1, <2>4, <2>5
<1>3. CASE ~(req[p].done + 1 < Len(req[p].points))
  <2>1. Done(p) = Idle
    BY <1>3, Zenon DEF Done
  <2> QED BY <2>1, IdleType
<1> QED BY <1>2, <1>3

\* A request that changes its place only works on the same point.
LEMMA SamePoint ==
    ASSUME NEW p \in Procs, req'[p].points = req[p].points, req'[p].done = req[p].done,
           req'[p].endpoint = req[p].endpoint
    PROVE  Current(p)' = Current(p) /\ Slot(p)' = Slot(p) /\ Keyed(p)' = Keyed(p)
BY DEF Current, Slot, Keyed

\* A request that a step leaves alone works on the same point.
LEMMA OtherRequest ==
    ASSUME NEW q \in Procs, req'[q] = req[q]
    PROVE  /\ Current(q)' = Current(q) /\ Slot(q)' = Slot(q) /\ Keyed(q)' = Keyed(q)
           /\ Storing(q)' = Storing(q) /\ Caching(q)' = Caching(q)
           /\ \A x : At(q, x)' = At(q, x)
BY DEF Current, Slot, Keyed, At, Storing, Caching

\* The row a request has stored is the only one with its number.
LEMMA RowOfRequest ==
    ASSUME TrackInv, NEW p \in Procs, Caching(p)
    PROVE  \E r \in rows : /\ r.id = req[p].id /\ r.point = Current(p)
                           /\ SlotOf(r) = Slot(p)
                           /\ \A s \in rows : s.id = req[p].id => s = r
<1>1. PICK r \in rows : r.id = req[p].id /\ r.point = Current(p) /\ r.endpoint = req[p].endpoint
  BY DEF TrackInv, RequestsFit
<1>2. r.key = KeyOf[Current(p)] /\ \A s \in rows : s.id = req[p].id => s = r
  BY <1>1 DEF TrackInv, TypeOK
<1> QED BY <1>1, <1>2 DEF Slot, SlotOf

-----------------------------------------------------------------------------
(* Steps of one request that store no row and leave the cache alone *)

\* The request keeps its point and its row while it has not been to the cache.
SameTask(p, r) == /\ r.points = req[p].points /\ r.done = req[p].done
                  /\ r.endpoint = req[p].endpoint /\ r.id = req[p].id
Move(p, r) ==
    /\ Goto(p, r)
    /\ UNCHANGED <<now, rows, cache>>
    /\ setBack => setBack'
    /\ r.pc # "idle" => r.done < Len(r.points)
    /\ r.pc \in {"rate", "validate", "insert", "get", "set"} => SameTask(p, r)
    /\ r.pc # "record"
    /\ r.pc \in {"get", "set"} => Caching(p)
    /\ r.pc = "set" => r.seen \in {cache, None}
    /\ Caching(p) => setBack' \/ r.pc \in {"get", "set"}

\* Such a step keeps what is said of the requests and of the cache.
LEMMA MoveKeeps ==
    ASSUME TrackInv, NEW p \in Procs, NEW r \in Request, Move(p, r),
           record' \in [Slots -> Nat], told' \in [Slots -> SUBSET Nat]
    PROVE  TypeOK' /\ RequestsFit' /\ CacheCovers' /\ SeenIsOld'
<1>1. /\ req'[p] = r
      /\ \A q \in Procs : q # p => req'[q] = req[q]
      /\ req' \in [Procs -> Request]
  BY GotoFacts DEF TrackInv, Move
<1>2. UNCHANGED <<now, rows, cache>> /\ (~setBack' => ~setBack)
  BY DEF Move
<1>3. TypeOK'
  BY <1>1, <1>2 DEF TrackInv, TypeOK
<1>4. \A q \in Procs : q # p =>
        /\ Current(q)' = Current(q) /\ Keyed(q)' = Keyed(q) /\ Caching(q)' = Caching(q)
        /\ \A x : At(q, x)' = At(q, x)
  BY <1>1, OtherRequest
<1>5. Caching(p)' <=> r.pc \in {"get", "set"}
  BY <1>1 DEF Caching, Move
<1>6. r.pc \in {"get", "set"} => Current(p)' = Current(p) /\ r.id = req[p].id /\ r.endpoint = req[p].endpoint
  BY <1>1, SamePoint DEF Move, SameTask
<1>7. RequestsFit'
  <2>1. ASSUME NEW q \in Procs, q # p
        PROVE  /\ req'[q].pc # "idle" => req'[q].done < Len(req'[q].points)
               /\ At(q, "record")' => Keyed(q)'
               /\ Caching(q)' => \E s \in rows' : /\ s.id = req'[q].id /\ s.point = Current(q)'
                                                  /\ s.endpoint = req'[q].endpoint
    BY <1>1, <1>2, <1>4, <2>1 DEF TrackInv, RequestsFit
  <2>2. /\ req'[p].pc # "idle" => req'[p].done < Len(req'[p].points)
        /\ ~At(p, "record")'
    BY <1>1 DEF At, Move
  <2>3. Caching(p)' => \E s \in rows' : /\ s.id = req'[p].id /\ s.point = Current(p)'
                                        /\ s.endpoint = req'[p].endpoint
    BY <1>1, <1>2, <1>5, <1>6 DEF TrackInv, RequestsFit, Move
  <2> QED BY <2>1, <2>2, <2>3 DEF RequestsFit
<1>8. CacheCovers'
  <2> SUFFICES ASSUME ~setBack', NEW s \in rows, ~(cache # None /\ RecordedAt[s.point] <= RecordedAt[cache])
               PROVE  \E q \in Procs : Caching(q)' /\ req'[q].id = s.id
    BY <1>2 DEF CacheCovers
  <2>1. PICK q \in Procs : Caching(q) /\ req[q].id = s.id
    BY <1>2 DEF TrackInv, CacheCovers
  <2>2. q # p => Caching(q)' /\ req'[q].id = s.id
    BY <1>1, <1>4, <2>1
  <2>3. q = p => Caching(q)' /\ req'[q].id = s.id
    BY <1>1, <1>5, <1>6, <2>1 DEF Move
  <2> QED BY <2>2, <2>3
<1>9. SeenIsOld'
  <2> SUFFICES ASSUME ~setBack', NEW q \in Procs, At(q, "set")', req'[q].seen # None
               PROVE  cache # None /\ RecordedAt[req'[q].seen] <= RecordedAt[cache]
    BY <1>2 DEF SeenIsOld
  <2>1. CASE q # p
    BY <1>1, <1>2, <1>4, <2>1 DEF TrackInv, SeenIsOld
  <2>2. CASE q = p
    <3>1. r.seen = cache /\ cache # None
      BY <1>1, <2>2 DEF At, Move
    <3>2. RecordedAt[cache] \in Nat
      BY <3>1, TrackingAssumption DEF TrackInv, TypeOK
    <3> QED BY <1>1, <2>2, <3>1, <3>2
  <2> QED BY <2>1, <2>2
<1> QED BY <1>3, <1>7, <1>8, <1>9

\* If it stores no answer, and was not waiting to record one or leaves its key among
\* the unrecorded, the keys stay orderly.
LEMMA KeysKeep ==
    ASSUME TrackInv, NEW p \in Procs, NEW r \in Request, Move(p, r), record' = record,
           raced \subseteq raced', unrecorded \subseteq unrecorded',
           r.pc \in {"rate", "validate", "insert"} => req[p].pc \in {"rate", "validate", "insert"},
           At(p, "record") => Slot(p) \in unrecorded'
    PROVE  KeysAreOrderly'
<1> SUFFICES ASSUME NEW i \in Slots, i \notin raced' \cup unrecorded' PROVE Undisturbed(i)'
  BY DEF KeysAreOrderly
<1>1. Undisturbed(i)
  BY DEF TrackInv, KeysAreOrderly
<1>2. /\ req'[p] = r
      /\ \A q \in Procs : q # p => req'[q] = req[q]
  BY GotoFacts DEF TrackInv, Move
<1>3. \A q \in Procs : q # p =>
        /\ Slot(q)' = Slot(q) /\ Storing(q)' = Storing(q) /\ req'[q].id = req[q].id
        /\ At(q, "record")' = At(q, "record")
  BY <1>2, OtherRequest
<1>4. Storing(p)' => Storing(p) /\ Slot(p)' = Slot(p)
  <2> SUFFICES ASSUME Storing(p)' PROVE Storing(p) /\ Slot(p)' = Slot(p)
    OBVIOUS
  <2>1. r.pc \in {"rate", "validate", "insert"}
    BY <1>2 DEF Storing, Move
  <2>2. Slot(p)' = Slot(p) /\ Keyed(p)' = Keyed(p)
    BY <1>2, <2>1, SamePoint DEF Move, SameTask
  <2> QED BY <2>1, <2>2 DEF Storing
<1>5. At(p, "record") => Slot(p) # i
  OBVIOUS
<1>6. rows' = rows
  BY DEF Move
<1>7. \A q \in Procs : Storing(q)' /\ Slot(q)' = i => Storing(q) /\ Slot(q) = i
  BY <1>3, <1>4
<1>8. \A q \in Procs : At(q, "record") /\ Storing(q) /\ Slot(q) = i =>
        At(q, "record")' /\ Storing(q)' /\ Slot(q)' = i /\ req'[q].id = req[q].id
  BY <1>3, <1>5
<1> QED BY <1>1, <1>6, <1>7, <1>8 DEF Undisturbed, SlotOf

-----------------------------------------------------------------------------
(* One lemma per action *)

\* What was told stays true while the rows are there.
LEMMA ToldStays ==
    ASSUME TrackInv, UNCHANGED <<rows, record, told>>
    PROVE  /\ RecordsAreTrue' /\ ToldAreTrue'
           /\ record' \in [Slots -> Nat] /\ told' \in [Slots -> SUBSET Nat]
BY DEF TrackInv, TypeOK, RecordsAreTrue, ToldAreTrue, SlotOf

\* One more answer for a key is true if it names a row of the key.
LEMMA ToldMore ==
    ASSUME TrackInv, NEW i \in Slots, NEW n \in Nat, rows' = rows,
           \E r \in rows : r.id = n /\ SlotOf(r) = i,
           told' = [told EXCEPT ![i] = @ \cup {n}]
    PROVE  ToldAreTrue' /\ told' \in [Slots -> SUBSET Nat]
<1>1. told \in [Slots -> SUBSET Nat]
  BY DEF TrackInv, TypeOK
<1>2. told' \in [Slots -> SUBSET Nat]
      /\ \A j \in Slots : told'[j] = IF j = i THEN told[j] \cup {n} ELSE told[j]
  BY <1>1
<1> QED BY <1>2 DEF TrackInv, ToldAreTrue, SlotOf

\* A new request.
LEMMA BeginKeeps ==
    ASSUME TrackInv, NEW p \in Procs, NEW b \in Seq(Point), Len(b) > 0, NEW e \in Endpoint, At(p, "idle"),
           Goto(p, [Idle EXCEPT !.pc = "lookup", !.endpoint = e, !.points = b, !.at = now]),
           UNCHANGED <<now, rows, record, cache, told, raced, unrecorded, setBack>>
    PROVE  TrackInv'
<1>1. PICK r : r = [Idle EXCEPT !.pc = "lookup", !.endpoint = e, !.points = b, !.at = now]
  OBVIOUS
<1>2. r.pc = "lookup" /\ r.points = b /\ r.done = 0
  BY <1>1 DEF Idle
<1>3. r \in Request
  <2>1. now \in Nat
    BY DEF TrackInv, TypeOK
  <2> QED BY <1>1, <2>1, IdleType DEF Request
<1>4. Goto(p, r)
  BY <1>1, Zenon
<1>5. Move(p, r) /\ ~At(p, "record")
  BY <1>2, <1>4 DEF Move, Caching, At
<1>6. TypeOK' /\ RequestsFit' /\ CacheCovers' /\ SeenIsOld'
  BY <1>3, <1>5, MoveKeeps, ToldStays
<1>7. KeysAreOrderly'
  BY <1>2, <1>3, <1>5, KeysKeep
<1> QED BY <1>6, <1>7, ToldStays DEF TrackInv

\* The lookup of a key: a stored answer is told again.  A key that is not found, and
\* that nobody else is storing, has no row: there would be a record, or someone
\* about to write it.
LEMMA LookupKeeps == ASSUME TrackInv, NEW p \in Procs, Lookup(p) PROVE TrackInv'
<1>1. At(p, "lookup") /\ UNCHANGED <<now, rows, record, cache, unrecorded, setBack>>
      /\ ~At(p, "record") /\ ~Caching(p) /\ ~Storing(p) /\ req[p].pc # "idle"
  BY DEF Lookup, store, At, Caching, Storing
<1>2. req[p] \in Request /\ req[p].done < Len(req[p].points)
  BY <1>1 DEF TrackInv, TypeOK, RequestsFit
<1>3. RecordsAreTrue' /\ record' \in [Slots -> Nat]
  BY <1>1 DEF TrackInv, TypeOK, RecordsAreTrue, SlotOf
<1>4. CASE Known(p)
  <2>1. Slot(p) \in Slots /\ record[Slot(p)] # 0 /\ record[Slot(p)] \in Nat
    BY <1>1, <1>4, CurrentType DEF Known, TrackInv, TypeOK
  <2>2. \E r \in rows : r.id = record[Slot(p)] /\ SlotOf(r) = Slot(p)
    BY <2>1 DEF TrackInv, RecordsAreTrue
  <2>3. PICK r : r = Done(p)
    OBVIOUS
  <2>4. r \in Request /\ r.pc \in {"lookup", "idle"} /\ (r.pc # "idle" => r.done < Len(r.points))
    BY <2>3, DoneFacts DEF TrackInv
  <2>5. Goto(p, r) /\ told' = [told EXCEPT ![Slot(p)] = @ \cup {record[Slot(p)]}] /\ raced' = raced
    BY <1>4, <2>3, Zenon DEF Lookup
  <2>6. ToldAreTrue' /\ told' \in [Slots -> SUBSET Nat]
    BY <1>1, <2>1, <2>2, <2>5, ToldMore
  <2>7. Move(p, r)
    BY <1>1, <2>4, <2>5 DEF Move
  <2>8. TypeOK' /\ RequestsFit' /\ CacheCovers' /\ SeenIsOld'
    BY <1>3, <2>4, <2>6, <2>7, MoveKeeps
  <2>9. KeysAreOrderly'
    BY <1>1, <2>4, <2>5, <2>7, KeysKeep
  <2> QED BY <1>3, <2>6, <2>8, <2>9 DEF TrackInv
<1>5. CASE ~Known(p)
  <2>1. PICK pc : pc = IF req[p].endpoint = "batch" THEN "validate" ELSE "rate"
    OBVIOUS
  <2>2. PICK r : r = [req[p] EXCEPT !.pc = pc]
    OBVIOUS
  <2>3. pc \in {"rate", "validate"}
    BY <2>1
  <2>4. r \in Request /\ r.pc = pc /\ SameTask(p, r)
    BY <1>2, <2>2, <2>3 DEF Request, SameTask
  <2>5. Goto(p, r) /\ told' = told /\ raced' = IF Races(p) THEN raced \cup {Slot(p)} ELSE raced
    BY <1>5, <2>1, <2>2, Zenon DEF Lookup
  <2>6. ToldAreTrue' /\ told' \in [Slots -> SUBSET Nat]
    BY <1>1, <2>5, ToldStays
  <2>7. Move(p, r)
    BY <1>1, <1>2, <2>3, <2>4, <2>5 DEF Move, SameTask
  <2>8. TypeOK' /\ RequestsFit' /\ CacheCovers' /\ SeenIsOld'
    BY <1>3, <2>4, <2>6, <2>7, MoveKeeps
  <2>9. KeysAreOrderly'
    <3> SUFFICES ASSUME NEW i \in Slots, i \notin raced' \cup unrecorded' PROVE Undisturbed(i)'
      BY DEF KeysAreOrderly
    <3>1. Undisturbed(i)
      BY <1>1, <2>5 DEF TrackInv, KeysAreOrderly
    <3>2. req'[p] = r /\ \A q \in Procs : q # p => req'[q] = req[q]
      BY <2>4, <2>5, GotoFacts DEF TrackInv
    <3>3. \A q \in Procs : q # p => /\ Storing(q)' = Storing(q) /\ Slot(q)' = Slot(q)
                                     /\ At(q, "record")' = At(q, "record") /\ req'[q].id = req[q].id
      BY <3>2, OtherRequest
    <3>4. Slot(p)' = Slot(p) /\ Keyed(p)' = Keyed(p)
      BY <2>4, <3>2, SamePoint DEF SameTask
    <3>5. ~At(p, "record")' /\ (Storing(p)' <=> Keyed(p))
      BY <2>3, <2>4, <3>2, <3>4 DEF At, Storing
    <3>6. CASE Keyed(p) /\ Slot(p) = i
      <4>1. ~Races(p) /\ record[i] = 0
        BY <1>5, <2>5, <3>6 DEF Known
      <4>2. \A q \in Procs : ~(Storing(q) /\ Slot(q) = i)
        BY <3>6, <4>1 DEF Races
      <4> QED BY <1>1, <3>1, <3>3, <3>4, <3>5, <4>1, <4>2 DEF Undisturbed, SlotOf
    <3>7. CASE ~(Keyed(p) /\ Slot(p) = i)
      <4>1. \A q \in Procs : (Storing(q)' /\ Slot(q)' = i) <=> (Storing(q) /\ Slot(q) = i)
        BY <1>1, <3>3, <3>4, <3>5, <3>7
      <4>2. \A q \in Procs : (At(q, "record")' <=> At(q, "record"))
                              /\ (At(q, "record") => req'[q].id = req[q].id)
        BY <1>1, <3>3, <3>5
      <4> QED BY <1>1, <3>1, <4>1, <4>2 DEF Undisturbed, SlotOf
    <3> QED BY <3>6, <3>7
  <2> QED BY <1>3, <2>6, <2>8, <2>9 DEF TrackInv
<1> QED BY <1>4, <1>5

\* The end of a point, with or without an error; an error before the record leaves
\* the key among the unrecorded, and the cache behind.
LEMMA EndKeeps ==
    ASSUME TrackInv, NEW p \in Procs, req[p].pc \in {"lookup", "rate", "validate", "insert", "record", "broadcast"},
           Goto(p, Done(p)), UNCHANGED <<now, rows, record, cache, told, raced>>,
           unrecorded \subseteq unrecorded', setBack => setBack',
           At(p, "record") => Slot(p) \in unrecorded' /\ setBack'
    PROVE  TrackInv'
<1>1. PICK r : r = Done(p)
  OBVIOUS
<1>2. r \in Request /\ r.pc \in {"lookup", "idle"} /\ (r.pc # "idle" => r.done < Len(r.points))
  BY <1>1, DoneFacts DEF TrackInv
<1>3. Goto(p, r)
  BY <1>1, Zenon
<1>4. Move(p, r)
  BY <1>2, <1>3 DEF Move, Caching, At
<1>5. TypeOK' /\ RequestsFit' /\ CacheCovers' /\ SeenIsOld'
  BY <1>2, <1>4, MoveKeeps, ToldStays
<1>6. KeysAreOrderly'
  BY <1>2, <1>4, KeysKeep
<1> QED BY <1>5, <1>6, ToldStays DEF TrackInv

\* The rate limit and the validation end the point or let it pass.
LEMMA ChecksKeep == ASSUME TrackInv, NEW p \in Procs, RateLimit(p) \/ Validate(p) PROVE TrackInv'
<1>1. req[p].pc \in {"rate", "validate"} /\ ~At(p, "record") /\ ~Caching(p)
      /\ UNCHANGED <<now, rows, record, cache, told, raced, unrecorded, setBack>>
  BY DEF RateLimit, Validate, At, store, history, Caching
<1>2. req[p] \in Request /\ req[p].done < Len(req[p].points)
  BY <1>1 DEF TrackInv, TypeOK, RequestsFit
<1>3. CASE Goto(p, Done(p))
  BY <1>1, <1>3, EndKeeps
<1>4. ASSUME NEW pc \in {"validate", "insert"}, NEW s \in Status, Goto(p, [req[p] EXCEPT !.pc = pc, !.status = s])
      PROVE  TrackInv'
  <2>1. PICK r : r = [req[p] EXCEPT !.pc = pc, !.status = s]
    OBVIOUS
  <2>2. r \in Request /\ r.pc = pc /\ SameTask(p, r)
    BY <1>2, <2>1 DEF Request, SameTask
  <2>3. Goto(p, r)
    BY <1>4, <2>1, Zenon
  <2>4. Move(p, r)
    BY <1>1, <1>2, <2>2, <2>3 DEF Move, SameTask
  <2>5. TypeOK' /\ RequestsFit' /\ CacheCovers' /\ SeenIsOld'
    BY <1>1, <2>2, <2>4, MoveKeeps, ToldStays
  <2>6. KeysAreOrderly'
    BY <1>1, <2>2, <2>4, KeysKeep
  <2> QED BY <1>1, <2>5, <2>6, ToldStays DEF TrackInv
<1>5. Goto(p, Done(p))
      \/ \E pc \in {"validate", "insert"} : \E s \in Status : Goto(p, [req[p] EXCEPT !.pc = pc, !.status = s])
  <2>1. CASE RateLimit(p)
    <3>1. Goto(p, Done(p)) \/ Goto(p, [req[p] EXCEPT !.pc = "validate"])
      BY <2>1 DEF RateLimit
    <3>2. [req[p] EXCEPT !.pc = "validate"] = [req[p] EXCEPT !.pc = "validate", !.status = req[p].status]
          /\ req[p].status \in Status
      BY <1>2 DEF Request
    <3> QED BY <3>1, <3>2, Zenon
  <2>2. CASE Validate(p)
    <3>1. \/ Goto(p, Done(p))
          \/ \E c \in {cache, None} :
               Goto(p, [req[p] EXCEPT !.pc = "insert",
                          !.status = IF VelocityAnomaly(Current(p), c) THEN "ANOMALY_VELOCITY" ELSE "VALID"])
      BY <2>2, Zenon DEF Validate
    <3>2. ASSUME NEW c,
                 Goto(p, [req[p] EXCEPT !.pc = "insert",
                            !.status = IF VelocityAnomaly(Current(p), c) THEN "ANOMALY_VELOCITY" ELSE "VALID"])
          PROVE  \E s \in Status : Goto(p, [req[p] EXCEPT !.pc = "insert", !.status = s])
      <4>1. PICK s : s = IF VelocityAnomaly(Current(p), c) THEN "ANOMALY_VELOCITY" ELSE "VALID"
        OBVIOUS
      <4>2. s \in Status
        BY <4>1 DEF Status
      <4> QED BY <3>2, <4>1, <4>2, Zenon
    <3> QED BY <3>1, <3>2
  <2> QED BY <2>1, <2>2
<1> QED BY <1>3, <1>4, <1>5

\* A new row gets the next number; the request that stored it holds it.  Its key, if
\* it is orderly, had no row: the request is the only one that stores it.
LEMMA InsertKeeps == ASSUME TrackInv, NEW p \in Procs, Insert(p) PROVE TrackInv'
<1> DEFINE n == Cardinality(rows)
<1>1. At(p, "insert") /\ UNCHANGED <<now, record, cache, told, raced, unrecorded, setBack>>
  BY DEF Insert, history
<1>2. req[p] \in Request /\ req[p].done < Len(req[p].points) /\ Current(p) \in Point
  BY <1>1, CurrentType DEF TrackInv, TypeOK, RequestsFit, At
<1>3. n \in Nat /\ NextId = n + 1
  BY FS_CardinalityType DEF TrackInv, TypeOK, NextId
<1> HIDE DEF n
<1>4. PICK r : /\ Goto(p, r) /\ r \in Request /\ r.id = n + 1
               /\ r.points = req[p].points /\ r.done = req[p].done /\ r.endpoint = req[p].endpoint
               /\ r.pc = IF Keyed(p) THEN "record" ELSE "get"
  <2>1. PICK pc : pc = IF Keyed(p) THEN "record" ELSE "get"
    OBVIOUS
  <2>2. Goto(p, [req[p] EXCEPT !.id = n + 1, !.pc = pc])
    <3>1. Goto(p, [req[p] EXCEPT !.id = NextId, !.pc = IF Keyed(p) THEN "record" ELSE "get"])
      BY DEF Insert
    <3> QED BY <1>3, <2>1, <3>1, Zenon
  <2>3. PICK r : r = [req[p] EXCEPT !.id = n + 1, !.pc = pc]
    OBVIOUS
  <2>4. pc \in {"record", "get"} /\ n + 1 \in Nat
    BY <1>3, <2>1
  <2>5. r \in Request /\ r.id = n + 1 /\ r.pc = pc
        /\ r.points = req[p].points /\ r.done = req[p].done /\ r.endpoint = req[p].endpoint
    BY <1>2, <2>3, <2>4 DEF Request
  <2> QED BY <2>1, <2>2, <2>3, <2>5, Zenon
<1>5. PICK r0 : /\ r0 \in Row /\ r0.id = n + 1 /\ r0.point = Current(p)
                /\ r0.key = KeyOf[Current(p)] /\ r0.endpoint = req[p].endpoint
                /\ rows' = rows \cup {r0}
  <2>1. PICK s : s = [id |-> n + 1, point |-> Current(p), status |-> req[p].status,
                      key |-> KeyOf[Current(p)], endpoint |-> req[p].endpoint]
    OBVIOUS
  <2>2. req[p].status \in Status /\ req[p].endpoint \in Endpoint
        /\ KeyOf[Current(p)] \in {KeyOf[x] : x \in Point} /\ n + 1 \in Nat \ {0}
    BY <1>2, <1>3 DEF Request
  <2>3. s \in Row /\ s.id = n + 1 /\ s.point = Current(p)
        /\ s.key = KeyOf[Current(p)] /\ s.endpoint = req[p].endpoint
    BY <1>2, <2>1, <2>2 DEF Row
  <2>4. rows' = rows \cup {[id |-> NextId, point |-> Current(p), status |-> req[p].status,
                            key |-> KeyOf[Current(p)], endpoint |-> req[p].endpoint]}
    BY DEF Insert
  <2>5. rows' = rows \cup {s}
    BY <1>3, <2>1, <2>4, Zenon
  <2> QED BY <2>3, <2>5
<1>6. /\ req'[p] = r
      /\ \A q \in Procs : q # p => req'[q] = req[q]
      /\ req' \in [Procs -> Request]
  BY <1>4, GotoFacts DEF TrackInv
<1>7. \A s \in rows : s.id \in Nat \ {0} /\ s.id <= n /\ s # r0
  BY <1>3, <1>5 DEF TrackInv, TypeOK, Row, n
<1>8. IsFiniteSet(rows') /\ Cardinality(rows') = n + 1
  BY <1>5, <1>7, FS_AddElement DEF TrackInv, TypeOK, n
<1>9. TypeOK'
  <2>1. rows' \in SUBSET Row
    BY <1>5 DEF TrackInv, TypeOK
  <2>2. \A s \in rows' : s.id <= Cardinality(rows') /\ s.key = KeyOf[s.point]
    <3>1. \A s \in rows : s.key = KeyOf[s.point]
      BY DEF TrackInv, TypeOK
    <3> QED BY <1>3, <1>5, <1>7, <1>8, <3>1
  <2>3. \A s, t \in rows' : s.id = t.id => s = t
    BY <1>3, <1>5, <1>7 DEF TrackInv, TypeOK
  <2> QED BY <1>1, <1>6, <1>8, <2>1, <2>2, <2>3 DEF TrackInv, TypeOK
<1>10. \A q \in Procs : q # p =>
        /\ Current(q)' = Current(q) /\ Slot(q)' = Slot(q) /\ Keyed(q)' = Keyed(q)
        /\ Storing(q)' = Storing(q) /\ Caching(q)' = Caching(q)
        /\ \A x : At(q, x)' = At(q, x)
  BY <1>6, OtherRequest
<1>11. Current(p)' = Current(p) /\ Slot(p)' = Slot(p) /\ Keyed(p)' = Keyed(p)
  BY <1>4, <1>6, SamePoint
<1>12. RequestsFit'
  <2>1. ASSUME NEW q \in Procs, q # p
        PROVE  /\ req'[q].pc # "idle" => req'[q].done < Len(req'[q].points)
               /\ At(q, "record")' => Keyed(q)'
               /\ Caching(q)' => \E s \in rows' : /\ s.id = req'[q].id /\ s.point = Current(q)'
                                                  /\ s.endpoint = req'[q].endpoint
    BY <1>5, <1>6, <1>10, <2>1 DEF TrackInv, RequestsFit
  <2>2. /\ req'[p].done < Len(req'[p].points)
        /\ At(p, "record")' => Keyed(p)'
        /\ \E s \in rows' : s.id = req'[p].id /\ s.point = Current(p)' /\ s.endpoint = req'[p].endpoint
    BY <1>2, <1>4, <1>5, <1>6, <1>11 DEF At
  <2> QED BY <2>1, <2>2 DEF RequestsFit
<1>13. RecordsAreTrue' /\ ToldAreTrue'
  BY <1>1, <1>5 DEF TrackInv, RecordsAreTrue, ToldAreTrue, SlotOf
<1>14. KeysAreOrderly'
  <2> SUFFICES ASSUME NEW i \in Slots, i \notin raced \cup unrecorded PROVE Undisturbed(i)'
    BY <1>1 DEF KeysAreOrderly
  <2>1. Undisturbed(i)
    BY DEF TrackInv, KeysAreOrderly
  <2>2. ~At(p, "record") /\ SlotOf(r0) = Slot(p) /\ (Storing(p) <=> Keyed(p)) /\ (Storing(p)' <=> Keyed(p))
    BY <1>1, <1>4, <1>5, <1>6, <1>11 DEF At, SlotOf, Slot, Storing
  <2>3. CASE Keyed(p) /\ Slot(p) = i
    <3>1. At(p, "record")' /\ req'[p].id = r0.id
      BY <1>4, <1>5, <1>6, <2>3 DEF At
    <3>2. \A s \in rows : SlotOf(s) # i
      BY <2>1, <2>2, <2>3 DEF Undisturbed
    <3>3. \A s \in rows' : SlotOf(s) = i => s = r0
      BY <1>5, <3>2
    <3> QED BY <1>1, <1>10, <1>11, <2>1, <2>2, <2>3, <3>1, <3>3 DEF Undisturbed, SlotOf
  <2>4. CASE ~(Keyed(p) /\ Slot(p) = i)
    <3>1. SlotOf(r0) # i
      BY <2>2, <2>4 DEF Slot, Keyed, Keys, Slots
    <3>2. \A q \in Procs : (Storing(q)' /\ Slot(q)' = i) <=> (Storing(q) /\ Slot(q) = i)
      BY <1>10, <1>11, <2>2, <2>4
    <3>3. \A q \in Procs : At(q, "record") => At(q, "record")' /\ req'[q].id = req[q].id
      BY <1>6, <1>10, <2>2
    <3> QED BY <1>1, <1>5, <2>1, <3>1, <3>2, <3>3 DEF Undisturbed, SlotOf
  <2> QED BY <2>3, <2>4
<1>15. CacheCovers'
  <2>1. Caching(p)' /\ req'[p].id = r0.id /\ ~Caching(p)
    BY <1>1, <1>4, <1>5, <1>6 DEF Caching, At
  <2>2. \A q \in Procs : Caching(q) => Caching(q)' /\ req'[q].id = req[q].id
    BY <1>6, <1>10, <2>1
  <2> QED BY <1>1, <1>5, <2>1, <2>2 DEF TrackInv, CacheCovers
<1>16. SeenIsOld'
  <2>1. ~At(p, "set")'
    BY <1>4, <1>6 DEF At
  <2> QED BY <1>1, <1>6, <1>10, <2>1 DEF TrackInv, SeenIsOld
<1> QED BY <1>9, <1>12, <1>13, <1>14, <1>15, <1>16 DEF TrackInv

\* The record names the row of the request that was first, whose key the others had
\* looked up in vain; one that could not be written leaves the key among the
\* unrecorded.  The answer is the request's own row in either case.
LEMMA RecordKeeps == ASSUME TrackInv, NEW p \in Procs, SaveRecord(p) \/ RecordFails(p) PROVE TrackInv'
<1>1. At(p, "record") /\ UNCHANGED <<now, rows, cache, raced, setBack>> /\ Caching(p)
      /\ Goto(p, [req[p] EXCEPT !.pc = "get"])
      /\ told' = [told EXCEPT ![Slot(p)] = @ \cup {req[p].id}]
  BY DEF SaveRecord, RecordFails, At, store, Caching
<1>2. req[p] \in Request /\ req[p].id \in Nat /\ req[p].done < Len(req[p].points)
  BY <1>1 DEF TrackInv, TypeOK, Request, RequestsFit, At
<1>3. Slot(p) \in Slots /\ Keyed(p)
  BY <1>1, CurrentType DEF TrackInv, RequestsFit, At
<1>4. PICK r0 \in rows : r0.id = req[p].id /\ SlotOf(r0) = Slot(p)
  BY <1>1, RowOfRequest
<1>5. req[p].id # 0
  BY <1>4 DEF TrackInv, TypeOK, Row
<1>6. ToldAreTrue' /\ told' \in [Slots -> SUBSET Nat]
  BY <1>1, <1>2, <1>3, <1>4, ToldMore
<1>7. PICK r : r = [req[p] EXCEPT !.pc = "get"]
  OBVIOUS
<1>8. r \in Request /\ r.pc = "get" /\ SameTask(p, r)
  BY <1>2, <1>7 DEF Request, SameTask
<1>9. Goto(p, r)
  BY <1>1, <1>7, Zenon
<1>10. Move(p, r)
  BY <1>1, <1>2, <1>8, <1>9 DEF Move, SameTask
<1>11. CASE RecordFails(p)
  <2>1. record' = record /\ unrecorded' = unrecorded \cup {Slot(p)}
    BY <1>11 DEF RecordFails, store
  <2>2. RecordsAreTrue' /\ record' \in [Slots -> Nat]
    BY <1>1, <2>1 DEF TrackInv, TypeOK, RecordsAreTrue, SlotOf
  <2>3. TypeOK' /\ RequestsFit' /\ CacheCovers' /\ SeenIsOld'
    BY <1>6, <1>8, <1>10, <2>2, MoveKeeps
  <2>4. KeysAreOrderly'
    BY <1>1, <1>8, <1>10, <2>1, KeysKeep
  <2> QED BY <1>6, <2>2, <2>3, <2>4 DEF TrackInv
<1>12. CASE SaveRecord(p)
  <2>1. record' \in [Slots -> Nat] /\ record'[Slot(p)] # 0 /\ unrecorded' = unrecorded
        /\ record'[Slot(p)] \in {record[Slot(p)], req[p].id}
        /\ \A i \in Slots : i # Slot(p) => record'[i] = record[i]
    BY <1>2, <1>3, <1>5, <1>12 DEF SaveRecord, TrackInv, TypeOK
  <2>2. RecordsAreTrue'
    BY <1>1, <1>4, <2>1 DEF TrackInv, RecordsAreTrue, SlotOf
  <2>3. TypeOK' /\ RequestsFit' /\ CacheCovers' /\ SeenIsOld'
    BY <1>6, <1>8, <1>10, <2>1, MoveKeeps
  <2>4. KeysAreOrderly'
    <3> SUFFICES ASSUME NEW i \in Slots, i \notin raced \cup unrecorded PROVE Undisturbed(i)'
      BY <1>1, <2>1 DEF KeysAreOrderly
    <3>1. Undisturbed(i)
      BY DEF TrackInv, KeysAreOrderly
    <3>2. req'[p] = r /\ \A q \in Procs : q # p => req'[q] = req[q]
      BY <1>8, <1>9, GotoFacts DEF TrackInv
    <3>3. \A q \in Procs : q # p =>
            /\ Slot(q)' = Slot(q) /\ Storing(q)' = Storing(q) /\ req'[q].id = req[q].id
            /\ At(q, "record")' = At(q, "record")
      BY <3>2, OtherRequest
    <3>4. Storing(p) /\ ~Storing(p)'
      BY <1>1, <1>3, <1>8, <3>2 DEF Storing, At
    <3>5. CASE i = Slot(p)
      <4>1. \A q \in Procs : ~(Storing(q)' /\ Slot(q)' = i)
        BY <3>1, <3>3, <3>4, <3>5 DEF Undisturbed
      <4> QED BY <1>1, <2>1, <3>1, <3>5, <4>1 DEF Undisturbed, SlotOf
    <3>6. CASE i # Slot(p)
      BY <1>1, <2>1, <3>1, <3>3, <3>4, <3>6 DEF Undisturbed, SlotOf
    <3> QED BY <3>5, <3>6
  <2> QED BY <1>6, <2>2, <2>3, <2>4 DEF TrackInv
<1> QED BY <1>11, <1>12

\* The read of the cache before its write; an error reads as a miss.
LEMMA CacheGetKeeps == ASSUME TrackInv, NEW p \in Procs, CacheGet(p) PROVE TrackInv'
<1>1. At(p, "get") /\ UNCHANGED <<now, rows, record, told, cache, raced, unrecorded, setBack>>
      /\ Caching(p) /\ ~At(p, "record")
  BY DEF CacheGet, At, store, history, Caching
<1>2. PICK c \in {cache, None} : Goto(p, [req[p] EXCEPT !.pc = "set", !.seen = c])
  BY DEF CacheGet
<1>3. req[p] \in Request /\ req[p].done < Len(req[p].points) /\ c \in Point \cup {None}
  BY <1>1 DEF TrackInv, TypeOK, RequestsFit, At
<1>4. PICK r : r = [req[p] EXCEPT !.pc = "set", !.seen = c]
  OBVIOUS
<1>5. r \in Request /\ r.pc = "set" /\ r.seen = c /\ SameTask(p, r)
  BY <1>3, <1>4 DEF Request, SameTask
<1>6. Goto(p, r)
  BY <1>2, <1>4, Zenon
<1>7. Move(p, r)
  BY <1>1, <1>3, <1>5, <1>6 DEF Move, SameTask
<1>8. TypeOK' /\ RequestsFit' /\ CacheCovers' /\ SeenIsOld'
  BY <1>1, <1>5, <1>7, MoveKeeps, ToldStays
<1>9. KeysAreOrderly'
  BY <1>1, <1>5, <1>7, KeysKeep
<1> QED BY <1>1, <1>8, <1>9, ToldStays DEF TrackInv

\* The write of the cache.  A point that is not newer than the one read leaves the
\* cache, which is as new as that.  A newer one replaces an older point, unless
\* another request has put a newer one there since.
LEMMA CacheSetKeeps == ASSUME TrackInv, NEW p \in Procs, CacheSet(p) PROVE TrackInv'
<1> DEFINE x == Current(p)
<1>1. At(p, "set") /\ UNCHANGED <<now, rows, record, told, raced, unrecorded>> /\ Caching(p) /\ ~At(p, "record")
      /\ ~Storing(p) /\ Goto(p, [req[p] EXCEPT !.pc = "broadcast"])
  BY DEF CacheSet, At, store, Caching, Storing
<1>2. \/ ~Newer(x, req[p].seen) /\ cache' = cache /\ setBack' = setBack
      \/ /\ Newer(x, req[p].seen) /\ cache' = x
         /\ setBack' = (setBack \/ Overwrites(x, req[p].seen))
      \/ cache' = cache /\ setBack' = TRUE
  BY DEF CacheSet
<1>3. req[p] \in Request /\ req[p].done < Len(req[p].points) /\ x \in Point /\ req[p].seen \in Point \cup {None}
  BY <1>1, CurrentType DEF TrackInv, TypeOK, RequestsFit, Request, At
<1>4. PICK r : r = [req[p] EXCEPT !.pc = "broadcast"]
  OBVIOUS
<1>5. r \in Request /\ r.pc = "broadcast" /\ SameTask(p, r)
  BY <1>3, <1>4 DEF Request, SameTask
<1>6. Goto(p, r)
  BY <1>1, <1>4, Zenon
<1>7. /\ req'[p] = r
      /\ \A q \in Procs : q # p => req'[q] = req[q]
      /\ req' \in [Procs -> Request]
  BY <1>5, <1>6, GotoFacts DEF TrackInv
<1>8. \A q \in Procs : q # p =>
        /\ Current(q)' = Current(q) /\ Slot(q)' = Slot(q) /\ Keyed(q)' = Keyed(q)
        /\ Storing(q)' = Storing(q) /\ Caching(q)' = Caching(q)
        /\ \A y : At(q, y)' = At(q, y)
  BY <1>7, OtherRequest
<1>9. ~Caching(p)' /\ ~Storing(p)' /\ ~At(p, "record")' /\ ~At(p, "set")'
  BY <1>5, <1>7 DEF Caching, Storing, At
<1>10. TypeOK'
  BY <1>1, <1>2, <1>3, <1>7 DEF TrackInv, TypeOK
<1>11. RequestsFit'
  <2>1. ASSUME NEW q \in Procs, q # p
        PROVE  /\ req'[q].pc # "idle" => req'[q].done < Len(req'[q].points)
               /\ At(q, "record")' => Keyed(q)'
               /\ Caching(q)' => \E s \in rows' : /\ s.id = req'[q].id /\ s.point = Current(q)'
                                                  /\ s.endpoint = req'[q].endpoint
    BY <1>1, <1>7, <1>8, <2>1 DEF TrackInv, RequestsFit
  <2>2. req'[p].done < Len(req'[p].points)
    BY <1>3, <1>5, <1>7 DEF SameTask
  <2> QED BY <1>9, <2>1, <2>2 DEF RequestsFit
<1>12. RecordsAreTrue' /\ ToldAreTrue'
  BY <1>1, ToldStays
<1>13. KeysAreOrderly'
  BY <1>1, <1>7, <1>8, <1>9 DEF TrackInv, KeysAreOrderly, Undisturbed, SlotOf
<1>14. None \notin Point /\ RecordedAt \in [Point -> Nat] /\ cache \in Point \cup {None}
  BY TrackingAssumption DEF TrackInv, TypeOK
<1> HIDE DEF x
\* The cache never gets older, and is as new as the point in hand.
<1>15. ASSUME ~setBack'
       PROVE  /\ ~setBack
              /\ cache' \in Point /\ RecordedAt[x] <= RecordedAt[cache']
              /\ cache # None => RecordedAt[cache] <= RecordedAt[cache']
  <2>1. ~setBack
    BY <1>2, <1>15
  <2>2. CASE ~Newer(x, req[p].seen) /\ cache' = cache
    <3>1. req[p].seen # None /\ ~(RecordedAt[x] > RecordedAt[req[p].seen])
      BY <2>2 DEF Newer
    <3>2. cache # None /\ RecordedAt[req[p].seen] <= RecordedAt[cache]
      BY <1>1, <2>1, <3>1 DEF TrackInv, SeenIsOld
    <3>3. /\ RecordedAt[x] \in Nat /\ RecordedAt[req[p].seen] \in Nat
          /\ RecordedAt[cache] \in Nat /\ cache \in Point
      BY <1>3, <1>14, <3>1, <3>2
    <3> QED BY <2>1, <2>2, <3>1, <3>2, <3>3
  <2>3. CASE Newer(x, req[p].seen) /\ cache' = x /\ ~Overwrites(x, req[p].seen)
    <3>1. RecordedAt[x] \in Nat /\ (cache # None => RecordedAt[cache] \in Nat)
      BY <1>3, <1>14
    <3>2. cache # None => RecordedAt[x] > RecordedAt[cache]
      BY <2>3, <3>1 DEF Newer, Overwrites
    <3> QED BY <1>3, <2>1, <2>3, <3>1, <3>2
  <2> QED BY <1>2, <1>15, <2>2, <2>3
<1>16. CacheCovers'
  <2> SUFFICES ASSUME ~setBack', NEW s \in rows
               PROVE  \/ \E q \in Procs : Caching(q)' /\ req'[q].id = s.id
                      \/ cache' # None /\ RecordedAt[s.point] <= RecordedAt[cache']
    BY <1>1 DEF CacheCovers
  <2>1. s.point \in Point
    BY DEF TrackInv, TypeOK, Row
  <2>2. CASE \E q \in Procs : Caching(q) /\ req[q].id = s.id
    <3>1. PICK q \in Procs : Caching(q) /\ req[q].id = s.id
      BY <2>2
    <3>2. CASE q = p
      <4>1. s.point = x
        BY <1>1, <3>1, <3>2, RowOfRequest DEF x
      <4> QED BY <1>14, <1>15, <4>1
    <3>3. CASE q # p
      BY <1>7, <1>8, <3>1, <3>3
    <3> QED BY <3>2, <3>3
  <2>3. CASE cache # None /\ RecordedAt[s.point] <= RecordedAt[cache]
    <3>1. cache' \in Point /\ RecordedAt[cache] <= RecordedAt[cache']
      BY <1>15, <2>3
    <3>2. RecordedAt[s.point] \in Nat /\ RecordedAt[cache] \in Nat /\ RecordedAt[cache'] \in Nat
      BY <1>14, <2>1, <2>3, <3>1
    <3> QED BY <1>14, <2>3, <3>1, <3>2
  <2> QED BY <1>15, <2>2, <2>3 DEF TrackInv, CacheCovers
<1>17. SeenIsOld'
  <2> SUFFICES ASSUME ~setBack', NEW q \in Procs, At(q, "set")', req'[q].seen # None
               PROVE  cache' # None /\ RecordedAt[req'[q].seen] <= RecordedAt[cache']
    BY DEF SeenIsOld
  <2>1. q # p /\ req'[q] = req[q] /\ At(q, "set")
    BY <1>7, <1>8, <1>9
  <2>2. cache # None /\ RecordedAt[req[q].seen] <= RecordedAt[cache]
    BY <1>15, <2>1 DEF TrackInv, SeenIsOld
  <2>3. req[q].seen \in Point
    BY <2>1 DEF TrackInv, TypeOK, Request
  <2>4. RecordedAt[req[q].seen] \in Nat /\ RecordedAt[cache] \in Nat /\ RecordedAt[cache'] \in Nat
    BY <1>14, <1>15, <2>2, <2>3
  <2> QED BY <1>14, <1>15, <2>1, <2>2, <2>4
<1> QED BY <1>10, <1>11, <1>12, <1>13, <1>16, <1>17 DEF TrackInv

\* A crash ends every request.  The keys of those that had stored their row and not
\* recorded it are among the unrecorded, and their points are lost to the cache.
LEMMA LossKeeps == ASSUME TrackInv, CacheLost \/ Crash PROVE TrackInv'
<1>1. CASE CacheLost
  <2>1. UNCHANGED <<now, rows, record, told, raced, unrecorded, req>> /\ cache' = None /\ setBack' = TRUE
    BY <1>1 DEF CacheLost, store
  <2>2. TypeOK' /\ RequestsFit' /\ RecordsAreTrue' /\ ToldAreTrue'
    BY <2>1 DEF TrackInv, TypeOK, RequestsFit, RecordsAreTrue, ToldAreTrue, At, Keyed, Current, Caching, SlotOf
  <2>3. KeysAreOrderly'
    BY <2>1 DEF TrackInv, KeysAreOrderly, Undisturbed, Storing, Slot, Keyed, Current, At, SlotOf
  <2> QED BY <2>1, <2>2, <2>3 DEF TrackInv, CacheCovers, SeenIsOld
<1>2. CASE Crash
  <2>1. UNCHANGED <<now, rows, record, told, raced, cache>>
        /\ req' = [p \in Procs |-> Idle]
        /\ unrecorded' = unrecorded \cup {Slot(p) : p \in {q \in Procs : At(q, "record")}}
        /\ setBack' = (setBack \/ \E p \in Procs : Caching(p))
    BY <1>2 DEF Crash, store
  <2>2. req' \in [Procs -> Request] /\ \A p \in Procs : req'[p].pc = "idle"
    BY <2>1, IdleType
  <2>3. TypeOK' /\ RecordsAreTrue' /\ ToldAreTrue'
    BY <2>1, <2>2 DEF TrackInv, TypeOK, RecordsAreTrue, ToldAreTrue, SlotOf
  <2>4. RequestsFit' /\ SeenIsOld'
    BY <2>2 DEF RequestsFit, SeenIsOld, At, Caching
  <2>5. KeysAreOrderly'
    <3> SUFFICES ASSUME NEW i \in Slots, i \notin raced' \cup unrecorded' PROVE Undisturbed(i)'
      BY DEF KeysAreOrderly
    <3>1. Undisturbed(i) /\ \A p \in Procs : At(p, "record") => Slot(p) # i
      BY <2>1 DEF TrackInv, KeysAreOrderly
    <3>2. \A p \in Procs : ~Storing(p)'
      BY <2>2 DEF Storing
    <3> QED BY <2>1, <3>1, <3>2 DEF Undisturbed, SlotOf
  <2>6. CacheCovers'
    BY <2>1 DEF TrackInv, CacheCovers
  <2> QED BY <2>3, <2>4, <2>5, <2>6 DEF TrackInv
<1> QED BY <1>1, <1>2

-----------------------------------------------------------------------------
\* The inductive invariant holds in every reachable state.
LEMMA Invariance == Spec => []TrackInv
<1>1. Init => TrackInv
  <2> SUFFICES ASSUME Init PROVE TrackInv
    OBVIOUS
  <2>1. req \in [Procs -> Request] /\ \A p \in Procs : req[p].pc = "idle"
    BY IdleType DEF Init
  <2>2. rows = {} /\ IsFiniteSet(rows) /\ cache = None /\ now = 0
    BY FS_EmptySet DEF Init
  <2>3. record \in [Slots -> Nat] /\ told \in [Slots -> SUBSET Nat]
        /\ \A i \in Slots : record[i] = 0 /\ told[i] = {}
    BY DEF Init, Slots
  <2>4. TypeOK
    BY <2>1, <2>2, <2>3 DEF TypeOK
  <2>5. RequestsFit /\ RecordsAreTrue /\ ToldAreTrue
    BY <2>1, <2>3 DEF RequestsFit, RecordsAreTrue, ToldAreTrue, At, Caching
  <2>6. KeysAreOrderly /\ CacheCovers /\ SeenIsOld
    BY <2>1, <2>2, <2>3 DEF KeysAreOrderly, Undisturbed, CacheCovers, SeenIsOld, Storing, At
  <2> QED BY <2>4, <2>5, <2>6 DEF TrackInv
<1>2. TrackInv /\ [Next]_vars => TrackInv'
  <2> SUFFICES ASSUME TrackInv, [Next]_vars PROVE TrackInv'
    OBVIOUS
  <2>1. CASE Tick \/ UNCHANGED vars
    <3>1. UNCHANGED <<rows, record, told, cache, raced, unrecorded, setBack, req>> /\ now' \in Nat
      BY <2>1 DEF Tick, vars, store, history, TrackInv, TypeOK
    <3>2. TypeOK' /\ RequestsFit' /\ RecordsAreTrue' /\ ToldAreTrue'
      BY <3>1 DEF TrackInv, TypeOK, RequestsFit, RecordsAreTrue, ToldAreTrue, At, Keyed, Current, Caching, SlotOf
    <3>3. KeysAreOrderly'
      BY <3>1 DEF TrackInv, KeysAreOrderly, Undisturbed, Storing, Slot, Keyed, Current, At, SlotOf
    <3>4. CacheCovers' /\ SeenIsOld'
      BY <3>1 DEF TrackInv, CacheCovers, SeenIsOld, Caching, At
    <3> QED BY <3>2, <3>3, <3>4 DEF TrackInv
  <2>2. ASSUME NEW p \in Procs, NEW x \in Point, NEW e \in Endpoint, BeginSingle(p, x, e) PROVE TrackInv'
    <3>1. PICK b : b = <<x>>
      OBVIOUS
    <3>2. Goto(p, [Idle EXCEPT !.pc = "lookup", !.endpoint = e, !.points = b, !.at = now])
      BY <2>2, <3>1, Zenon DEF BeginSingle
    <3>3. b \in Seq(Point) /\ Len(b) > 0
      BY <3>1
    <3>4. At(p, "idle") /\ UNCHANGED <<now, rows, record, cache, told, raced, unrecorded, setBack>>
      BY <2>2 DEF BeginSingle, store, history
    <3> QED BY <3>2, <3>3, <3>4, BeginKeeps
  <2>3. ASSUME NEW p \in Procs, NEW b \in Batches, BeginBatch(p, b) PROVE TrackInv'
    <3>1. b \in Seq(Point) /\ b # <<>> /\ "batch" \in Endpoint
      BY TrackingAssumption DEF Endpoint
    <3>2. Len(b) > 0
      BY <3>1
    <3>3. /\ At(p, "idle") /\ UNCHANGED <<now, rows, record, cache, told, raced, unrecorded, setBack>>
          /\ Goto(p, [Idle EXCEPT !.pc = "lookup", !.endpoint = "batch", !.points = b, !.at = now])
      BY <2>3 DEF BeginBatch, store, history
    <3> QED BY <3>1, <3>2, <3>3, BeginKeeps
  <2>4. ASSUME NEW p \in Procs, Broadcast(p) \/ QueryFails(p) PROVE TrackInv'
    <3>1. /\ req[p].pc \in {"lookup", "insert", "record", "broadcast"}
          /\ Goto(p, Done(p)) /\ UNCHANGED <<now, rows, record, cache, told, raced>>
          /\ unrecorded \subseteq unrecorded'
          /\ setBack => setBack'
          /\ At(p, "record") => Slot(p) \in unrecorded' /\ setBack'
      <4>1. CASE Broadcast(p)
        BY <4>1 DEF Broadcast, At, store, history
      <4>2. CASE QueryFails(p)
        <5>1. setBack' = (setBack \/ At(p, "record"))
          BY <4>2 DEF QueryFails
        <5>2. (setBack => setBack') /\ (At(p, "record") => setBack')
          BY <5>1
        <5> QED BY <4>2, <5>2 DEF QueryFails, store
      <4> QED BY <2>4, <4>1, <4>2
    <3> QED BY <3>1, EndKeeps
  <2> QED BY <2>1, <2>2, <2>3, <2>4, LookupKeeps, ChecksKeep, InsertKeeps, RecordKeeps, CacheGetKeeps,
             CacheSetKeeps, LossKeeps DEF Next, Arrive
<1> QED BY <1>1, <1>2, PTL DEF Spec

\* processTelemetry looks a key up, inserts the row and records the answer.  For any
\* points, batches and rate limits, retries that overlap, queries that fail and
\* crashes: a second row of a key and endpoint is the work of two requests that
\* missed each other or of a record that was not written, and every answer names a
\* row of its key.
THEOREM RowsCorrect == Spec => []OneRowPerKey
<1>1. TrackInv => OneRowPerKey
  <2> SUFFICES ASSUME TrackInv PROVE OneRowPerKey
    OBVIOUS
  <2>1. ASSUME NEW r \in rows, NEW s \in rows, SlotOf(r) = SlotOf(s), r.key # None,
               SlotOf(r) \notin raced \cup unrecorded
        PROVE  r = s
    <3>1. SlotOf(r) \in Slots
      BY <2>1 DEF TrackInv, TypeOK, Row, SlotOf, Slots, Keys
    <3> QED BY <2>1, <3>1 DEF TrackInv, KeysAreOrderly, Undisturbed
  <2> QED BY <2>1 DEF OneRowPerKey, TrackInv, ToldAreTrue, Slots
<1> QED BY <1>1, Invariance, PTL

\* setLatestLocation reads the cached location, compares the times and writes.  For
\* any points and any overlap of reports the cache is as new as every VALID point
\* that has been through it, until a point is lost to it by expiry, an error, a
\* crash, or a write over a newer point that the read had not shown.
THEOREM CacheCorrect == Spec => []CacheIsNewest
<1>1. TrackInv => CacheIsNewest
  BY DEF TrackInv, CacheCovers, CacheIsNewest
<1> QED BY <1>1, Invariance, PTL
=============================================================================
