---------------------------- MODULE RoutesProofs ----------------------------
(***************************************************************************)
(* Proofs about Routes, for any number of deliveries, stops, keys and      *)
(* concurrent requests, with a crash; and about the recommendation of a    *)
(* route by Optimizer, for any number of waypoints and any matrix.         *)
(***************************************************************************)
EXTENDS Routes, Optimizer, FiniteSetTheorems, WellFoundedInduction, TLAPS

-----------------------------------------------------------------------------
(* Lists of stops *)

\* A delivery has finitely many stops.
LEMMA NType == N \in Nat /\ IsFiniteSet(Stop)
  BY RoutesAssumption, FS_CardinalityType DEF N

\* The highest of the versions 1 to n, or 0.
LEMMA MaxOfVersions == ASSUME NEW n \in Nat PROVE Max((1..n) \cup {0}) = n
<1>1. n \in (1..n) \cup {0} /\ \A y \in (1..n) \cup {0} : n >= y
  OBVIOUS
<1>2. \A x \in (1..n) \cup {0} : (\A y \in (1..n) \cup {0} : x >= y) => x = n
  <2> SUFFICES ASSUME NEW x \in (1..n) \cup {0}, \A y \in (1..n) \cup {0} : x >= y PROVE x = n
    OBVIOUS
  <2>1. x >= n
    BY <1>1
  <2> QED BY <2>1
<1> QED BY <1>1, <1>2 DEF Max

\* The higher of one or two places.
LEMMA MaxOfTwo ==
    ASSUME NEW a \in Nat, NEW b \in Nat, a <= b
    PROVE  Max({a}) = a /\ Max({a, b}) = b
  BY DEF Max

\* What a client lists, once validateCompleteStopSet has passed it: every stop
\* once, and the numbers 1 to N once.
GoodItems(items) ==
    /\ items \in Seq(Item) /\ Len(items) = N /\ DOMAIN items = 1..N
    /\ \A i \in 1..N : items[i].stop \in Stop /\ items[i].seq \in 1..N
    /\ \A i, j \in 1..N : items[i].stop = items[j].stop => i = j
    /\ \A i, j \in 1..N : items[i].seq = items[j].seq => i = j
    /\ \A s \in Stop : \E i \in 1..N : items[i].stop = s
    /\ \A n \in 1..N : \E i \in 1..N : items[i].seq = n

\* A sequence onto a set of as many elements names each once.
LEMMA OntoIsOnce ==
    ASSUME NEW T, IsFiniteSet(T), NEW n \in Nat, Cardinality(T) = n,
           NEW f, f \in [1..n -> T], Range(f) = T
    PROVE  \A i, j \in 1..n : f[i] = f[j] => i = j
<1>1. f \in Surjection(1..n, T)
  BY DEF Surjection, Range
<1>2. IsFiniteSet(1..n) /\ Cardinality(1..n) = n
  BY FS_Interval
<1>3. f \in Injection(1..n, T)
  BY <1>1, <1>2, FS_SurjSameCardinalityImpliesInj
<1> QED BY <1>3 DEF Injection, IsInjective

\* A list that validateCompleteStopSet accepts numbers every stop once, 1 to N.
LEMMA CompleteIsGood ==
    ASSUME NEW items \in Seq(Item), CompleteStopSet(items) PROVE GoodItems(items)
<1> DEFINE ids == [i \in DOMAIN items |-> items[i].stop]
           seqs == [i \in DOMAIN items |-> items[i].seq]
<1>0. N \in Nat /\ IsFiniteSet(Stop)
  BY NType
<1>1. DOMAIN items = 1..Len(items) /\ Len(items) \in Nat
      /\ \A i \in 1..Len(items) : items[i] \in Item
  OBVIOUS
<1>2. ids \in Seq(Stop) /\ seqs \in Seq(Int) /\ Len(ids) = Len(items) /\ Len(seqs) = Len(items)
  BY <1>1 DEF Item
<1>3. Len(items) = N /\ Range(ids) = Stop /\ Range(seqs) = 1..N
  BY <1>2 DEF CompleteStopSet, Contiguous
<1>4. ids \in [1..N -> Stop] /\ seqs \in [1..N -> 1..N]
  <2>1. DOMAIN ids = 1..N /\ DOMAIN seqs = 1..N
    BY <1>1, <1>3
  <2>2. \A i \in 1..N : ids[i] \in Range(ids) /\ seqs[i] \in Range(seqs)
    BY <2>1, Zenon DEF Range
  <2>3. ids = [i \in 1..N |-> ids[i]] /\ seqs = [i \in 1..N |-> seqs[i]]
    BY <1>1, <1>3, Zenon
  <2> HIDE DEF ids, seqs
  <2>4. \A i \in 1..N : ids[i] \in Stop /\ seqs[i] \in 1..N
    BY <1>3, <2>2, Zenon
  <2> QED BY <2>3, <2>4, Zenon
<1>5. \A i, j \in 1..N : ids[i] = ids[j] => i = j
  <2>1. PICK f : f = ids
    OBVIOUS
  <2> HIDE DEF ids
  <2>2. IsFiniteSet(Stop) /\ Cardinality(Stop) = N /\ f \in [1..N -> Stop] /\ Range(f) = Stop
    BY <1>0, <1>3, <1>4, <2>1, Zenon DEF N
  <2>3. \A i, j \in 1..N : f[i] = f[j] => i = j
    BY <1>0, <2>2, OntoIsOnce
  <2> QED BY <2>1, <2>3, Zenon
<1>6. \A i, j \in 1..N : seqs[i] = seqs[j] => i = j
  <2>1. IsFiniteSet(1..N) /\ Cardinality(1..N) = N
    BY <1>0, FS_Interval
  <2>2. seqs \in [1..N -> 1..N] /\ Range(seqs) = 1..N
    BY <1>3, <1>4
  <2>3. PICK T, f : T = 1..N /\ f = seqs
    OBVIOUS
  <2>4. IsFiniteSet(T) /\ Cardinality(T) = N /\ f \in [1..N -> T] /\ Range(f) = T
    BY <2>1, <2>2, <2>3
  <2>5. \A i, j \in 1..N : f[i] = f[j] => i = j
    BY <1>0, <2>4, OntoIsOnce
  <2> QED BY <2>3, <2>5
<1>7. \A s \in Stop : \E i \in 1..N : ids[i] = s
  BY <1>1, <1>3 DEF Range
<1>8. \A n \in 1..N : \E i \in 1..N : seqs[i] = n
  BY <1>1, <1>3 DEF Range
<1>9. \A i \in 1..N : ids[i] = items[i].stop /\ seqs[i] = items[i].seq
  BY <1>1, <1>3
<1>10. items \in Seq(Item) /\ Len(items) = N /\ DOMAIN items = 1..N
  BY <1>1, <1>3
<1>11. \A i \in 1..N : ids[i] \in Stop /\ seqs[i] \in 1..N
  BY <1>4
<1> HIDE DEF ids, seqs
<1>12. \A i \in 1..N : items[i].stop \in Stop /\ items[i].seq \in 1..N
  BY <1>9, <1>11, Zenon
<1>13. \A i, j \in 1..N : items[i].stop = items[j].stop => i = j
  <2> SUFFICES ASSUME NEW i \in 1..N, NEW j \in 1..N, items[i].stop = items[j].stop PROVE i = j
    OBVIOUS
  <2>1. ids[i] = ids[j]
    BY <1>9, Zenon
  <2> QED BY <1>5, <2>1, Zenon
<1>14. \A i, j \in 1..N : items[i].seq = items[j].seq => i = j
  <2> SUFFICES ASSUME NEW i \in 1..N, NEW j \in 1..N, items[i].seq = items[j].seq PROVE i = j
    OBVIOUS
  <2>1. seqs[i] = seqs[j]
    BY <1>9, Zenon
  <2> QED BY <1>6, <2>1, Zenon
<1>15. \A s \in Stop : \E i \in 1..N : items[i].stop = s
  BY <1>7, <1>9, Zenon
<1>16. \A n \in 1..N : \E i \in 1..N : items[i].seq = n
  BY <1>8, <1>9, Zenon
<1> QED BY <1>10, <1>12, <1>13, <1>14, <1>15, <1>16, Zenon DEF GoodItems

-----------------------------------------------------------------------------
(* The renumbering *)

\* The updates: N that park the stops, N that number them.
LEMMA WritesAre ==
    ASSUME NEW items, GoodItems(items)
    PROVE  /\ DOMAIN Writes(items) = 1..(2 * N) /\ Len(Writes(items)) = 2 * N
           /\ \A i \in 1..N : /\ Writes(items)[i].stop = items[i].stop
                              /\ Writes(items)[i].seq = -items[i].seq
                              /\ Writes(items)[N + i] = items[i]
<1>0. N \in Nat
  BY NType
<1> DEFINE parked == [i \in DOMAIN items |-> [items[i] EXCEPT !.seq = -@]]
<1>1. items \in Seq(Item) /\ Len(items) = N /\ DOMAIN items = 1..N
  BY DEF GoodItems
<1>2. \A i \in 1..N : items[i] \in Item
  BY <1>1
<1>3. \A i \in 1..N : [items[i] EXCEPT !.seq = -@] \in Item
  BY <1>2 DEF Item
<1>4. parked \in Seq(Item) /\ Len(parked) = N
  BY <1>0, <1>1, <1>3
<1>5. \A i \in 1..N : parked[i].stop = items[i].stop /\ parked[i].seq = -items[i].seq
  BY <1>1, <1>2 DEF Item
<1>6. Writes(items) = parked \o items
  BY DEF Writes
<1> HIDE DEF parked
<1>7. /\ parked \o items \in Seq(Item) /\ Len(parked \o items) = N + N
      /\ \A i \in 1..N : (parked \o items)[i] = parked[i] /\ (parked \o items)[N + i] = items[i]
  BY <1>0, <1>1, <1>4
<1>8. DOMAIN (parked \o items) = 1..(N + N)
  BY <1>7
<1>9. N + N = 2 * N
  BY <1>0
<1>10. DOMAIN Writes(items) = 1..(2 * N) /\ Len(Writes(items)) = 2 * N
  BY <1>6, <1>7, <1>8, <1>9, Zenon
<1>11. ASSUME NEW i \in 1..N
       PROVE  /\ Writes(items)[i].stop = items[i].stop
              /\ Writes(items)[i].seq = -items[i].seq
              /\ Writes(items)[N + i] = items[i]
  <2>1. Writes(items)[i] = parked[i] /\ Writes(items)[N + i] = items[i]
    BY <1>6, <1>7, Zenon
  <2>2. parked[i].stop = items[i].stop /\ parked[i].seq = -items[i].seq
    BY <1>5, Zenon
  <2> QED BY <2>1, <2>2, Zenon
<1> QED BY <1>10, <1>11, Zenon

\* The number of the stop that the list names in place j, after k updates.
LEMMA NumberedIs ==
    ASSUME NEW items, GoodItems(items), NEW f, NEW k \in 0..(2 * N), NEW j \in 1..N
    PROVE  Numbered(f, Writes(items), k)[items[j].stop] =
             IF k < j THEN f[items[j].stop]
             ELSE IF k < N + j THEN -items[j].seq ELSE items[j].seq
<1> DEFINE w == Writes(items)  s == items[j].stop
           I == {i \in 1..k : w[i].stop = s}
<1>0. N \in Nat
  BY NType
<1>1. s \in Stop
  BY DEF GoodItems
<1>2. Numbered(f, w, k)[s] = IF I = {} THEN f[s] ELSE w[Max(I)].seq
  BY <1>1 DEF Numbered
<1>3. \A i \in 1..(2 * N) : w[i].stop = s <=> i = j \/ i = N + j
  <2>0. \A m \in 1..N : items[m].stop = s <=> m = j
    BY DEF GoodItems
  <2> HIDE DEF s, w
  <2> SUFFICES ASSUME NEW i \in 1..(2 * N) PROVE w[i].stop = s <=> i = j \/ i = N + j
    OBVIOUS
  <2>1. CASE i \in 1..N
    <3>1. w[i].stop = items[i].stop
      BY <2>1, WritesAre DEF w
    <3>2. i # N + j
      BY <1>0, <2>1
    <3> QED BY <2>0, <2>1, <3>1, <3>2
  <2>2. CASE i \notin 1..N
    <3>1. PICK m \in 1..N : i = N + m
      <4>1. i - N \in 1..N /\ i = N + (i - N)
        BY <1>0, <2>2
      <4> QED BY <4>1
    <3>2. w[i].stop = items[m].stop
      BY <3>1, WritesAre DEF w
    <3>3. i # j /\ (i = N + j <=> m = j)
      BY <1>0, <2>2, <3>1
    <3> QED BY <2>0, <3>2, <3>3
  <2> QED BY <2>1, <2>2
<1>4. CASE k < j
  <2>1. I = {}
    BY <1>0, <1>3, <1>4
  <2> QED BY <1>2, <1>4, <2>1
<1>5. CASE ~(k < j) /\ k < N + j
  <2>1. I = {j}
    BY <1>0, <1>3, <1>5
  <2>2. Max(I) = j
    BY <2>1, MaxOfTwo
  <2>3. w[j].seq = -items[j].seq
    BY WritesAre
  <2> QED BY <1>2, <1>5, <2>1, <2>2, <2>3
<1>6. CASE ~(k < N + j)
  <2>1. I = {j, N + j}
    BY <1>0, <1>3, <1>6
  <2>2. Max(I) = N + j
    <3>1. N + j \in Nat /\ j \in Nat /\ j <= N + j
      BY <1>0
    <3> HIDE DEF I
    <3> QED BY <2>1, <3>1, MaxOfTwo
  <2>3. w[N + j].seq = items[j].seq /\ ~(k < j)
    BY <1>0, <1>6, WritesAre
  <2> QED BY <1>2, <1>6, <2>1, <2>2, <2>3
<1> QED BY <1>4, <1>5, <1>6

\* Parking the stops keeps every intermediate numbering free of clashes.
LEMMA RenumberingIsUnique ==
    ASSUME NEW items, GoodItems(items), NEW f \in [Stop -> Nat \ {0}], IsInjective(f)
    PROVE  Renumbers(f, Writes(items))
<1> DEFINE w == Writes(items)
<1>0. N \in Nat
  BY NType
<1>1. /\ \A s \in Stop : f[s] \in Nat \ {0}
      /\ \A s, t \in Stop : f[s] = f[t] => s = t
  BY DEF IsInjective
<1> SUFFICES ASSUME NEW k \in DOMAIN w PROVE IsInjective(Numbered(f, w, k))
  BY DEF Renumbers
<1>2. k \in 0..(2 * N)
  BY <1>0, WritesAre
<1> DEFINE g == Numbered(f, w, k)
<1>3. DOMAIN g = Stop
  BY DEF Numbered
<1> SUFFICES ASSUME NEW s \in Stop, NEW t \in Stop, g[s] = g[t] PROVE s = t
  BY <1>3 DEF IsInjective
<1>4. PICK i \in 1..N : items[i].stop = s
  BY DEF GoodItems
<1>5. PICK j \in 1..N : items[j].stop = t
  BY DEF GoodItems
<1>6. /\ g[s] = IF k < i THEN f[s] ELSE IF k < N + i THEN -items[i].seq ELSE items[i].seq
      /\ g[t] = IF k < j THEN f[t] ELSE IF k < N + j THEN -items[j].seq ELSE items[j].seq
  BY <1>2, <1>4, <1>5, NumberedIs
<1>7. items[i].seq \in 1..N /\ items[j].seq \in 1..N /\ f[s] \in Nat \ {0} /\ f[t] \in Nat \ {0}
  BY <1>1 DEF GoodItems
<1>8. CASE items[i].seq = items[j].seq
  BY <1>4, <1>5, <1>8 DEF GoodItems
<1>9. CASE f[s] = f[t]
  BY <1>1, <1>9
<1> HIDE DEF g
<1>10. items[i].seq = items[j].seq \/ f[s] = f[t]
  <2>1. PICK a, b, x, y : a = items[i].seq /\ b = items[j].seq /\ x = f[s] /\ y = f[t]
    OBVIOUS
  <2>2. a \in 1..N /\ b \in 1..N /\ x \in Nat \ {0} /\ y \in Nat \ {0}
    BY <1>7, <2>1
  <2>3. (IF k < i THEN x ELSE IF k < N + i THEN -a ELSE a)
        = (IF k < j THEN y ELSE IF k < N + j THEN -b ELSE b)
    BY <1>6, <2>1
  <2>4. a = b \/ x = y
    BY <1>0, <1>2, <2>2, <2>3
  <2> QED BY <2>1, <2>4
<1> QED BY <1>8, <1>9, <1>10

\* In the end the stops have the numbers of the list.
LEMMA RenumberedIs ==
    ASSUME NEW items, GoodItems(items), NEW f
    PROVE  LET w == Writes(items)  g == Numbered(f, w, Len(w)) IN
           g \in Bijection(Stop, 1..N) /\ Range(items) = AsItems(g)
<1> DEFINE w == Writes(items)  g == Numbered(f, w, Len(w))
<1>0. N \in Nat
  BY NType
<1>1. ASSUME NEW j \in 1..N PROVE g[items[j].stop] = items[j].seq
  <2>1. Len(w) = 2 * N
    BY WritesAre
  <2>2. 2 * N \in 0..(2 * N) /\ ~(2 * N < j) /\ ~(2 * N < N + j)
    BY <1>0
  <2> QED BY <2>1, <2>2, NumberedIs
<1>2. DOMAIN g = Stop /\ g = [s \in Stop |-> g[s]]
  BY DEF Numbered
<1> HIDE DEF g, w
<1>a. /\ \A i \in 1..N : items[i].stop \in Stop /\ items[i].seq \in 1..N
      /\ \A m, n \in 1..N : items[m].seq = items[n].seq => m = n
  BY Zenon DEF GoodItems
<1>b. /\ \A s \in Stop : \E i \in 1..N : items[i].stop = s
      /\ \A n \in 1..N : \E i \in 1..N : items[i].seq = n
  BY Zenon DEF GoodItems
<1>c. items \in Seq(Item) /\ Len(items) = N /\ DOMAIN items = 1..N
  BY Zenon DEF GoodItems
<1>3. g \in [Stop -> 1..N]
  <2>1. \A s \in Stop : g[s] \in 1..N
    <3> SUFFICES ASSUME NEW s \in Stop PROVE g[s] \in 1..N
      OBVIOUS
    <3>1. PICK i \in 1..N : items[i].stop = s
      BY <1>b, Zenon
    <3>2. g[s] = items[i].seq
      BY <1>1, <3>1, Zenon
    <3> QED BY <1>a, <3>2, Zenon
  <2> QED BY <1>2, <2>1, Zenon
<1>4. \A s, t \in Stop : g[s] = g[t] => s = t
  <2> SUFFICES ASSUME NEW s \in Stop, NEW t \in Stop, g[s] = g[t] PROVE s = t
    OBVIOUS
  <2>1. PICK i \in 1..N, j \in 1..N : items[i].stop = s /\ items[j].stop = t
    BY <1>b, Zenon
  <2>2. items[i].seq = items[j].seq
    BY <1>1, <2>1, Zenon
  <2> QED BY <1>a, <2>1, <2>2, Zenon
<1>5. \A n \in 1..N : \E s \in Stop : g[s] = n
  <2> SUFFICES ASSUME NEW n \in 1..N PROVE \E s \in Stop : g[s] = n
    OBVIOUS
  <2>1. PICK i \in 1..N : items[i].seq = n
    BY <1>b, Zenon
  <2>2. items[i].stop \in Stop /\ g[items[i].stop] = n
    BY <1>1, <1>a, <2>1, Zenon
  <2> QED BY <2>2
<1>6. g \in Bijection(Stop, 1..N)
  BY <1>3, <1>4, <1>5 DEF Bijection, Injection, Surjection, IsInjective
<1>7. \A i \in 1..N : items[i] = [stop |-> items[i].stop, seq |-> items[i].seq]
  <2>1. \A i \in 1..N : items[i] \in Item
    BY <1>c
  <2> QED BY <2>1 DEF Item
<1>8. Range(items) = AsItems(g)
  <2>1. Range(items) = {items[i] : i \in 1..N}
    BY <1>c, Zenon DEF Range
  <2>2. \A i \in 1..N : items[i] = [stop |-> items[i].stop, seq |-> g[items[i].stop]]
    BY <1>1, <1>7, Zenon
  <2>3. \A i \in 1..N : items[i] \in AsItems(g)
    BY <1>a, <2>2, Zenon DEF AsItems
  <2>4. \A s \in Stop : \E i \in 1..N : items[i] = [stop |-> s, seq |-> g[s]]
    <3> SUFFICES ASSUME NEW s \in Stop
                 PROVE  \E i \in 1..N : items[i] = [stop |-> s, seq |-> g[s]]
      OBVIOUS
    <3>1. PICK i \in 1..N : items[i].stop = s
      BY <1>b, Zenon
    <3> QED BY <2>2, <3>1, Zenon
  <2> QED BY <2>1, <2>3, <2>4, Zenon DEF AsItems
<1> QED BY <1>6, <1>8 DEF g, w

\* Stops with their numbers are a route that visits every stop once.
LEMMA EveryStopIsOnce == ASSUME NEW g PROVE EveryStopOnce(AsItems(g))
<1> DEFINE h == [s \in Stop |-> [stop |-> s, seq |-> g[s]]]
<1>1. h \in Bijection(Stop, AsItems(g))
  BY DEF AsItems, Bijection, Injection, Surjection, IsInjective
<1>2. Cardinality(AsItems(g)) = N
  BY <1>1, NType, FS_Bijection DEF ExistsBijection, N
<1>3. {i.stop : i \in AsItems(g)} = Stop
  <2>1. \A i \in AsItems(g) : i.stop \in Stop
    BY DEF AsItems
  <2>2. \A s \in Stop : [stop |-> s, seq |-> g[s]] \in AsItems(g)
    BY DEF AsItems
  <2>3. \A s \in Stop : \E i \in AsItems(g) : i.stop = s
    BY <2>2
  <2> QED BY <2>1, <2>3
<1> QED BY <1>2, <1>3 DEF EveryStopOnce

\* Stops numbered 1 to N make a complete route.
LEMMA NumberedIsComplete ==
    ASSUME NEW g \in Bijection(Stop, 1..N) PROVE Complete(AsItems(g))
<1>1. {i.seq : i \in AsItems(g)} = 1..N
  <2>1. \A i \in AsItems(g) : i.seq \in 1..N
    BY DEF AsItems, Bijection, Injection
  <2>2. \A s \in Stop : [stop |-> s, seq |-> g[s]] \in AsItems(g)
    BY DEF AsItems
  <2>3. \A n \in 1..N : \E s \in Stop : g[s] = n
    BY DEF Bijection, Surjection
  <2>4. \A n \in 1..N : \E i \in AsItems(g) : i.seq = n
    BY <2>2, <2>3
  <2> QED BY <2>1, <2>4
<1> QED BY <1>1, EveryStopIsOnce DEF Complete

-----------------------------------------------------------------------------
(* The invariant *)

\* A request under way has passed validateCompleteStopSet; one that inserts its
\* key, or looks it up after an error, has one.
RequestsAreChecked ==
    \A p \in Procs :
      /\ req[p].pc # "idle" => req[p].delivery \in Delivery /\ GoodItems(req[p].items)
      /\ req[p].pc \in {"key", "conflict", "aborted"} => req[p].key \in Key

\* The row of a delivery is held by the transaction that works on it, and only by it.
LocksAreHeld ==
    /\ \A d \in Delivery : lock[d] # None => Locked(lock[d]) /\ req[lock[d]].delivery = d
    /\ \A p \in Procs : Locked(p) => lock[req[p].delivery] = p

\* The versions are 1 to n, and a transaction about to commit has read n.
VersionsAreDense ==
    /\ \A d \in Delivery : IsFiniteSet(routes[d]) /\ Versions(d) = 1..Cardinality(routes[d])
    /\ \A p \in Procs : req[p].pc = "commit" =>
         req[p].version = Cardinality(routes[req[p].delivery]) + 1

\* Routes are numbered 1 to N, the stops as in the newest manual order or, before
\* there is one, as createDelivery numbered them.
Newest(d, r) == r.kind = "reorder"
                /\ \A q \in routes[d] : q.kind = "reorder" => q.version <= r.version
StopsAreNumbered ==
    \A d \in Delivery :
      /\ stopSeq[d] \in [Stop -> Nat \ {0}] /\ IsInjective(stopSeq[d])
      /\ (\A r \in routes[d] : r.kind # "reorder") => stopSeq[d] = FirstSeq
      /\ \A r \in routes[d] : \E g \in Bijection(Stop, 1..N) : r.stops = AsItems(g)
      /\ \A r \in routes[d] : Newest(d, r) => r.stops = AsItems(stopSeq[d])

Base == TypeOK /\ RequestsAreChecked /\ LocksAreHeld /\ VersionsAreDense /\ StopsAreNumbered

\* Only the slot p changes.
LEMMA Slot ==
    ASSUME TypeOK, NEW p \in Procs, NEW r, Goto(p, r)
    PROVE  req'[p] = r /\ \A q \in Procs \ {p} : req'[q] = req[q]
  BY DEF Goto, TypeOK

\* An idle slot is well typed.
LEMMA IdleType == Idle \in Request /\ Idle.pc = "idle"
  BY DEF Idle, Request, Kind, Mode

\* The highest version of a delivery.
LEMMA MaxVersionIs ==
    ASSUME VersionsAreDense, NEW d \in Delivery
    PROVE  /\ Cardinality(routes[d]) \in Nat
           /\ MaxVersion(d) = Cardinality(routes[d])
<1>1. Cardinality(routes[d]) \in Nat
  BY FS_CardinalityType DEF VersionsAreDense
<1> QED BY <1>1, MaxOfVersions DEF MaxVersion, VersionsAreDense

\* The writes of a transaction violate no constraint: the lock keeps its version
\* free, and the list was checked.
LEMMA NoUniqueErrors ==
    ASSUME Base, NEW p \in Procs, req[p].pc = "commit" PROVE UniqueErrors(p) = {}
<1> DEFINE d == req[p].delivery  items == req[p].items
<1>1. d \in Delivery /\ GoodItems(items)
  BY DEF Base, RequestsAreChecked
<1>2. req[p].version \notin Versions(d)
  <2>1. Cardinality(routes[d]) \in Nat
    BY <1>1, MaxVersionIs DEF Base
  <2>2. Versions(d) = 1..Cardinality(routes[d]) /\ req[p].version = Cardinality(routes[d]) + 1
    BY <1>1 DEF Base, VersionsAreDense
  <2> QED BY <2>1, <2>2
<1>3. ~(Cardinality({items[i].seq : i \in DOMAIN items}) < Len(items))
  <2>1. {items[i].seq : i \in DOMAIN items} = 1..N
    <3> HIDE DEF items
    <3>1. DOMAIN items = 1..N
      BY <1>1 DEF GoodItems
    <3>2. \A i \in 1..N : items[i].seq \in 1..N
      BY <1>1 DEF GoodItems
    <3>3. \A n \in 1..N : \E i \in 1..N : items[i].seq = n
      BY <1>1 DEF GoodItems
    <3> QED BY <3>1, <3>2, <3>3, Zenon
  <2>2. Cardinality(1..N) = N
    BY NType, FS_Interval
  <2>3. Len(items) = N
    BY <1>1 DEF GoodItems
  <2>4. Cardinality({items[i].seq : i \in DOMAIN items}) = N
    BY <2>1, <2>2, Zenon
  <2>5. ~(N < N)
    BY NType
  <2> QED BY <2>3, <2>4, <2>5, Zenon
<1>4. Renumbers(stopSeq[d], Writes(items))
  BY <1>1, RenumberingIsUnique DEF Base, StopsAreNumbered
<1> QED BY <1>2, <1>3, <1>4 DEF UniqueErrors

\* A commit stores the route of its request under its version.
LEMMA CommitStores ==
    ASSUME Base, NEW p \in Procs, Commit(p)
    PROVE  Store(p) /\ lock' = Release(p) /\ UNCHANGED <<terminal, stopTx, answered, crashed>>
  BY NoUniqueErrors DEF Commit

-----------------------------------------------------------------------------
(* Types and checked requests *)

\* A new request, or the same one in its next step.
LEMMA RequestStep ==
    ASSUME TypeOK, RequestsAreChecked, NEW p \in Procs, NEW r \in Request, Goto(p, r),
           r.pc # "idle" => r.delivery \in Delivery /\ GoodItems(r.items),
           r.pc \in {"key", "conflict", "aborted"} => r.key \in Key
    PROVE  req' \in [Procs -> Request] /\ RequestsAreChecked'
<1>1. req' \in [Procs -> Request]
  BY DEF Goto, TypeOK
<1> QED BY <1>1, Slot DEF RequestsAreChecked

\* A request that goes on within its transaction stays well typed and checked.
LEMMA AdvanceStep ==
    ASSUME TypeOK, RequestsAreChecked, NEW p \in Procs, req[p].pc # "idle",
           NEW pc \in {"key", "stops", "version", "commit", "conflict", "aborted", "broadcast"},
           NEW v \in Nat, NEW n \in Nat,
           pc \in {"key", "conflict", "aborted"} => req[p].key \in Key,
           Goto(p, [req[p] EXCEPT !.held = n, !.pc = pc, !.version = v])
    PROVE  req' \in [Procs -> Request] /\ RequestsAreChecked'
<1> DEFINE r == [req[p] EXCEPT !.held = n, !.pc = pc, !.version = v]
<1>1. req[p] \in Request
  BY DEF TypeOK
<1>2. r \in Request /\ r.pc = pc /\ r.delivery = req[p].delivery /\ r.items = req[p].items
      /\ r.key = req[p].key
  BY <1>1 DEF Request
<1>3. r.delivery \in Delivery /\ GoodItems(r.items)
  BY <1>2 DEF RequestsAreChecked
<1> HIDE DEF r
<1>4. Goto(p, r)
  BY DEF r
<1> QED BY <1>2, <1>3, <1>4, RequestStep

\* The same without a new version or another stop.
LEMMA AdvancePc ==
    ASSUME TypeOK, RequestsAreChecked, NEW p \in Procs, req[p].pc # "idle",
           NEW pc \in {"key", "stops", "version", "conflict", "aborted", "broadcast"},
           pc \in {"key", "conflict", "aborted"} => req[p].key \in Key,
           Goto(p, [req[p] EXCEPT !.pc = pc])
    PROVE  req' \in [Procs -> Request] /\ RequestsAreChecked'
<1>1. req[p] \in Request
  BY DEF TypeOK
<1>2. /\ req[p].version \in Nat /\ req[p].held \in Nat
      /\ [req[p] EXCEPT !.pc = pc] =
           [req[p] EXCEPT !.held = req[p].held, !.pc = pc, !.version = req[p].version]
  BY <1>1 DEF Request
<1> QED BY <1>2, AdvanceStep

\* What UpdateStop does to its request.
LEMMA UpdateStopGoes ==
    ASSUME NEW p \in Procs, UpdateStop(p)
    PROVE  \E pc \in {"stops", "version"} :
             Goto(p, [req[p] EXCEPT !.held = req[p].held + 1, !.pc = pc])
<1>1. PICK pc : pc = IF req[p].held + 1 = Len(req[p].items) THEN "version" ELSE "stops"
  OBVIOUS
<1>2. pc \in {"stops", "version"}
  BY <1>1
<1>3. Goto(p, [req[p] EXCEPT !.held = req[p].held + 1, !.pc = pc])
  BY <1>1, Zenon DEF UpdateStop
<1> QED BY <1>2, <1>3

\* An answer is added for a key.
LEMMA AnswerStep ==
    ASSUME TypeOK, NEW i \in Key \X Kind, NEW a \in Answer,
           answered' = [answered EXCEPT ![i] = @ \cup {a}]
    PROVE  answered' \in [Key \X Kind -> SUBSET Answer]
  BY DEF TypeOK

\* A request goes to its transaction with a list that has been checked.
LEMMA BeginChecked ==
    ASSUME TypeOK, RequestsAreChecked, NEW p \in Procs, NEW d \in Delivery, NEW kind \in Kind,
           NEW items \in Seq(Item), NEW source \in Mode, NEW key \in Key \cup {None},
           Begin(p, d, kind, items, source, key)
    PROVE  TypeOK' /\ RequestsAreChecked'
<1>1. CASE key # None /\ record[<<key, kind>>] # None
  <2>1. key \in Key /\ record[<<key, kind>>] \in Answer
    BY <1>1 DEF TypeOK
  <2>2. answered' \in [Key \X Kind -> SUBSET Answer]
    <3>1. <<key, kind>> \in Key \X Kind
      BY <2>1
    <3>2. answered' = [answered EXCEPT ![<<key, kind>>] = @ \cup {record[<<key, kind>>]}]
      BY <1>1 DEF Begin
    <3> QED BY <2>1, <3>1, <3>2, AnswerStep
  <2> QED BY <1>1, <2>2 DEF Begin, TypeOK, RequestsAreChecked, tables
<1>2. CASE ~(key # None /\ record[<<key, kind>>] # None)
  <2> DEFINE r == [pc |-> "lock", delivery |-> d, kind |-> kind, items |-> items,
                   held |-> 0, source |-> source, key |-> key, version |-> 0]
  <2>1. /\ Goto(p, r) /\ CompleteStopSet(items)
        /\ UNCHANGED <<tables, lock, stopTx, answered, failed, crashed>>
    BY <1>2 DEF Begin
  <2>2. r \in Request
    BY DEF Request
  <2>3. GoodItems(items)
    BY <2>1, CompleteIsGood
  <2>4. r.pc = "lock" /\ r.delivery = d /\ r.items = items
    OBVIOUS
  <2> HIDE DEF r
  <2>5. req' \in [Procs -> Request] /\ RequestsAreChecked'
    BY <2>1, <2>2, <2>3, <2>4, RequestStep
  <2> QED BY <2>1, <2>5 DEF TypeOK, tables
<1> QED BY <1>1, <1>2

\* Requests that arrive keep types and checks.
LEMMA ArriveChecked ==
    ASSUME TypeOK, RequestsAreChecked, NEW p \in Procs, NEW d \in Delivery, Arrive(p, d)
    PROVE  TypeOK' /\ RequestsAreChecked'
<1>1. PICK key \in Key \cup {None} :
        \/ \E x \in Selections : SelectRoute(p, d, x.order, x.source, key)
        \/ \E items \in Lists : ReorderStops(p, d, items, key)
  BY DEF Arrive
<1>2. ASSUME NEW x \in Selections, SelectRoute(p, d, x.order, x.source, key)
      PROVE  TypeOK' /\ RequestsAreChecked'
  <2>1. x.order \in Seq(Stop) /\ x.source \in Mode
    BY RoutesInputAssumption
  <2> DEFINE items == [i \in DOMAIN x.order |-> [stop |-> x.order[i], seq |-> i]]
  <2>2. \A i \in 1..Len(x.order) : [stop |-> x.order[i], seq |-> i] \in Item
    BY <2>1 DEF Item
  <2>3. items \in Seq(Item)
    BY <2>1, <2>2
  <2>4. Begin(p, d, "select", items, x.source, key)
    BY <1>2 DEF SelectRoute
  <2> HIDE DEF items
  <2> QED BY <2>1, <2>3, <2>4, BeginChecked DEF Kind
<1>3. ASSUME NEW items \in Lists, ReorderStops(p, d, items, key)
      PROVE  TypeOK' /\ RequestsAreChecked'
  <2>1. items \in Seq(Item)
    BY RoutesInputAssumption
  <2> QED BY <1>3, <2>1, BeginChecked DEF ReorderStops, Kind, Mode
<1> QED BY <1>1, <1>2, <1>3

\* Tell adds the answer of a request to those of its key.
LEMMA TellType ==
    ASSUME TypeOK, NEW p \in Procs, NEW a \in Answer, Tell(p, a)
    PROVE  answered' \in [Key \X Kind -> SUBSET Answer]
<1>1. req[p] \in Request
  BY DEF TypeOK
<1>2. CASE req[p].key = None
  BY <1>2 DEF Tell, TypeOK
<1>3. CASE req[p].key # None
  <2>1. RecordOf(p) \in Key \X Kind
    BY <1>1, <1>3 DEF RecordOf, Request
  <2> QED BY <1>3, <2>1, AnswerStep DEF Tell
<1> QED BY <1>2, <1>3

\* The row of a request that stays within the open transaction.
LEMMA ReleaseType ==
    ASSUME TypeOK, NEW p \in Procs PROVE Release(p) \in [Delivery -> Procs \cup {None}]
  BY DEF Release, TypeOK

\* A row of a stop is taken or left.
LEMMA StopTxType ==
    ASSUME TypeOK, NEW d, NEW s, NEW n \in StopNeeds, stopTx' = [stopTx EXCEPT ![d][s] = n]
    PROVE  stopTx' \in [Delivery -> [Stop -> StopNeeds]]
  BY DEF TypeOK

\* What a commit writes is well typed.
LEMMA StoreType ==
    ASSUME Base, NEW p \in Procs, req[p].pc = "commit", Store(p)
    PROVE  /\ stopSeq' \in [Delivery -> [Stop -> Int]] /\ mode' \in [Delivery -> Mode]
           /\ routes' \in [Delivery -> SUBSET Route]
           /\ record' \in [Key \X Kind -> Answer \cup {None}]
<1> DEFINE d == req[p].delivery  items == req[p].items
<1>1. req[p] \in Request /\ d \in Delivery /\ GoodItems(items)
  BY DEF Base, TypeOK, RequestsAreChecked
<1>2. TypeOK
  BY DEF Base
<1>3. stopSeq' \in [Delivery -> [Stop -> Int]]
  <2> DEFINE w == Writes(items)  g == Numbered(stopSeq[d], w, Len(w))
  <2>1. g \in Bijection(Stop, 1..N)
    BY <1>1, RenumberedIs
  <2>2. 1..N \subseteq Int
    BY NType
  <2>3. g \in [Stop -> Int]
    BY <2>1, <2>2 DEF Bijection, Injection
  <2>4. stopSeq' = stopSeq \/ stopSeq' = [stopSeq EXCEPT ![d] = g]
    BY DEF Store
  <2> HIDE DEF g
  <2> QED BY <1>2, <2>3, <2>4 DEF TypeOK
<1>4. mode' \in [Delivery -> Mode]
  BY <1>1, <1>2 DEF Store, TypeOK, Request
<1>5. routes' \in [Delivery -> SUBSET Route]
  <2>1. Range(items) \subseteq Item
    BY <1>1 DEF Range, GoodItems
  <2>2. NewRoute(p) \in Route
    BY <1>1, <2>1 DEF NewRoute, Route, Request
  <2> QED BY <1>2, <2>2 DEF Store, TypeOK
<1>6. record' \in [Key \X Kind -> Answer \cup {None}]
  <2>1. CASE req[p].key = None
    BY <1>2, <2>1 DEF Store, TypeOK
  <2>2. CASE req[p].key # None
    <3>1. [delivery |-> d, version |-> req[p].version] \in Answer
      BY <1>1 DEF Answer, Request
    <3>2. record' = [record EXCEPT ![RecordOf(p)] = [delivery |-> d, version |-> req[p].version]]
      BY <2>2 DEF Store
    <3> QED BY <1>2, <3>1, <3>2 DEF TypeOK
  <2> QED BY <2>1, <2>2
<1> QED BY <1>3, <1>4, <1>5, <1>6

\* Every statement of a transaction keeps types and checks.
LEMMA ProceedChecked ==
    ASSUME Base, NEW p \in Procs, Proceed(p) PROVE TypeOK' /\ RequestsAreChecked'
<1>0. TypeOK /\ RequestsAreChecked /\ req[p] \in Request
  BY DEF Base, TypeOK
<1>1. ASSUME Goto(p, Idle) PROVE req' \in [Procs -> Request] /\ RequestsAreChecked'
  BY <1>0, <1>1, IdleType, RequestStep
<1>2. CASE LockRouteMutation(p)
  <2>1. req' \in [Procs -> Request] /\ RequestsAreChecked'
    <3>1. req[p].key # None => req[p].key \in Key
      BY <1>0 DEF Request
    <3> QED BY <1>0, <1>2, <3>1, AdvancePc DEF LockRouteMutation, AfterKey
  <2>2. lock' \in [Delivery -> Procs \cup {None}]
    BY <1>0, <1>2 DEF LockRouteMutation, TypeOK
  <2> QED BY <1>0, <1>2, <2>1, <2>2 DEF LockRouteMutation, TypeOK, tables, history
<1>3. CASE InsertKey(p)
  <2>1. req[p].pc = "key" /\ req[p].key \in Key
    BY <1>0, <1>3 DEF InsertKey, RequestsAreChecked
  <2>2. req' \in [Procs -> Request] /\ RequestsAreChecked'
    BY <1>0, <1>3, <2>1, AdvancePc DEF InsertKey, AfterKey
  <2>3. lock' \in [Delivery -> Procs \cup {None}]
    <3>1. lock' = Release(p) \/ lock' = lock
      BY <1>3 DEF InsertKey
    <3> QED BY <1>0, <3>1, ReleaseType DEF TypeOK
  <2> QED BY <1>0, <1>3, <2>2, <2>3 DEF InsertKey, TypeOK, tables, history
<1>4. CASE ReadVersion(p)
  <2>1. MaxVersion(req[p].delivery) + 1 \in Nat
    <3>1. req[p].delivery \in Delivery
      BY <1>0, <1>4 DEF ReadVersion, RequestsAreChecked
    <3> QED BY <3>1, MaxVersionIs DEF Base
  <2>2. req' \in [Procs -> Request] /\ RequestsAreChecked'
    <3>1. PICK v \in Nat : v = MaxVersion(req[p].delivery) + 1
      BY <2>1
    <3>2. req[p].held \in Nat /\ [req[p] EXCEPT !.pc = "commit", !.version = v] =
            [req[p] EXCEPT !.held = req[p].held, !.pc = "commit", !.version = v]
      BY <1>0 DEF Request
    <3>3. req[p].pc # "idle" /\ Goto(p, [req[p] EXCEPT !.pc = "commit", !.version = v])
      BY <1>4, <3>1 DEF ReadVersion
    <3> QED BY <1>0, <3>2, <3>3, AdvanceStep
  <2> QED BY <1>0, <1>4, <2>2 DEF ReadVersion, TypeOK, tables, history
<1>5. CASE Commit(p)
  <2>1. Store(p) /\ lock' = Release(p) /\ UNCHANGED <<terminal, stopTx, answered, crashed>>
        /\ req[p].pc = "commit"
    BY <1>5, CommitStores DEF Commit
  <2>2. req' \in [Procs -> Request] /\ RequestsAreChecked'
    BY <1>0, <2>1, AdvancePc DEF Store
  <2> QED BY <1>0, <2>1, <2>2, StoreType, ReleaseType DEF TypeOK, Store
<1>6. CASE Conflict(p)
  <2>1. RecordOf(p) \in Key \X Kind
    BY <1>0, <1>6 DEF Conflict, RequestsAreChecked, RecordOf, Request
  <2>2. answered' \in [Key \X Kind -> SUBSET Answer]
    <3>1. CASE record[RecordOf(p)] # None
      <4>1. record[RecordOf(p)] \in Answer
        BY <1>0, <2>1, <3>1 DEF TypeOK
      <4> QED BY <1>0, <1>6, <3>1, <4>1, TellType DEF Conflict
    <3>2. CASE record[RecordOf(p)] = None
      BY <1>0, <1>6, <3>2 DEF Conflict, TypeOK
    <3> QED BY <3>1, <3>2
  <2>3. failed' \subseteq {"version", "route_stops", "stop_sequence", "unknown"}
    BY <1>0, <1>6 DEF Conflict, TypeOK
  <2>4. req' \in [Procs -> Request] /\ RequestsAreChecked'
    BY <1>1, <1>6 DEF Conflict
  <2> QED BY <1>0, <1>6, <2>2, <2>3, <2>4 DEF Conflict, TypeOK, tables
<1>7. CASE BroadcastRouteUpdated(p)
  <2>1. [delivery |-> req[p].delivery, version |-> req[p].version] \in Answer
    BY <1>0, <1>7 DEF BroadcastRouteUpdated, RequestsAreChecked, Answer, Request
  <2>2. answered' \in [Key \X Kind -> SUBSET Answer]
    BY <1>0, <1>7, <2>1, TellType DEF BroadcastRouteUpdated
  <2>3. req' \in [Procs -> Request] /\ RequestsAreChecked'
    BY <1>1, <1>7 DEF BroadcastRouteUpdated
  <2> QED BY <1>0, <1>7, <2>2, <2>3 DEF BroadcastRouteUpdated, TypeOK, tables
<1>8. CASE UpdateStop(p)
  <2>1. PICK pc \in {"stops", "version"} :
        Goto(p, [req[p] EXCEPT !.held = req[p].held + 1, !.pc = pc])
    BY <1>8, UpdateStopGoes
  <2>2. PICK n \in Nat : n = req[p].held + 1
    BY <1>0 DEF Request
  <2>4. req[p].version \in Nat /\ [req[p] EXCEPT !.held = n, !.pc = pc] =
          [req[p] EXCEPT !.held = n, !.pc = pc, !.version = req[p].version]
    BY <1>0 DEF Request
  <2>5. Goto(p, [req[p] EXCEPT !.held = n, !.pc = pc, !.version = req[p].version])
    BY <2>1, <2>2, <2>4, Zenon
  <2>6. req[p].pc # "idle"
    BY <1>8 DEF UpdateStop
  <2>3. req' \in [Procs -> Request] /\ RequestsAreChecked'
    BY <1>0, <2>4, <2>5, <2>6, AdvanceStep
  <2> QED BY <1>0, <1>8, <2>3 DEF UpdateStop, TypeOK, tables, history
<1>9. CASE Abort(p)
  <2>1. req' \in [Procs -> Request] /\ RequestsAreChecked'
    <3>1. CASE req[p].key = None
      BY <1>1, <1>9, <3>1 DEF Abort
    <3>2. CASE req[p].key # None
      <4>1. req[p].key \in Key /\ req[p].pc # "idle"
        BY <1>0, <1>9, <3>2 DEF Request, Abort, Locked
      <4> QED BY <1>0, <1>9, <3>2, <4>1, AdvancePc DEF Abort
    <3> QED BY <3>1, <3>2
  <2>2. lock' \in [Delivery -> Procs \cup {None}]
    <3>1. lock' = Release(p) \/ lock' = lock
      BY <1>9 DEF Abort
    <3> QED BY <1>0, <3>1, ReleaseType DEF TypeOK
  <2> QED BY <1>0, <1>9, <2>1, <2>2 DEF Abort, TypeOK, tables, history
<1>10. CASE BreakDeadlock(p)
  <2>1. PICK d, s : stopTx' = [stopTx EXCEPT ![d][s] = "none"]
    BY <1>10 DEF BreakDeadlock
  <2>2. stopTx' \in [Delivery -> [Stop -> StopNeeds]]
    BY <1>0, <2>1, StopTxType DEF StopNeeds
  <2> QED BY <1>0, <1>10, <2>2 DEF BreakDeadlock, TypeOK, RequestsAreChecked, tables, history
<1> QED BY <1>2, <1>3, <1>4, <1>5, <1>6, <1>7, <1>8, <1>9, <1>10 DEF Proceed

\* Every step keeps types and checks.
LEMMA StepChecked ==
    ASSUME Base, [Next]_vars PROVE TypeOK' /\ RequestsAreChecked'
<1>0. TypeOK /\ RequestsAreChecked
  BY DEF Base
<1>1. ASSUME NEW d \in Delivery, EndDelivery(d) PROVE TypeOK' /\ RequestsAreChecked'
  BY <1>0, <1>1 DEF EndDelivery, TypeOK, RequestsAreChecked, history
<1>4. ASSUME NEW d \in Delivery, NEW s \in Stop,
             LeaveStop(d, s) \/ \E n \in StopNeeds \ {"none"} : TakeStop(d, s, n)
      PROVE  TypeOK' /\ RequestsAreChecked'
  <2>1. PICK n \in StopNeeds : stopTx' = [stopTx EXCEPT ![d][s] = n]
    BY <1>4 DEF LeaveStop, TakeStop, StopNeeds
  <2>2. UNCHANGED <<tables, lock, history, req>>
    BY <1>4 DEF LeaveStop, TakeStop
  <2>3. stopTx' \in [Delivery -> [Stop -> StopNeeds]]
    BY <1>0, <2>1, StopTxType
  <2> QED BY <1>0, <2>2, <2>3 DEF TypeOK, RequestsAreChecked, tables, history
<1>2. CASE Crash
  <2>1. \A p \in Procs : req'[p] = Idle
    BY <1>2 DEF Crash
  <2>2. RequestsAreChecked'
    BY <2>1, IdleType DEF RequestsAreChecked
  <2>3. req' \in [Procs -> Request]
    BY <1>2, IdleType DEF Crash
  <2>4. stopTx' \in [Delivery -> [Stop -> StopNeeds]]
    BY <1>2 DEF Crash, StopNeeds
  <2> QED BY <1>0, <1>2, <2>2, <2>3, <2>4 DEF Crash, TypeOK, tables
<1>3. CASE UNCHANGED vars
  BY <1>0, <1>3 DEF TypeOK, RequestsAreChecked, vars, tables, history
<1> QED BY <1>0, <1>1, <1>2, <1>3, <1>4, ArriveChecked, ProceedChecked DEF Next

-----------------------------------------------------------------------------
(* The row locks *)

Open == {"key", "stops", "version", "commit"}

\* A request outside its transaction goes on outside it.
LEMMA StaysOutside ==
    ASSUME Base, NEW p \in Procs, NEW r, Goto(p, r), UNCHANGED lock,
           req[p].pc \notin Open, r.pc \notin Open
    PROVE  LocksAreHeld'
<1>1. TypeOK /\ LocksAreHeld
  BY DEF Base
<1>2. req'[p] = r /\ \A q \in Procs \ {p} : req'[q] = req[q]
  BY <1>1, Slot
<1>3. \A d \in Delivery : lock[d] # None => lock[d] \in Procs
  BY <1>1 DEF TypeOK
<1> QED BY <1>1, <1>2, <1>3 DEF LocksAreHeld, Locked, Open

\* An open transaction goes on.
LEMMA StaysInside ==
    ASSUME Base, NEW p \in Procs, NEW r, Goto(p, r), UNCHANGED lock,
           req[p].pc \in Open, r.pc \in Open, r.delivery = req[p].delivery
    PROVE  LocksAreHeld'
<1>1. TypeOK /\ LocksAreHeld
  BY DEF Base
<1>2. req'[p] = r /\ \A q \in Procs \ {p} : req'[q] = req[q]
  BY <1>1, Slot
<1>3. \A d \in Delivery : lock[d] # None => lock[d] \in Procs
  BY <1>1 DEF TypeOK
<1> QED BY <1>1, <1>2, <1>3 DEF LocksAreHeld, Locked, Open

\* A transaction ends, committed or rolled back.
LEMMA Ends ==
    ASSUME Base, NEW p \in Procs, NEW r, Goto(p, r), lock' = Release(p),
           req[p].pc \in Open, r.pc \notin Open
    PROVE  LocksAreHeld'
<1>1. TypeOK /\ LocksAreHeld
  BY DEF Base
<1>2. req'[p] = r /\ \A q \in Procs \ {p} : req'[q] = req[q]
  BY <1>1, Slot
<1>3. /\ \A d \in Delivery : lock[d] # None => lock[d] \in Procs
      /\ \A q \in Procs : Locked(q) => req[q].delivery \in Delivery
      /\ req[p].delivery \in Delivery
  BY DEF Base, TypeOK, RequestsAreChecked, Locked, Open
<1>4. \A d \in Delivery : lock'[d] = IF d = req[p].delivery THEN None ELSE lock[d]
  BY <1>1 DEF Release, TypeOK
<1>5. \A d \in Delivery : lock'[d] # None => lock'[d] = lock[d] /\ lock[d] # p
  BY <1>1, <1>4 DEF LocksAreHeld
<1>6. \A q \in Procs : Locked(q) /\ q # p => req[q].delivery # req[p].delivery
  BY <1>1 DEF LocksAreHeld, Locked, Open
<1> QED BY <1>1, <1>2, <1>3, <1>4, <1>5, <1>6 DEF LocksAreHeld, Locked, Open

\* lockRouteMutation takes a row that is free.
LEMMA Acquires ==
    ASSUME Base, NEW p \in Procs, LockRouteMutation(p) PROVE LocksAreHeld'
<1> DEFINE d == req[p].delivery
<1>1. TypeOK /\ LocksAreHeld /\ d \in Delivery /\ req[p].pc = "lock" /\ lock[d] = None
  BY DEF Base, LockRouteMutation, RequestsAreChecked, LockFree
<1>2. req'[p].pc \in Open /\ req'[p].delivery = d /\ \A q \in Procs \ {p} : req'[q] = req[q]
  <2>1. PICK pc \in {"stops", "version", "key"} : Goto(p, [req[p] EXCEPT !.pc = pc])
    BY DEF LockRouteMutation, AfterKey
  <2>2. req[p] \in Request
    BY <1>1 DEF TypeOK
  <2>3. [req[p] EXCEPT !.pc = pc].pc = pc /\ [req[p] EXCEPT !.pc = pc].delivery = d
    BY <2>2 DEF Request
  <2> QED BY <1>1, <2>1, <2>3, Slot DEF Open
<1>3. \A e \in Delivery : lock'[e] = IF e = d THEN p ELSE lock[e]
  BY <1>1 DEF LockRouteMutation, TypeOK
<1>4. /\ \A e \in Delivery : lock[e] # None => lock[e] \in Procs
      /\ \A q \in Procs : Locked(q) => req[q].delivery \in Delivery
      /\ p # None
  BY <1>1, RoutesAssumption DEF Base, TypeOK, RequestsAreChecked, Locked
<1>5. \A q \in Procs : Locked(q) => req[q].delivery # d
  BY <1>1, <1>4, RoutesAssumption DEF LocksAreHeld
<1>6. ~Locked(p)
  BY <1>1 DEF Locked
<1>7. ASSUME NEW e \in Delivery, lock'[e] # None
      PROVE  Locked(lock[e])' /\ req'[lock'[e]].delivery = e
  <2>1. CASE e = d
    BY <1>2, <1>3, <2>1 DEF Locked, Open
  <2>2. CASE e # d
    <3>1. lock'[e] = lock[e] /\ lock[e] \in Procs \ {p}
      BY <1>1, <1>3, <1>4, <1>6, <1>7, <2>2 DEF LocksAreHeld
    <3>2. Locked(lock[e]) /\ req[lock[e]].delivery = e
      BY <1>1, <1>7, <3>1 DEF LocksAreHeld
    <3> QED BY <1>2, <3>1, <3>2 DEF Locked
  <2> QED BY <2>1, <2>2
<1>8. ASSUME NEW q \in Procs, Locked(q)' PROVE lock'[req'[q].delivery] = q
  <2>1. CASE q = p
    BY <1>1, <1>2, <1>3, <2>1
  <2>2. CASE q # p
    <3>1. req'[q] = req[q] /\ Locked(q)
      BY <1>2, <1>8, <2>2 DEF Locked
    <3> QED BY <1>1, <1>3, <1>4, <1>5, <3>1 DEF LocksAreHeld
  <2> QED BY <2>1, <2>2
<1> QED BY <1>7, <1>8 DEF LocksAreHeld

\* Every step keeps row locks with the transactions that are open.
LEMMA StepLocks == ASSUME Base, [Next]_vars PROVE LocksAreHeld'
<1>0. TypeOK /\ LocksAreHeld
  BY DEF Base
<1>1. ASSUME NEW p \in Procs, NEW d \in Delivery, Arrive(p, d) PROVE LocksAreHeld'
  <2>1. PICK kind, items, source, key : Begin(p, d, kind, items, source, key)
    BY <1>1 DEF Arrive, SelectRoute, ReorderStops
  <2>2. CASE UNCHANGED req
    BY <1>0, <2>1, <2>2 DEF Begin, LocksAreHeld, Locked
  <2>3. CASE req' # req
    <3> DEFINE r == [pc |-> "lock", delivery |-> d, kind |-> kind, items |-> items,
                     held |-> 0, source |-> source, key |-> key, version |-> 0]
    <3>1. Goto(p, r) /\ UNCHANGED lock /\ req[p].pc = "idle"
      BY <2>1, <2>3 DEF Begin
    <3>2. r.pc = "lock"
      OBVIOUS
    <3> HIDE DEF r
    <3> QED BY <3>1, <3>2, StaysOutside DEF Open
  <2> QED BY <2>2, <2>3
<1>2. ASSUME NEW p \in Procs, Proceed(p) PROVE LocksAreHeld'
  <2>0. req[p] \in Request
    BY <1>0 DEF TypeOK
  <2>1. ASSUME NEW pc, NEW r, r = [req[p] EXCEPT !.pc = pc]
        PROVE  r.pc = pc /\ r.delivery = req[p].delivery
    BY <2>0, <2>1 DEF Request
  <2>2. CASE InsertKey(p)
    <3>1. req[p].pc \in Open
      BY <2>2 DEF InsertKey, Open
    <3>2. CASE Goto(p, [req[p] EXCEPT !.pc = "conflict"]) /\ lock' = Release(p)
      <4>1. PICK r : r = [req[p] EXCEPT !.pc = "conflict"]
        OBVIOUS
      <4>2. r.pc \notin Open
        BY <2>1, <4>1 DEF Open
      <4> QED BY <3>1, <3>2, <4>1, <4>2, Ends
    <3>3. CASE Goto(p, [req[p] EXCEPT !.pc = AfterKey(p)]) /\ UNCHANGED lock
      <4>1. PICK r : r = [req[p] EXCEPT !.pc = AfterKey(p)]
        OBVIOUS
      <4>2. r.pc \in Open /\ r.delivery = req[p].delivery
        BY <2>1, <4>1 DEF Open, AfterKey
      <4> QED BY <3>1, <3>3, <4>1, <4>2, StaysInside
    <3> QED BY <2>2, <3>2, <3>3 DEF InsertKey
  <2>3. CASE ReadVersion(p)
    <3>1. PICK r : r = [req[p] EXCEPT !.pc = "commit", !.version = MaxVersion(req[p].delivery) + 1]
      OBVIOUS
    <3>2. r.pc \in Open /\ r.delivery = req[p].delivery
      BY <2>0, <3>1 DEF Request, Open
    <3>3. Goto(p, r) /\ UNCHANGED lock /\ req[p].pc \in Open
      BY <2>3, <3>1 DEF ReadVersion, Open
    <3> QED BY <3>2, <3>3, StaysInside
  <2>4. CASE Commit(p)
    <3>1. Store(p) /\ lock' = Release(p) /\ req[p].pc \in Open
      BY <2>4, CommitStores DEF Commit, Open
    <3>2. PICK r : r = [req[p] EXCEPT !.pc = "broadcast"]
      OBVIOUS
    <3>3. r.pc \notin Open /\ Goto(p, r)
      BY <2>1, <3>1, <3>2 DEF Open, Store
    <3> QED BY <3>1, <3>3, Ends
  <2>5. CASE Conflict(p) \/ BroadcastRouteUpdated(p)
    <3>1. Goto(p, Idle) /\ UNCHANGED lock /\ req[p].pc \notin Open
      BY <2>5 DEF Conflict, BroadcastRouteUpdated, Open
    <3> QED BY <3>1, StaysOutside, IdleType DEF Open
  <2>6. CASE UpdateStop(p)
    <3>1. PICK pc \in {"stops", "version"} :
          Goto(p, [req[p] EXCEPT !.held = req[p].held + 1, !.pc = pc])
      BY <2>6, UpdateStopGoes
    <3>2. PICK r : r = [req[p] EXCEPT !.held = req[p].held + 1, !.pc = pc]
      OBVIOUS
    <3>3. r.pc \in Open /\ r.delivery = req[p].delivery
      BY <2>0, <3>2 DEF Request, Open
    <3>4. Goto(p, r) /\ UNCHANGED lock /\ req[p].pc \in Open
      BY <2>6, <3>1, <3>2 DEF UpdateStop, Open
    <3> QED BY <3>3, <3>4, StaysInside
  <2>7. CASE Abort(p)
    <3>1. PICK r : r = IF req[p].key = None THEN Idle ELSE [req[p] EXCEPT !.pc = "aborted"]
      OBVIOUS
    <3>2. PICK x : x = [req[p] EXCEPT !.pc = "aborted"]
      OBVIOUS
    <3>3. r.pc \notin Open
      BY <2>1, <3>1, <3>2, IdleType DEF Open
    <3>4. Goto(p, r)
      BY <2>7, <3>1 DEF Abort
    <3>5. CASE Locked(p)
      BY <2>7, <3>3, <3>4, <3>5, Ends DEF Abort, Locked, Open
    <3>6. CASE ~Locked(p)
      BY <2>7, <3>3, <3>4, <3>6, StaysOutside DEF Abort, Locked, Open
    <3> QED BY <3>5, <3>6
  <2>8. CASE BreakDeadlock(p)
    BY <1>0, <2>8 DEF BreakDeadlock, LocksAreHeld, Locked
  <2> QED BY <1>2, <2>2, <2>3, <2>4, <2>5, <2>6, <2>7, <2>8, Acquires DEF Proceed
<1>3. CASE \E d \in Delivery : EndDelivery(d)
  BY <1>0, <1>3 DEF EndDelivery, LocksAreHeld, Locked
<1>6. ASSUME NEW d \in Delivery, NEW s \in Stop,
             LeaveStop(d, s) \/ \E n \in StopNeeds \ {"none"} : TakeStop(d, s, n)
      PROVE  LocksAreHeld'
  <2>1. UNCHANGED <<lock, req>>
    BY <1>6 DEF LeaveStop, TakeStop
  <2> QED BY <1>0, <2>1 DEF LocksAreHeld, Locked
<1>4. CASE Crash
  BY <1>4, IdleType DEF Crash, LocksAreHeld, Locked
<1>5. CASE UNCHANGED vars
  BY <1>0, <1>5 DEF vars, LocksAreHeld, Locked
<1> QED BY <1>1, <1>2, <1>3, <1>4, <1>5, <1>6 DEF Next

-----------------------------------------------------------------------------
(* Versions and numbers *)

\* What a step does to the routes and the numbers: nothing, or a commit.
LEMMA StepTables ==
    ASSUME Base, [Next]_vars
    PROVE  \/ /\ UNCHANGED <<stopSeq, routes>>
              /\ \A q \in Procs : req'[q].pc = "commit" =>
                   \/ req'[q] = req[q]
                   \/ /\ req'[q].delivery \in Delivery
                      /\ req'[q].version = MaxVersion(req'[q].delivery) + 1
           \/ \E p \in Procs : Commit(p)
<1>0. TypeOK
  BY DEF Base
<1>1. ASSUME NEW p \in Procs, NEW d \in Delivery, Arrive(p, d)
      PROVE  UNCHANGED <<stopSeq, routes>> /\ \A q \in Procs : req'[q].pc = "commit" => req'[q] = req[q]
  <2>1. PICK kind, items, source, key : Begin(p, d, kind, items, source, key)
    BY <1>1 DEF Arrive, SelectRoute, ReorderStops
  <2> QED BY <1>0, <2>1, Slot DEF Begin, tables
<1>2. ASSUME NEW p \in Procs, LockRouteMutation(p) \/ InsertKey(p)
      PROVE  UNCHANGED <<stopSeq, routes>> /\ \A q \in Procs : req'[q].pc = "commit" => req'[q] = req[q]
  <2>1. PICK pc \in {"key", "stops", "version", "conflict"} : Goto(p, [req[p] EXCEPT !.pc = pc])
    BY <1>2 DEF LockRouteMutation, InsertKey, AfterKey
  <2>2. [req[p] EXCEPT !.pc = pc].pc = pc
    BY <1>0 DEF TypeOK, Request
  <2> QED BY <1>0, <1>2, <2>1, <2>2, Slot DEF LockRouteMutation, InsertKey, tables
<1>3. ASSUME NEW p \in Procs, Conflict(p) \/ BroadcastRouteUpdated(p)
      PROVE  UNCHANGED <<stopSeq, routes>> /\ \A q \in Procs : req'[q].pc = "commit" => req'[q] = req[q]
  <2>1. Goto(p, Idle)
    BY <1>3 DEF Conflict, BroadcastRouteUpdated
  <2> QED BY <1>0, <1>3, <2>1, Slot, IdleType DEF Conflict, BroadcastRouteUpdated, tables
<1>4. ASSUME NEW p \in Procs, ReadVersion(p)
      PROVE  /\ UNCHANGED <<stopSeq, routes>>
             /\ \A q \in Procs : req'[q].pc = "commit" =>
                   \/ req'[q] = req[q]
                   \/ /\ req'[q].delivery \in Delivery
                      /\ req'[q].version = MaxVersion(req'[q].delivery) + 1
  <2>1. PICK r : r = [req[p] EXCEPT !.pc = "commit", !.version = MaxVersion(req[p].delivery) + 1]
    OBVIOUS
  <2>2. req[p] \in Request /\ req[p].delivery \in Delivery
    BY <1>4 DEF Base, TypeOK, RequestsAreChecked, ReadVersion
  <2>3. r.delivery = req[p].delivery /\ r.version = MaxVersion(req[p].delivery) + 1
    BY <2>1, <2>2 DEF Request
  <2>4. req'[p] = r /\ \A q \in Procs \ {p} : req'[q] = req[q]
    BY <1>0, <1>4, <2>1, Slot DEF ReadVersion
  <2> QED BY <1>4, <2>2, <2>3, <2>4 DEF ReadVersion, tables
<1>5. CASE \E d \in Delivery : EndDelivery(d)
  BY <1>5 DEF EndDelivery
<1>6. CASE Crash
  BY <1>6, IdleType DEF Crash, tables
<1>7. CASE UNCHANGED vars
  BY <1>7 DEF vars, tables
<1>8. ASSUME NEW p \in Procs, UpdateStop(p)
      PROVE  UNCHANGED <<stopSeq, routes>> /\ \A q \in Procs : req'[q].pc = "commit" => req'[q] = req[q]
  <2>1. PICK pc \in {"stops", "version"} :
        Goto(p, [req[p] EXCEPT !.held = req[p].held + 1, !.pc = pc])
    BY <1>8, UpdateStopGoes
  <2>2. [req[p] EXCEPT !.held = req[p].held + 1, !.pc = pc].pc = pc
    BY <1>0 DEF TypeOK, Request
  <2> QED BY <1>0, <1>8, <2>1, <2>2, Slot DEF UpdateStop, tables
<1>9. ASSUME NEW p \in Procs, Abort(p)
      PROVE  UNCHANGED <<stopSeq, routes>> /\ \A q \in Procs : req'[q].pc = "commit" => req'[q] = req[q]
  <2>1. PICK x : x = [req[p] EXCEPT !.pc = "aborted"]
    OBVIOUS
  <2>2. x.pc = "aborted"
    BY <1>0, <2>1 DEF TypeOK, Request
  <2>3. Goto(p, Idle) \/ Goto(p, x)
    BY <1>9, <2>1 DEF Abort
  <2> QED BY <1>0, <1>9, <2>2, <2>3, Slot, IdleType DEF Abort, tables
<1>10. CASE \/ \E p \in Procs : BreakDeadlock(p)
            \/ \E d \in Delivery, s \in Stop :
                 LeaveStop(d, s) \/ \E n \in StopNeeds \ {"none"} : TakeStop(d, s, n)
  BY <1>10 DEF BreakDeadlock, LeaveStop, TakeStop, tables
<1> QED BY <1>1, <1>2, <1>3, <1>4, <1>5, <1>6, <1>7, <1>8, <1>9, <1>10 DEF Next, Proceed

\* The commit of a route r as version n + 1 of d.
Committed(p, d, n, r) ==
    /\ d \in Delivery /\ n \in Nat
    /\ Versions(d) = 1..n /\ r.version = n + 1 /\ r \notin routes[d]
    /\ \A e \in Delivery : routes'[e] = IF e = d THEN routes[d] \cup {r} ELSE routes[e]
    /\ \A q \in Procs \ {p} : req'[q] = req[q]
    /\ \A q \in Procs : req'[q].pc = "commit" => q # p /\ req[q].delivery # d

\* What a commit finds: its row is locked, its version is the next one.
LEMMA CommitFacts ==
    ASSUME Base, NEW p \in Procs, Commit(p), NEW d, d = req[p].delivery,
           NEW n, n = Cardinality(routes[d]), NEW s, s = NewRoute(p)
    PROVE  Committed(p, d, n, s)
<1>1. TypeOK /\ req[p].pc = "commit" /\ d \in Delivery
  BY DEF Base, Commit, RequestsAreChecked
<1>2. n \in Nat /\ Versions(d) = 1..n /\ req[p].version = n + 1
  BY <1>1, MaxVersionIs DEF Base, VersionsAreDense
<1>3. Store(p)
  BY CommitStores
<1>4. NewRoute(p).version = n + 1
  BY <1>2 DEF NewRoute
<1>5. NewRoute(p) \notin routes[d]
  <2>1. n + 1 \notin Versions(d)
    BY <1>2
  <2> QED BY <1>4, <2>1 DEF Versions
<1>6. \A e \in Delivery : routes'[e] = IF e = d THEN routes[d] \cup {NewRoute(p)} ELSE routes[e]
  BY <1>1, <1>3 DEF Store, TypeOK
<1>7. PICK r : r = [req[p] EXCEPT !.pc = "broadcast"]
  OBVIOUS
<1>8. r.pc = "broadcast" /\ req'[p] = r /\ \A q \in Procs \ {p} : req'[q] = req[q]
  <2>1. r.pc = "broadcast"
    BY <1>1, <1>7 DEF TypeOK, Request
  <2> QED BY <1>1, <1>3, <1>7, <2>1, Slot DEF Store
<1>9. \A q \in Procs : req'[q].pc = "commit" => q # p /\ req[q].delivery # d
  BY <1>1, <1>8 DEF Base, LocksAreHeld, Locked
<1> QED BY <1>1, <1>2, <1>4, <1>5, <1>6, <1>8, <1>9 DEF Committed

\* Every step keeps the versions of a delivery without gaps.
LEMMA StepVersions == ASSUME Base, [Next]_vars PROVE VersionsAreDense'
<1>0. VersionsAreDense
  BY DEF Base
<1>1. CASE /\ UNCHANGED <<stopSeq, routes>>
           /\ \A q \in Procs : req'[q].pc = "commit" =>
                \/ req'[q] = req[q]
                \/ /\ req'[q].delivery \in Delivery
                   /\ req'[q].version = MaxVersion(req'[q].delivery) + 1
  <2>1. \A d \in Delivery : MaxVersion(d) = Cardinality(routes[d])
    BY <1>0, MaxVersionIs
  <2> QED BY <1>0, <1>1, <2>1 DEF VersionsAreDense, Versions
<1>2. ASSUME NEW p \in Procs, Commit(p) PROVE VersionsAreDense'
  <2>1. PICK d, n, r : d = req[p].delivery /\ n = Cardinality(routes[d]) /\ r = NewRoute(p)
    OBVIOUS
  <2>0. Committed(p, d, n, r)
    BY <1>2, <2>1, CommitFacts
  <2>2. /\ d \in Delivery /\ n \in Nat
        /\ Versions(d) = 1..n /\ r.version = n + 1 /\ r \notin routes[d]
        /\ \A e \in Delivery : routes'[e] = IF e = d THEN routes[d] \cup {r} ELSE routes[e]
        /\ \A q \in Procs \ {p} : req'[q] = req[q]
        /\ \A q \in Procs : req'[q].pc = "commit" => q # p /\ req[q].delivery # d
    BY <2>0 DEF Committed
  <2>3. IsFiniteSet(routes'[d]) /\ Cardinality(routes'[d]) = n + 1
    <3>1. IsFiniteSet(routes[d]) /\ routes'[d] = routes[d] \cup {r}
      BY <1>0, <2>2 DEF VersionsAreDense
    <3>2. IsFiniteSet(routes[d] \cup {r}) /\ Cardinality(routes[d] \cup {r}) = Cardinality(routes[d]) + 1
      BY <2>2, <3>1, FS_AddElement
    <3> QED BY <2>1, <3>1, <3>2
  <2>4. Versions(d)' = 1..(n + 1)
    <3>1. Versions(d)' = Versions(d) \cup {n + 1}
      BY <2>2 DEF Versions
    <3> QED BY <2>2, <3>1
  <2>5. \A e \in Delivery \ {d} : routes'[e] = routes[e] /\ Versions(e)' = Versions(e)
    BY <2>2 DEF Versions
  <2>6. \A q \in Procs : req'[q].pc = "commit" =>
          /\ req'[q] = req[q] /\ routes'[req[q].delivery] = routes[req[q].delivery]
    BY <2>2 DEF Base, RequestsAreChecked
  <2>7. \A e \in Delivery : IsFiniteSet(routes'[e]) /\ Versions(e)' = 1..Cardinality(routes'[e])
    BY <1>0, <2>3, <2>4, <2>5 DEF VersionsAreDense
  <2>8. \A q \in Procs : req'[q].pc = "commit" =>
          req'[q].version = Cardinality(routes'[req'[q].delivery]) + 1
    BY <1>0, <2>6 DEF VersionsAreDense
  <2> QED BY <2>7, <2>8 DEF VersionsAreDense
<1> QED BY <1>1, <1>2, StepTables

\* Every step keeps routes numbered 1 to N and the stops as the newest of them.
LEMMA StepNumbers == ASSUME Base, [Next]_vars PROVE StopsAreNumbered'
<1>0. StopsAreNumbered
  BY DEF Base
<1>1. CASE UNCHANGED <<stopSeq, routes>>
  BY <1>0, <1>1 DEF StopsAreNumbered, Newest
<1>2. ASSUME NEW p \in Procs, Commit(p) PROVE StopsAreNumbered'
  <2>1. PICK d, n, items, r, g :
          /\ d = req[p].delivery /\ n = Cardinality(routes[d]) /\ items = req[p].items
          /\ r = NewRoute(p) /\ g = Numbered(stopSeq[d], Writes(items), Len(Writes(items)))
    OBVIOUS
  <2>0. Committed(p, d, n, r) /\ GoodItems(items)
    BY <1>2, <2>1, CommitFacts DEF Base, Commit, RequestsAreChecked
  <2>2. /\ d \in Delivery /\ n \in Nat /\ GoodItems(items)
        /\ Versions(d) = 1..n /\ r.version = n + 1
        /\ \A e \in Delivery : routes'[e] = IF e = d THEN routes[d] \cup {r} ELSE routes[e]
    BY <2>0 DEF Committed
  <2>3. g \in Bijection(Stop, 1..N) /\ Range(items) = AsItems(g)
    BY <2>1, <2>2, RenumberedIs
  <2>4. r.stops = AsItems(g) /\ r.kind = req[p].kind
    BY <2>1, <2>3 DEF NewRoute
  <2>5. \A q \in routes[d] : q.version \in 1..n
    BY <2>2 DEF Versions
  <2>6. Store(p) /\ TypeOK
    BY <1>2, CommitStores DEF Base
  <2>7. \A e \in Delivery \ {d} : stopSeq'[e] = stopSeq[e] /\ routes'[e] = routes[e]
    BY <2>1, <2>2, <2>6 DEF Store, TypeOK
  <2>8. /\ r.kind = "reorder" => stopSeq'[d] = g
        /\ r.kind # "reorder" => stopSeq'[d] = stopSeq[d]
    BY <2>1, <2>2, <2>4, <2>6 DEF Store, TypeOK
  <2>13. g \in [Stop -> Nat \ {0}] /\ IsInjective(g)
    <3>1. 1..N \subseteq Nat \ {0}
      BY NType
    <3> QED BY <2>3, <3>1 DEF Bijection, Injection
  <2>9. stopSeq'[d] \in [Stop -> Nat \ {0}] /\ IsInjective(stopSeq'[d])
    BY <1>0, <2>2, <2>8, <2>13 DEF StopsAreNumbered
  <2>14. (\A q \in routes'[d] : q.kind # "reorder") => stopSeq'[d] = FirstSeq
    BY <1>0, <2>2, <2>8 DEF StopsAreNumbered
  <2>10. \A q \in routes'[d] : \E h \in Bijection(Stop, 1..N) : q.stops = AsItems(h)
    BY <1>0, <2>2, <2>3, <2>4 DEF StopsAreNumbered
  <2>11. ASSUME NEW q \in routes'[d], Newest(d, q)' PROVE q.stops = AsItems(stopSeq'[d])
    <3>1. q.kind = "reorder" /\ (\A t \in routes'[d] : t.kind = "reorder" => t.version <= q.version)
      BY <2>11 DEF Newest
    <3>2. CASE q = r
      BY <2>4, <2>8, <3>1, <3>2
    <3>3. CASE q # r
      <4>1. q \in routes[d] /\ q.version \in 1..n
        BY <2>2, <2>5, <2>11, <3>3
      <4>2. r.kind # "reorder"
        <5>1. ~(n + 1 <= q.version)
          BY <2>2, <4>1
        <5> QED BY <2>2, <3>1, <5>1
      <4>3. Newest(d, q)
        BY <2>2, <3>1 DEF Newest
      <4>4. q.stops = AsItems(stopSeq[d])
        BY <1>0, <2>2, <4>1, <4>3 DEF StopsAreNumbered
      <4> QED BY <2>8, <4>2, <4>4
    <3> QED BY <3>2, <3>3
  <2>12. ASSUME NEW e \in Delivery, e # d
         PROVE  /\ stopSeq'[e] \in [Stop -> Nat \ {0}] /\ IsInjective(stopSeq'[e])
                /\ (\A q \in routes'[e] : q.kind # "reorder") => stopSeq'[e] = FirstSeq
                /\ \A q \in routes'[e] : \E h \in Bijection(Stop, 1..N) : q.stops = AsItems(h)
                /\ \A q \in routes'[e] : Newest(e, q)' => q.stops = AsItems(stopSeq'[e])
    BY <1>0, <2>7, <2>12 DEF StopsAreNumbered, Newest
  <2> QED BY <2>9, <2>10, <2>11, <2>12, <2>14 DEF StopsAreNumbered, AsItems
<1> QED BY <1>1, <1>2, StepTables

-----------------------------------------------------------------------------
(* Idempotency keys *)

\* The record of a key names the one route made with it, and so does every answer.
RecordsMatch ==
    \A i \in Key \X Kind :
      /\ \A d \in Delivery : \A r \in routes[d] :
           <<r.key, r.kind>> = i => record[i] = [delivery |-> d, version |-> r.version]
      /\ record[i] # None =>
           \E d \in Delivery : \E r \in routes[d] :
             <<r.key, r.kind>> = i /\ record[i] = [delivery |-> d, version |-> r.version]
      /\ \A a \in answered[i] : record[i] = a

\* Who has inserted a record not yet committed, who lost it, who has committed it.
HoldersAreDistinct ==
    \A p \in Procs :
      /\ req[p].pc \in {"stops", "version", "commit"} /\ req[p].key # None =>
           /\ record[RecordOf(p)] = None
           /\ \A q \in Procs : req[q].pc \in {"stops", "version", "commit"} /\ RecordOf(q) = RecordOf(p)
                                => q = p
      /\ req[p].pc = "conflict" => record[RecordOf(p)] # None
      /\ req[p].pc = "broadcast" /\ req[p].key # None =>
           record[RecordOf(p)] = [delivery |-> req[p].delivery, version |-> req[p].version]

KeyInv == RecordsMatch /\ HoldersAreDistinct /\ failed = {}

\* A request that neither holds nor has lost or committed a record.
LEMMA FreshSlot ==
    ASSUME TypeOK, HoldersAreDistinct, NEW p \in Procs, NEW r, Goto(p, r), UNCHANGED record,
           \/ r.pc \in {"idle", "lock", "key", "aborted"}
           \/ r.pc \in {"stops", "version"} /\ r.key = None
    PROVE  HoldersAreDistinct'
<1>1. req'[p] = r /\ \A q \in Procs \ {p} : req'[q] = req[q]
  BY Slot
<1>2. \A q \in Procs \ {p} : RecordOf(q)' = RecordOf(q)
  BY <1>1 DEF RecordOf
<1>3. r.pc \in {"stops", "version"} => \A q \in Procs : RecordOf(q)' = RecordOf(p)' => req'[q].key = None
  BY <1>1 DEF RecordOf
<1> SUFFICES ASSUME NEW q \in Procs
             PROVE  /\ req'[q].pc \in {"stops", "version", "commit"} /\ req'[q].key # None =>
                         /\ record[RecordOf(q)'] = None
                         /\ \A t \in Procs : req'[t].pc \in {"stops", "version", "commit"}
                                               /\ RecordOf(t)' = RecordOf(q)' => t = q
                    /\ req'[q].pc = "conflict" => record[RecordOf(q)'] # None
                    /\ req'[q].pc = "broadcast" /\ req'[q].key # None =>
                         record[RecordOf(q)'] = [delivery |-> req'[q].delivery, version |-> req'[q].version]
  BY DEF HoldersAreDistinct
<1>4. CASE q = p
  BY <1>1, <1>4
<1>5. CASE q # p
  BY <1>1, <1>2, <1>3, <1>5 DEF HoldersAreDistinct
<1> QED BY <1>4, <1>5

\* Nothing is answered but what the record says.
LEMMA AnswersMatch ==
    ASSUME TypeOK, RecordsMatch, UNCHANGED <<routes, record>>,
           \/ UNCHANGED answered
           \/ \E i \in Key \X Kind : answered' = [answered EXCEPT ![i] = @ \cup {record[i]}]
    PROVE  RecordsMatch'
<1>1. \A i \in Key \X Kind : answered'[i] \subseteq answered[i] \cup {record[i]}
  BY DEF TypeOK
<1> QED BY <1>1 DEF RecordsMatch

\* An arrival keeps records and routes in agreement.
LEMMA ArriveKeys ==
    ASSUME Base, KeyInv, NEW p \in Procs, NEW d \in Delivery, Arrive(p, d) PROVE KeyInv'
<1>0. TypeOK /\ RecordsMatch /\ HoldersAreDistinct
  BY DEF Base, KeyInv
<1>1. PICK key \in Key \cup {None}, kind \in Kind :
        \E items, source : Begin(p, d, kind, items, source, key)
  <2>1. PICK key \in Key \cup {None} :
          \/ \E x \in Selections : SelectRoute(p, d, x.order, x.source, key)
          \/ \E items \in Lists : ReorderStops(p, d, items, key)
    BY DEF Arrive
  <2>2. CASE \E x \in Selections : SelectRoute(p, d, x.order, x.source, key)
    BY <2>2 DEF SelectRoute, Kind
  <2>3. CASE \E items \in Lists : ReorderStops(p, d, items, key)
    BY <2>3 DEF ReorderStops, Kind
  <2> QED BY <2>1, <2>2, <2>3
<1>10. PICK items, source : Begin(p, d, kind, items, source, key)
  BY <1>1
<1>2. UNCHANGED <<routes, record, failed>>
  BY <1>10 DEF Begin, tables
<1>3. CASE key # None /\ record[<<key, kind>>] # None
  <2>1. UNCHANGED req /\ answered' = [answered EXCEPT ![<<key, kind>>] = @ \cup {record[<<key, kind>>]}]
    BY <1>10, <1>3 DEF Begin
  <2>2. <<key, kind>> \in Key \X Kind
    BY <1>3
  <2>3. RecordsMatch'
    BY <1>0, <1>2, <2>1, <2>2, AnswersMatch
  <2>4. HoldersAreDistinct'
    BY <1>0, <1>2, <2>1 DEF HoldersAreDistinct, RecordOf
  <2> QED BY <1>2, <2>3, <2>4 DEF KeyInv
<1>4. CASE ~(key # None /\ record[<<key, kind>>] # None)
  <2>1. PICK r : r = [pc |-> "lock", delivery |-> d, kind |-> kind, items |-> items,
                      held |-> 0, source |-> source, key |-> key, version |-> 0]
    OBVIOUS
  <2>2. Goto(p, r) /\ r.pc = "lock" /\ UNCHANGED answered
    BY <1>10, <1>4, <2>1 DEF Begin
  <2>3. RecordsMatch'
    BY <1>0, <1>2, <2>2, AnswersMatch
  <2>4. HoldersAreDistinct'
    BY <1>0, <1>2, <2>2, FreshSlot
  <2> QED BY <1>2, <2>3, <2>4 DEF KeyInv
<1> QED BY <1>3, <1>4

\* Taking the row keeps records and routes in agreement.
LEMMA LockKeys ==
    ASSUME Base, KeyInv, NEW p \in Procs, LockRouteMutation(p) PROVE KeyInv'
<1>0. TypeOK /\ RecordsMatch /\ HoldersAreDistinct
  BY DEF Base, KeyInv
<1>1. UNCHANGED <<routes, record, failed, answered>>
  BY DEF LockRouteMutation, tables, history
<1>2. PICK r : r = [req[p] EXCEPT !.pc = IF req[p].key = None THEN AfterKey(p) ELSE "key"]
  OBVIOUS
<1>3. r.pc = "key" \/ (r.pc \in {"stops", "version"} /\ r.key = None)
  <2>1. req[p] \in Request
    BY <1>0 DEF TypeOK
  <2>2. CASE req[p].key = None
    BY <1>2, <2>1, <2>2 DEF Request, AfterKey
  <2>3. CASE req[p].key # None
    BY <1>2, <2>1, <2>3 DEF Request
  <2> QED BY <2>2, <2>3
<1>4. Goto(p, r)
  BY <1>2 DEF LockRouteMutation
<1>5. HoldersAreDistinct'
  BY <1>0, <1>1, <1>3, <1>4, FreshSlot
<1>6. RecordsMatch'
  BY <1>0, <1>1, AnswersMatch
<1> QED BY <1>1, <1>5, <1>6 DEF KeyInv

\* Inserting the key, or waiting for it, keeps records and routes in agreement.
LEMMA InsertKeys ==
    ASSUME Base, KeyInv, NEW p \in Procs, InsertKey(p) PROVE KeyInv'
<1>0. TypeOK /\ RecordsMatch /\ HoldersAreDistinct /\ req[p] \in Request
  BY DEF Base, KeyInv, TypeOK
<1>1. UNCHANGED <<routes, record, failed, answered>>
  BY DEF InsertKey, tables, history
<1>2. RecordsMatch'
  BY <1>0, <1>1, AnswersMatch
<1>9. PICK pc \in {"conflict", "stops", "version"} :
        /\ Goto(p, [req[p] EXCEPT !.pc = pc])
        /\ pc = "conflict" <=> record[RecordOf(p)] # None
  BY DEF InsertKey, KeyTaken, AfterKey
<1>3. PICK r : r = [req[p] EXCEPT !.pc = pc] /\ Goto(p, r)
  BY <1>9
<1>4. r.pc = pc /\ r.key = req[p].key /\ r.kind = req[p].kind
  BY <1>0, <1>3 DEF Request
<1>5. req'[p] = r /\ \A q \in Procs \ {p} : req'[q] = req[q]
  BY <1>0, <1>3, Slot
<1>6. \A q \in Procs : RecordOf(q)' = RecordOf(q)
  BY <1>4, <1>5 DEF RecordOf
<1>7. \A q \in Procs \ {p} : req[q].pc \in {"stops", "version", "commit"} => RecordOf(q) # RecordOf(p)
  BY DEF InsertKey, HoldsKey
<1>8. HoldersAreDistinct'
  <2> SUFFICES ASSUME NEW q \in Procs
               PROVE  /\ req'[q].pc \in {"stops", "version", "commit"} /\ req'[q].key # None =>
                           /\ record[RecordOf(q)'] = None
                           /\ \A t \in Procs : req'[t].pc \in {"stops", "version", "commit"}
                                                 /\ RecordOf(t)' = RecordOf(q)' => t = q
                      /\ req'[q].pc = "conflict" => record[RecordOf(q)'] # None
                      /\ req'[q].pc = "broadcast" /\ req'[q].key # None =>
                           record[RecordOf(q)'] = [delivery |-> req'[q].delivery, version |-> req'[q].version]
    BY <1>1 DEF HoldersAreDistinct
  <2>1. CASE q = p
    BY <1>4, <1>5, <1>6, <1>7, <1>9, <2>1
  <2>2. CASE q # p
    BY <1>0, <1>4, <1>5, <1>6, <1>7, <2>2 DEF HoldersAreDistinct
  <2> QED BY <2>1, <2>2
<1> QED BY <1>1, <1>2, <1>8 DEF KeyInv

\* A transaction that holds its key goes on: it updates a stop or reads the version.
LEMMA GoesOnKeys ==
    ASSUME Base, KeyInv, NEW p \in Procs, UpdateStop(p) \/ ReadVersion(p) PROVE KeyInv'
<1>0. TypeOK /\ RecordsMatch /\ HoldersAreDistinct /\ req[p] \in Request
  BY DEF Base, KeyInv, TypeOK
<1>1. UNCHANGED <<routes, record, failed, answered>> /\ req[p].pc \in {"stops", "version"}
  BY DEF UpdateStop, ReadVersion, tables, history
<1>2. RecordsMatch'
  BY <1>0, <1>1, AnswersMatch
<1>3. PICK r : /\ Goto(p, r) /\ r.pc \in {"stops", "version", "commit"}
               /\ r.key = req[p].key /\ r.kind = req[p].kind
  <2>1. CASE ReadVersion(p)
    <3>1. PICK r : r = [req[p] EXCEPT !.pc = "commit", !.version = MaxVersion(req[p].delivery) + 1]
      OBVIOUS
    <3>2. r.pc = "commit" /\ r.key = req[p].key /\ r.kind = req[p].kind
      BY <1>0, <3>1 DEF Request
    <3> QED BY <2>1, <3>1, <3>2 DEF ReadVersion
  <2>2. CASE UpdateStop(p)
    <3>1. PICK pc \in {"stops", "version"} :
          Goto(p, [req[p] EXCEPT !.held = req[p].held + 1, !.pc = pc])
      BY <2>2, UpdateStopGoes
    <3>2. PICK r : r = [req[p] EXCEPT !.held = req[p].held + 1, !.pc = pc]
      OBVIOUS
    <3>3. r.pc = pc /\ r.key = req[p].key /\ r.kind = req[p].kind
      BY <1>0, <3>2 DEF Request
    <3> QED BY <3>1, <3>2, <3>3
  <2> QED BY <2>1, <2>2
<1>5. req'[p] = r /\ \A q \in Procs \ {p} : req'[q] = req[q]
  BY <1>0, <1>3, Slot
<1>6. \A q \in Procs : RecordOf(q)' = RecordOf(q)
  BY <1>3, <1>5 DEF RecordOf
<1>7. HoldersAreDistinct'
  <2> SUFFICES ASSUME NEW q \in Procs
               PROVE  /\ req'[q].pc \in {"stops", "version", "commit"} /\ req'[q].key # None =>
                           /\ record[RecordOf(q)'] = None
                           /\ \A t \in Procs : req'[t].pc \in {"stops", "version", "commit"}
                                                 /\ RecordOf(t)' = RecordOf(q)' => t = q
                      /\ req'[q].pc = "conflict" => record[RecordOf(q)'] # None
                      /\ req'[q].pc = "broadcast" /\ req'[q].key # None =>
                           record[RecordOf(q)'] = [delivery |-> req'[q].delivery, version |-> req'[q].version]
    BY <1>1 DEF HoldersAreDistinct
  <2>0. \A t \in Procs : req'[t].pc \in {"stops", "version", "commit"}
                            => req[t].pc \in {"stops", "version", "commit"}
    BY <1>1, <1>5
  <2>1. CASE q = p
    <3>1. req[p].key # None =>
            /\ record[RecordOf(p)] = None
            /\ \A t \in Procs : req[t].pc \in {"stops", "version", "commit"}
                                  /\ RecordOf(t) = RecordOf(p) => t = p
      BY <1>0, <1>1 DEF HoldersAreDistinct
    <3> QED BY <1>3, <1>5, <1>6, <2>0, <2>1, <3>1
  <2>2. CASE q # p
    BY <1>0, <1>5, <1>6, <2>0, <2>2 DEF HoldersAreDistinct
  <2> QED BY <2>1, <2>2
<1> QED BY <1>1, <1>2, <1>7 DEF KeyInv

\* A transaction that is rolled back takes its record with it.
LEMMA AbortKeys ==
    ASSUME Base, KeyInv, NEW p \in Procs, Abort(p) PROVE KeyInv'
<1>0. TypeOK /\ RecordsMatch /\ HoldersAreDistinct /\ req[p] \in Request
  BY DEF Base, KeyInv, TypeOK
<1>1. UNCHANGED <<routes, record, failed, answered>>
  BY DEF Abort, tables, history
<1>2. PICK x : x = [req[p] EXCEPT !.pc = "aborted"]
  OBVIOUS
<1>3. x.pc = "aborted"
  BY <1>0, <1>2 DEF Request
<1>4. Goto(p, Idle) \/ Goto(p, x)
  BY <1>2 DEF Abort
<1>5. HoldersAreDistinct'
  BY <1>0, <1>1, <1>3, <1>4, FreshSlot, IdleType
<1>6. RecordsMatch'
  BY <1>0, <1>1, AnswersMatch
<1> QED BY <1>1, <1>5, <1>6 DEF KeyInv

\* An answer after a conflict or a broadcast names the route of the record.
LEMMA AnswerKeys ==
    ASSUME Base, KeyInv, NEW p \in Procs, Conflict(p) \/ BroadcastRouteUpdated(p) PROVE KeyInv'
<1>0. TypeOK /\ RecordsMatch /\ HoldersAreDistinct /\ req[p] \in Request
  BY DEF Base, KeyInv, TypeOK
<1>1. UNCHANGED <<routes, record>> /\ Goto(p, Idle)
  BY DEF Conflict, BroadcastRouteUpdated, tables
<1>2. HoldersAreDistinct'
  BY <1>0, <1>1, FreshSlot, IdleType
<1>3. UNCHANGED failed
  BY <1>0 DEF Conflict, BroadcastRouteUpdated, HoldersAreDistinct
<1>4. \/ UNCHANGED answered
      \/ req[p].key # None /\ answered' = [answered EXCEPT ![RecordOf(p)] = @ \cup {record[RecordOf(p)]}]
  BY <1>0 DEF Conflict, BroadcastRouteUpdated, HoldersAreDistinct, Tell
<1>5. req[p].key # None => RecordOf(p) \in Key \X Kind
  BY <1>0 DEF Request, RecordOf
<1>6. RecordsMatch'
  BY <1>0, <1>1, <1>4, <1>5, AnswersMatch
<1> QED BY <1>2, <1>3, <1>6 DEF KeyInv

\* A commit stores its route and its record together.
LEMMA CommitKeys ==
    ASSUME Base, KeyInv, NEW p \in Procs, Commit(p) PROVE KeyInv'
<1>0. TypeOK /\ RecordsMatch /\ HoldersAreDistinct /\ req[p] \in Request /\ req[p].pc = "commit"
  BY DEF Base, KeyInv, TypeOK, Commit
<1>1. Store(p) /\ UNCHANGED answered /\ UNCHANGED failed
  BY CommitStores DEF Store
<1>2. PICK d, n, r, a : /\ d = req[p].delivery /\ n = Cardinality(routes[d]) /\ r = NewRoute(p)
                        /\ a = [delivery |-> d, version |-> req[p].version]
  OBVIOUS
<1>3. Committed(p, d, n, r)
  BY <1>2, CommitFacts
<1>4. /\ d \in Delivery
      /\ \A e \in Delivery : routes'[e] = IF e = d THEN routes[d] \cup {r} ELSE routes[e]
      /\ \A q \in Procs \ {p} : req'[q] = req[q]
  BY <1>3 DEF Committed
<1>5. r.key = req[p].key /\ r.kind = req[p].kind /\ a = [delivery |-> d, version |-> r.version]
  BY <1>2 DEF NewRoute
<1>6. req'[p].pc = "broadcast" /\ req'[p].key = req[p].key /\ req'[p].kind = req[p].kind
      /\ a = [delivery |-> req'[p].delivery, version |-> req'[p].version]
  <2>1. PICK x : x = [req[p] EXCEPT !.pc = "broadcast"]
    OBVIOUS
  <2>2. req'[p] = x
    BY <1>0, <1>1, <2>1, Slot DEF Store
  <2>3. x.pc = "broadcast" /\ x.key = req[p].key /\ x.kind = req[p].kind
        /\ x.delivery = req[p].delivery /\ x.version = req[p].version
    BY <1>0, <2>1 DEF Request
  <2> QED BY <1>2, <2>2, <2>3
<1>7. \A q \in Procs : RecordOf(q)' = RecordOf(q)
  BY <1>4, <1>6 DEF RecordOf
<1>8. a \in Answer /\ a # None
  BY <1>0, <1>2, <1>4, RoutesAssumption DEF Answer, Request
<1>9. CASE req[p].key = None
  <2>1. UNCHANGED record
    BY <1>1, <1>9 DEF Store
  <2>2. RecordsMatch'
    <3>1. \A i \in Key \X Kind : <<r.key, r.kind>> # i
      BY <1>5, <1>9, RoutesAssumption
    <3> SUFFICES ASSUME NEW i \in Key \X Kind
                 PROVE  /\ \A e \in Delivery : \A x \in routes'[e] :
                             <<x.key, x.kind>> = i => record[i] = [delivery |-> e, version |-> x.version]
                        /\ record[i] # None =>
                             \E e \in Delivery : \E x \in routes'[e] :
                               <<x.key, x.kind>> = i /\ record[i] = [delivery |-> e, version |-> x.version]
                        /\ \A b \in answered[i] : record[i] = b
      BY <1>1, <2>1 DEF RecordsMatch
    <3>2. \A e \in Delivery : \A x \in routes'[e] : <<x.key, x.kind>> = i => x \in routes[e]
      BY <1>4, <3>1
    <3>3. \A e \in Delivery : routes[e] \subseteq routes'[e]
      BY <1>4
    <3> QED BY <1>0, <3>2, <3>3 DEF RecordsMatch
  <2>3. HoldersAreDistinct'
    <3> SUFFICES ASSUME NEW q \in Procs
                 PROVE  /\ req'[q].pc \in {"stops", "version", "commit"} /\ req'[q].key # None =>
                             /\ record[RecordOf(q)'] = None
                             /\ \A t \in Procs : req'[t].pc \in {"stops", "version", "commit"}
                                                   /\ RecordOf(t)' = RecordOf(q)' => t = q
                        /\ req'[q].pc = "conflict" => record[RecordOf(q)'] # None
                        /\ req'[q].pc = "broadcast" /\ req'[q].key # None =>
                             record[RecordOf(q)'] = [delivery |-> req'[q].delivery, version |-> req'[q].version]
      BY <2>1 DEF HoldersAreDistinct
    <3>1. CASE q = p
      BY <1>6, <1>9, <3>1
    <3>2. CASE q # p
      BY <1>0, <1>4, <1>6, <1>7, <3>2 DEF HoldersAreDistinct
    <3> QED BY <3>1, <3>2
  <2> QED BY <1>1, <2>2, <2>3 DEF KeyInv
<1>10. CASE req[p].key # None
  <2>1. PICK k : k = RecordOf(p)
    OBVIOUS
  <2>2. k \in Key \X Kind /\ k = <<r.key, r.kind>>
    BY <1>0, <1>5, <1>10, <2>1 DEF Request, RecordOf
  <2>3. record' = [record EXCEPT ![k] = a]
    BY <1>1, <1>2, <1>10, <2>1 DEF Store
  <2>4. record'[k] = a /\ \A i \in (Key \X Kind) \ {k} : record'[i] = record[i]
    BY <1>0, <2>2, <2>3 DEF TypeOK
  <2>5. record[k] = None
    BY <1>0, <1>10, <2>1 DEF HoldersAreDistinct
  <2>6. \A i \in Key \X Kind : answered[i] \subseteq Answer
    BY <1>0 DEF TypeOK
  <2>7. None \notin Answer
    BY RoutesAssumption DEF Answer
  <2>8. answered[k] = {}
    BY <1>0, <2>2, <2>5, <2>6, <2>7 DEF RecordsMatch
  <2>9. \A e \in Delivery : \A x \in routes[e] : <<x.key, x.kind>> # k
    <3> SUFFICES ASSUME NEW e \in Delivery, NEW x \in routes[e], <<x.key, x.kind>> = k PROVE FALSE
      OBVIOUS
    <3>1. [delivery |-> e, version |-> x.version] = None
      <4>1. \A i \in Key \X Kind : <<x.key, x.kind>> = i => record[i] = [delivery |-> e, version |-> x.version]
        BY <1>0 DEF RecordsMatch
      <4>2. record[k] = [delivery |-> e, version |-> x.version]
        BY <2>2, <4>1
      <4> QED BY <2>5, <4>2
    <3>2. x.version \in Nat
      BY <1>0 DEF TypeOK, Route
    <3> QED BY <2>7, <3>1, <3>2 DEF Answer
  <2>10. RecordsMatch'
    <3> SUFFICES ASSUME NEW i \in Key \X Kind
                 PROVE  /\ \A e \in Delivery : \A x \in routes'[e] :
                             <<x.key, x.kind>> = i => record'[i] = [delivery |-> e, version |-> x.version]
                        /\ record'[i] # None =>
                             \E e \in Delivery : \E x \in routes'[e] :
                               <<x.key, x.kind>> = i /\ record'[i] = [delivery |-> e, version |-> x.version]
                        /\ \A b \in answered[i] : record'[i] = b
      BY <1>1 DEF RecordsMatch
    <3>1. CASE i = k
      <4>1. \A e \in Delivery : \A x \in routes'[e] : <<x.key, x.kind>> = k => e = d /\ x = r
        BY <1>4, <2>9
      <4>2. r \in routes'[d]
        BY <1>4
      <4> QED BY <1>4, <1>5, <2>2, <2>4, <2>8, <3>1, <4>1, <4>2
    <3>2. CASE i # k
      <4>1. \A e \in Delivery : \A x \in routes'[e] : <<x.key, x.kind>> = i => x \in routes[e]
        BY <1>4, <2>2, <3>2
      <4>2. \A e \in Delivery : routes[e] \subseteq routes'[e]
        BY <1>4
      <4>3. record'[i] = record[i]
        BY <2>4, <3>2
      <4> QED BY <1>0, <4>1, <4>2, <4>3 DEF RecordsMatch
    <3> QED BY <3>1, <3>2
  <2>11. HoldersAreDistinct'
    <3> SUFFICES ASSUME NEW q \in Procs
                 PROVE  /\ req'[q].pc \in {"stops", "version", "commit"} /\ req'[q].key # None =>
                             /\ record'[RecordOf(q)'] = None
                             /\ \A t \in Procs : req'[t].pc \in {"stops", "version", "commit"}
                                                   /\ RecordOf(t)' = RecordOf(q)' => t = q
                        /\ req'[q].pc = "conflict" => record'[RecordOf(q)'] # None
                        /\ req'[q].pc = "broadcast" /\ req'[q].key # None =>
                             record'[RecordOf(q)'] = [delivery |-> req'[q].delivery, version |-> req'[q].version]
      BY DEF HoldersAreDistinct
    <3>1. CASE q = p
      BY <1>6, <1>7, <2>1, <2>4, <3>1
    <3>2. CASE q # p
      <4>1. req'[q] = req[q] /\ RecordOf(q)' = RecordOf(q)
        BY <1>4, <1>7, <3>2
      <4>2. /\ req[q].key # None => RecordOf(q) \in Key \X Kind
            /\ req[q].pc = "conflict" => req[q].key # None
        BY <1>0, RoutesAssumption DEF TypeOK, Request, RecordOf, Base, RequestsAreChecked
      <4>3. \A t \in Procs : req'[t].pc \in {"stops", "version", "commit"} => req[t].pc \in {"stops", "version", "commit"}
        BY <1>0, <1>4, <1>6
      <4>4. CASE req[q].pc \in {"stops", "version", "commit"} /\ req[q].key # None
        <5>1. RecordOf(q) # k
          BY <1>0, <1>10, <2>1, <3>2, <4>4 DEF HoldersAreDistinct
        <5>2. record[RecordOf(q)] = None
              /\ \A t \in Procs : req[t].pc \in {"stops", "version", "commit"} /\ RecordOf(t) = RecordOf(q) => t = q
          BY <1>0, <4>4 DEF HoldersAreDistinct
        <5> QED BY <1>7, <2>4, <4>1, <4>2, <4>3, <4>4, <5>1, <5>2
      <4>5. CASE req[q].pc = "conflict"
        <5>1. record[RecordOf(q)] # None
          BY <1>0, <4>5 DEF HoldersAreDistinct
        <5> QED BY <1>8, <2>4, <4>1, <4>2, <4>5, <5>1
      <4>6. CASE req[q].pc = "broadcast" /\ req[q].key # None
        <5>1. record[RecordOf(q)] = [delivery |-> req[q].delivery, version |-> req[q].version]
          BY <1>0, <4>6 DEF HoldersAreDistinct
        <5>2. [delivery |-> req[q].delivery, version |-> req[q].version] \in Answer
          BY <4>6 DEF Base, TypeOK, RequestsAreChecked, Request, Answer
        <5>3. RecordOf(q) # k
          BY <2>5, <2>7, <5>1, <5>2
        <5> QED BY <2>4, <4>1, <4>2, <4>6, <5>1, <5>3
      <4> QED BY <4>1, <4>4, <4>5, <4>6
    <3> QED BY <3>1, <3>2
  <2> QED BY <1>1, <2>10, <2>11 DEF KeyInv
<1> QED BY <1>9, <1>10

\* Every step keeps records and routes in agreement.
LEMMA StepKeys == ASSUME Base, KeyInv, [Next]_vars PROVE KeyInv'
<1>0. TypeOK /\ RecordsMatch /\ HoldersAreDistinct
  BY DEF Base, KeyInv
<1>1. CASE \/ \E d \in Delivery : EndDelivery(d)
           \/ \E p \in Procs : BreakDeadlock(p)
           \/ \E d \in Delivery, s \in Stop :
                LeaveStop(d, s) \/ \E n \in StopNeeds \ {"none"} : TakeStop(d, s, n)
  <2>1. UNCHANGED <<routes, record, answered, failed, req>>
    BY <1>1 DEF EndDelivery, BreakDeadlock, LeaveStop, TakeStop, tables, history
  <2> QED BY <2>1 DEF KeyInv, RecordsMatch, HoldersAreDistinct, RecordOf
<1>2. CASE Crash
  <2>1. UNCHANGED <<routes, record, answered, failed>> /\ \A p \in Procs : req'[p].pc = "idle"
    BY <1>2, IdleType DEF Crash, tables
  <2> QED BY <2>1 DEF KeyInv, RecordsMatch, HoldersAreDistinct, RecordOf
<1>3. CASE UNCHANGED vars
  <2>1. UNCHANGED <<routes, record, answered, failed, req>>
    BY <1>3 DEF vars, tables, history
  <2> QED BY <2>1 DEF KeyInv, RecordsMatch, HoldersAreDistinct, RecordOf
<1> QED BY <1>1, <1>2, <1>3, ArriveKeys, LockKeys, InsertKeys, GoesOnKeys, AbortKeys,
           CommitKeys, AnswerKeys DEF Next, Proceed

-----------------------------------------------------------------------------
(* The invariant and the theorems *)

IInv == Base /\ KeyInv

\* The inductive invariant holds at first: no route, no record, no lock.
LEMMA InitIInv == Init => IInv
<1> SUFFICES ASSUME Init PROVE IInv
  OBVIOUS
<1>1. \A p \in Procs : req[p].pc = "idle"
  BY IdleType DEF Init
<1>2. TypeOK
  <2>1. req \in [Procs -> Request]
    BY IdleType DEF Init
  <2>2. stopTx \in [Delivery -> [Stop -> StopNeeds]]
    BY DEF Init, StopNeeds
  <2>3. FirstSeq \in [Stop -> Int]
    BY RoutesAssumption
  <2>4. terminal \in [Delivery -> BOOLEAN] /\ lock \in [Delivery -> Procs \cup {None}]
    BY DEF Init
  <2>5. stopSeq \in [Delivery -> [Stop -> Int]]
    BY <2>3 DEF Init
  <2>6. mode \in [Delivery -> Mode]
    BY DEF Init, Mode
  <2>7. routes \in [Delivery -> SUBSET Route]
    BY DEF Init
  <2>8. record \in [Key \X Kind -> Answer \cup {None}]
    BY Zenon DEF Init
  <2>9. answered \in [Key \X Kind -> SUBSET Answer]
    BY Zenon DEF Init
  <2> QED BY <2>1, <2>2, <2>4, <2>5, <2>6, <2>7, <2>8, <2>9 DEF Init, TypeOK
<1>3. RequestsAreChecked /\ LocksAreHeld /\ HoldersAreDistinct
  BY <1>1 DEF Init, RequestsAreChecked, LocksAreHeld, HoldersAreDistinct, Locked
<1>4. VersionsAreDense
  <2>1. \A d \in Delivery : routes[d] = {}
    BY DEF Init
  <2>2. IsFiniteSet({}) /\ Cardinality({}) = 0
    BY FS_EmptySet
  <2>3. \A d \in Delivery : Versions(d) = {}
    BY <2>1 DEF Versions
  <2>4. \A d \in Delivery : IsFiniteSet(routes[d]) /\ Cardinality(routes[d]) = 0
    BY <2>1, <2>2, Zenon
  <2>5. 1..0 = {}
    OBVIOUS
  <2>6. \A d \in Delivery : Versions(d) = 1..Cardinality(routes[d])
    BY <2>3, <2>4, <2>5, Zenon
  <2> QED BY <1>1, <2>1, <2>4, <2>6 DEF VersionsAreDense
<1>5. StopsAreNumbered
  BY RoutesAssumption DEF Init, StopsAreNumbered
<1>6. RecordsMatch /\ failed = {}
  BY DEF Init, RecordsMatch
<1> QED BY <1>2, <1>3, <1>4, <1>5, <1>6 DEF IInv, Base, KeyInv

\* The inductive invariant is kept by every step.
LEMMA StepIInv == IInv /\ [Next]_vars => IInv'
  BY StepChecked, StepLocks, StepVersions, StepNumbers, StepKeys DEF IInv, Base

\* The invariant holds in every state.
LEMMA Invariance == Spec => []IInv
  BY InitIInv, StepIInv, PTL DEF Spec

\* The tables, the row locks and the requests of RoutesDomainService keep their types.
THEOREM TypeCorrect == Spec => []TypeOK
<1>1. IInv => TypeOK BY DEF IInv, Base
<1> QED BY <1>1, Invariance, PTL

\* selectRoute and reorderStops store dense versions of complete routes, and the
\* stops keep the numbers of the newest manual order, or those of createDelivery,
\* for any number of stops and requests and any first numbers.
THEOREM RoutesCorrect == Spec => []RoutesAreComplete
<1>1. IInv => RoutesAreComplete
  <2> SUFFICES ASSUME IInv, NEW d \in Delivery
               PROVE  /\ Versions(d) = 1..Cardinality(routes[d])
                      /\ \A r \in routes[d] : Complete(r.stops)
                      /\ EveryStopOnce(CurrentRoute(d))
                      /\ (\A r \in routes[d] : r.kind # "reorder") => stopSeq[d] = FirstSeq
                      /\ \A r \in routes[d] : Newest(d, r) => r.stops = AsItems(stopSeq[d])
    BY DEF RoutesAreComplete, Newest
  <2>1. Versions(d) = 1..Cardinality(routes[d])
    BY DEF IInv, Base, VersionsAreDense
  <2>2. \A r \in routes[d] : Complete(r.stops)
    BY NumberedIsComplete DEF IInv, Base, StopsAreNumbered
  <2>3. (\A r \in routes[d] : r.kind # "reorder") => stopSeq[d] = FirstSeq
    BY DEF IInv, Base, StopsAreNumbered
  <2>4. EveryStopOnce(CurrentRoute(d))
    <3>1. CASE routes[d] = {}
      BY <3>1, EveryStopIsOnce DEF CurrentRoute
    <3>2. CASE routes[d] # {}
      <4>1. PICK n \in Nat : n = Cardinality(routes[d]) /\ MaxVersion(d) = n /\ Versions(d) = 1..n
        BY <2>1, MaxVersionIs DEF IInv, Base
      <4>2. Versions(d) # {}
        BY <3>2 DEF Versions
      <4>3. n \in Versions(d)
        BY <4>1, <4>2
      <4>4. \E r \in routes[d] : r.version = MaxVersion(d)
        BY <4>1, <4>3 DEF Versions
      <4>5. (CHOOSE r \in routes[d] : r.version = MaxVersion(d)) \in routes[d]
        BY <4>4
      <4> QED BY <2>2, <3>2, <4>5 DEF CurrentRoute, Complete
    <3> QED BY <3>1, <3>2
  <2>5. \A r \in routes[d] : Newest(d, r) => r.stops = AsItems(stopSeq[d])
    BY DEF IInv, Base, StopsAreNumbered
  <2> QED BY <2>1, <2>2, <2>3, <2>4, <2>5
<1> QED BY <1>1, Invariance, PTL

\* The lock of lockRouteMutation and the two-phase renumbering of reorderStops keep
\* every request that passed the checks clear of the unique constraints.
THEOREM NoFailure == Spec => []NoUniqueFailure
<1>1. IInv => NoUniqueFailure BY DEF IInv, KeyInv, NoUniqueFailure
<1> QED BY <1>1, Invariance, PTL

\* idempotency_records makes one route per key and endpoint, and every client that
\* sent the key is told of it.
THEOREM KeysCorrect == Spec => []OneRoutePerKey
<1>1. IInv => OneRoutePerKey
  <2> SUFFICES ASSUME IInv, NEW k \in Key, NEW kind \in Kind
               PROVE  LET made == UNION {{[delivery |-> d, version |-> r.version] :
                                r \in {q \in routes[d] : q.key = k /\ q.kind = kind}} : d \in Delivery}
                      IN Cardinality(made) <= 1 /\ answered[<<k, kind>>] \subseteq made
    BY DEF OneRoutePerKey
  <2> DEFINE made == UNION {{[delivery |-> d, version |-> r.version] :
                         r \in {q \in routes[d] : q.key = k /\ q.kind = kind}} : d \in Delivery}
  <2>1. PICK i \in Key \X Kind : i = <<k, kind>>
    OBVIOUS
  <2>2. \A a \in made : a = record[i]
    BY <2>1 DEF IInv, KeyInv, RecordsMatch
  <2>3. record[i] # None => record[i] \in made
    <3> SUFFICES ASSUME record[i] # None PROVE record[i] \in made
      OBVIOUS
    <3>1. PICK d \in Delivery : \E r \in routes[d] :
            <<r.key, r.kind>> = i /\ record[i] = [delivery |-> d, version |-> r.version]
      BY DEF IInv, KeyInv, RecordsMatch
    <3>2. PICK r \in routes[d] : <<r.key, r.kind>> = i /\ record[i] = [delivery |-> d, version |-> r.version]
      BY <3>1
    <3> QED BY <2>1, <3>2
  <2>4. made = {} \/ made = {record[i]}
    BY <2>2
  <2>5. Cardinality(made) <= 1
    <3> HIDE DEF made
    <3>1. CASE made = {}
      BY <3>1, FS_EmptySet
    <3>2. CASE made = {record[i]}
      <4>1. Cardinality({record[i]}) = 1
        BY FS_Singleton, Zenon
      <4>2. Cardinality(made) = 1
        BY <3>2, <4>1, Zenon
      <4> QED BY <4>2
    <3> QED BY <2>4, <3>1, <3>2
  <2>6. answered[i] \subseteq made
    <3> SUFFICES ASSUME NEW a \in answered[i] PROVE a \in made
      OBVIOUS
    <3>1. a \in Answer
      BY DEF IInv, Base, TypeOK
    <3>2. a # None
      BY <3>1, RoutesAssumption DEF Answer
    <3>3. record[i] = a
      BY DEF IInv, KeyInv, RecordsMatch
    <3> HIDE DEF made
    <3> QED BY <2>3, <3>2, <3>3
  <2> QED BY <2>1, <2>5, <2>6
<1> QED BY <1>1, Invariance, PTL

\* selectRoute and reorderStops never wait for each other in a circle, whatever the
\* order of their lists: who waits for a stop has the delivery that its holder would
\* need to have, who waits for a key waits for one past its key, and who waits for
\* the delivery waits for one past it.
THEOREM DeadlockFree == Spec => []NoCircularWait
<1>1. IInv => NoCircularWait
  <2> SUFFICES ASSUME IInv, NEW S \in SUBSET Procs, S # {}
               PROVE  \E p \in S : \A q \in S : ~WaitsFor(p, q)
    BY DEF NoCircularWait
  <2>1. \A p \in Procs : Locked(p) => lock[req[p].delivery] = p
    BY DEF IInv, Base, LocksAreHeld
  <2>2. CASE \E p \in S : req[p].pc \notin {"lock", "key"}
    <3>1. PICK p \in S : req[p].pc \notin {"lock", "key"}
      BY <2>2
    <3>2. ASSUME NEW q \in S, WaitsFor(p, q) PROVE FALSE
      <4>1. req[p].pc = "stops" /\ q # p /\ Locked(q) /\ req[q].delivery = req[p].delivery
        BY <3>1, <3>2 DEF WaitsFor, HoldsStop
      <4>2. Locked(p)
        BY <4>1 DEF Locked
      <4> QED BY <2>1, <4>1, <4>2
    <3> QED BY <3>2
  <2>3. CASE (\A p \in S : req[p].pc \in {"lock", "key"}) /\ \E p \in S : req[p].pc = "key"
    <3>1. PICK p \in S : req[p].pc = "key"
      BY <2>3
    <3>2. \A q \in S : ~HoldsKey(q, RecordOf(p))
      BY <2>3 DEF HoldsKey
    <3> QED BY <3>1, <3>2 DEF WaitsFor
  <2>4. CASE \A p \in S : req[p].pc = "lock"
    <3>1. PICK p \in S : req[p].pc = "lock"
      BY <2>4
    <3>2. req[p].delivery \in Delivery
      BY <3>1 DEF IInv, Base, RequestsAreChecked
    <3>3. lock[req[p].delivery] # None => Locked(lock[req[p].delivery])
      BY <3>2 DEF IInv, Base, LocksAreHeld
    <3>4. \A q \in S : ~Locked(q) /\ q # None
      BY <2>4, RoutesAssumption DEF Locked
    <3>5. \A q \in S : lock[req[p].delivery] # q
      BY <3>3, <3>4
    <3> QED BY <3>1, <3>5 DEF WaitsFor
  <2> QED BY <2>2, <2>3, <2>4
<1> QED BY <1>1, Invariance, PTL
-----------------------------------------------------------------------------
(* The recommendation: nearest neighbour and 2-opt of Optimizer *)

\* What a concatenation holds, element by element.
LEMMA Concat ==
    ASSUME NEW S, NEW a \in Seq(S), NEW b \in Seq(S)
    PROVE  /\ a \o b \in Seq(S) /\ Len(a \o b) = Len(a) + Len(b)
           /\ \A k \in 1..(Len(a) + Len(b)) :
                (a \o b)[k] = IF k <= Len(a) THEN a[k] ELSE b[k - Len(a)]
  OBVIOUS

\* perform2OptSwap reverses a part of the tour and nothing else.
LEMMA SwapIsReversed ==
    ASSUME NEW S, NEW t \in Seq(S), NEW i \in 1..Len(t), NEW j \in 1..Len(t), i < j
    PROVE  Swap(t, i, j) = Reversed(t, i, j)
<1> DEFINE a == SubSeq(t, 1, i - 1)
           b == SubSeq(t, i, j)
           c == SubSeq(t, j + 1, Len(t))
           r == Reverse(b)
<1>1. a \in Seq(S) /\ Len(a) = i - 1 /\ \A k \in 1..(i - 1) : a[k] = t[k]
  OBVIOUS
<1>2. b \in Seq(S) /\ Len(b) = j - i + 1 /\ \A k \in 1..(j - i + 1) : b[k] = t[i + k - 1]
  OBVIOUS
<1>3. c \in Seq(S) /\ Len(c) = Len(t) - j /\ \A k \in 1..(Len(t) - j) : c[k] = t[j + k]
  OBVIOUS
<1>4. r \in Seq(S) /\ Len(r) = j - i + 1 /\ \A k \in 1..(j - i + 1) : r[k] = t[j - k + 1]
  <2>1. r = [k \in 1..(j - i + 1) |-> b[j - i + 1 - k + 1]]
    BY <1>2 DEF Reverse
  <2> QED
    BY <2>1, <1>2
<1>5. Swap(t, i, j) = (a \o r) \o c
  BY DEF Swap
<1> HIDE DEF a, b, c, r
<1> DEFINE ar == a \o r
           s == ar \o c
<1>6. /\ ar \in Seq(S) /\ Len(ar) = j
      /\ \A k \in 1..j : ar[k] = IF k < i THEN t[k] ELSE t[i + j - k]
  <2>1. /\ ar \in Seq(S) /\ Len(ar) = Len(a) + Len(r)
        /\ \A k \in 1..(Len(a) + Len(r)) : ar[k] = IF k <= Len(a) THEN a[k] ELSE r[k - Len(a)]
    BY <1>1, <1>4, Concat
  <2> HIDE DEF ar
  <2>2. Len(a) = i - 1 /\ Len(a) + Len(r) = j
    BY <1>1, <1>4
  <2>3. ASSUME NEW k \in 1..j, k < i PROVE ar[k] = t[k]
    <3>1. k \in 1..(i - 1) /\ k <= i - 1
      BY <2>3
    <3>2. ar[k] = a[k]
      BY <2>1, <2>2, <3>1
    <3> QED
      BY <1>1, <3>1, <3>2
  <2>4. ASSUME NEW k \in 1..j, ~(k < i) PROVE ar[k] = t[i + j - k]
    <3>1. k - (i - 1) \in 1..(j - i + 1) /\ j - (k - (i - 1)) + 1 = i + j - k
      BY <2>4
    <3>2. ~(k <= i - 1)
      BY <2>4
    <3>3. ar[k] = r[k - (i - 1)]
      BY <2>1, <2>2, <3>2
    <3>4. r[k - (i - 1)] = t[j - (k - (i - 1)) + 1]
      BY <1>4, <3>1
    <3> QED
      BY <3>1, <3>3, <3>4
  <2> QED
    BY <2>1, <2>2, <2>3, <2>4
<1> HIDE DEF ar
<1>7. /\ s \in Seq(S) /\ Len(s) = Len(t)
      /\ \A k \in 1..Len(t) : s[k] = IF k <= j THEN ar[k] ELSE t[k]
  <2>1. /\ s \in Seq(S) /\ Len(s) = Len(ar) + Len(c)
        /\ \A k \in 1..(Len(ar) + Len(c)) : s[k] = IF k <= Len(ar) THEN ar[k] ELSE c[k - Len(ar)]
    BY <1>3, <1>6, Concat
  <2> HIDE DEF s
  <2>2. Len(ar) = j /\ Len(ar) + Len(c) = Len(t)
    BY <1>3, <1>6
  <2>3. ASSUME NEW k \in 1..Len(t), ~(k <= j) PROVE s[k] = t[k]
    <3>1. k - j \in 1..(Len(t) - j) /\ j + (k - j) = k
      BY <2>3
    <3>2. s[k] = c[k - j]
      BY <2>1, <2>2, <2>3
    <3> QED
      BY <1>3, <3>1, <3>2
  <2> QED
    BY <2>1, <2>2, <2>3
<1>8. \A k \in 1..Len(t) : s[k] = IF k \in i..j THEN t[i + j - k] ELSE t[k]
  BY <1>6, <1>7
<1> HIDE DEF s
<1>9. s = [k \in 1..Len(t) |-> s[k]]
  BY <1>7
<1>10. s = [k \in DOMAIN t |-> IF k \in i..j THEN t[i + j - k] ELSE t[k]]
  BY <1>8, <1>9
<1> QED
  BY <1>5, <1>10 DEF Reversed, s, ar

-----------------------------------------------------------------------------
\* A tour under construction starts at the origin and visits no waypoint twice.
Path(t) == /\ t \in Seq(1..size) /\ t # <<>> /\ t[1] = 1
           /\ \A k, l \in 1..Len(t) : t[k] = t[l] => k = l
Whole(t) == Path(t) /\ Len(t) = size

\* What each phase of optimizeRoute has established. The flag of the loop says whether
\* the last round exchanged something: after one that did not, no exchange improves.
TwoOptInv ==
    /\ size \in Nat
    /\ phase \in {"begin", "exhaustive", "nearest"} => improved
    /\ phase = "exhaustive" => size <= ExhaustiveMax
    /\ phase = "nearest" => Path(tour) /\ Len(tour) < size
    /\ phase = "improve" \/ (phase = "geometry" /\ size > ExhaustiveMax) =>
         /\ Whole(tour)
         /\ ~improved => Improving = {}

\* A reversal behind the origin gives a tour again.
LEMMA ReversedIsWhole ==
    ASSUME size \in Nat, NEW t, Whole(t), NEW i \in 2..size, NEW j \in 2..size, i < j
    PROVE  Whole(Reversed(t, i, j))
<1> DEFINE u == Reversed(t, i, j)
           at(k) == IF k \in i..j THEN i + j - k ELSE k
<1>1. t \in Seq(1..size) /\ Len(t) = size /\ t[1] = 1 /\ DOMAIN t = 1..size
  BY DEF Whole, Path
<1>2. \A k \in 1..size : at(k) \in 1..size
  OBVIOUS
<1>3. \A k, l \in 1..size : at(k) = at(l) => k = l
  OBVIOUS
<1>4. u = [k \in 1..size |-> t[at(k)]]
  BY <1>1 DEF Reversed
<1>5. at(1) = 1
  OBVIOUS
<1> HIDE DEF u, at
<1>6. u \in Seq(1..size) /\ Len(u) = size /\ u[1] = 1 /\ u # <<>>
  BY <1>1, <1>2, <1>4, <1>5
<1>7. \A k, l \in 1..size : u[k] = u[l] => k = l
  BY <1>1, <1>2, <1>3, <1>4 DEF Whole, Path
<1> QED
  BY <1>6, <1>7 DEF Whole, Path, u

\* A path through all waypoints is a tour.
LEMMA WholeIsTour ==
    ASSUME size \in Nat, NEW t, Whole(t)
    PROVE  t \in Tours
<1>1. t \in [1..size -> 1..size] /\ t[1] = 1
  BY DEF Whole, Path
<1>2. IsInjective(t)
  BY DEF IsInjective, Whole, Path
<1> QED
  BY <1>1, <1>2 DEF Tours, ToursOf

\* Every step of the computation keeps the invariant.
LEMMA TwoOptStep ==
    ASSUME TwoOptInv, [OptNext]_optVars
    PROVE  TwoOptInv'
<1> USE OptimizerAssumption
<1>1. CASE Trivial
  BY <1>1 DEF Trivial, TwoOptInv
<1>2. CASE GetDistanceMatrix
  <2>1. CASE size <= ExhaustiveMax
    BY <1>2, <2>1 DEF GetDistanceMatrix, TwoOptInv
  <2>2. CASE ~(size <= ExhaustiveMax)
    <3>1. tour' = <<1>> /\ phase' = "nearest" /\ size' = size /\ size > 1 /\ size \in Nat
      BY <1>2, <2>2 DEF GetDistanceMatrix, TwoOptInv
    <3>2. Path(tour)' /\ Len(tour') = 1
      BY <3>1 DEF Path
    <3> QED
      BY <1>2, <2>2, <3>1, <3>2 DEF GetDistanceMatrix, TwoOptInv
  <2> QED
    BY <2>1, <2>2
<1>3. CASE SolveExhaustivePermutation \/ ExhaustiveEnds
  <2>1. /\ phase' \in {phase, "geometry"} /\ phase = "exhaustive"
        /\ UNCHANGED <<size, improved>>
    BY <1>3 DEF SolveExhaustivePermutation, ExhaustiveEnds
  <2> QED
    BY <2>1 DEF TwoOptInv
<1>4. CASE NearestNeighbor
  <2>1. PICK i \in (1..size) \ Visited : tour' = Append(tour, i)
    BY <1>4 DEF NearestNeighbor
  <2>2. \A k \in 1..Len(tour) : tour[k] # i
    BY <1>4, <2>1 DEF NearestNeighbor, Visited, Range, TwoOptInv, Path
  <2>3. Path(tour)' /\ Len(tour') = Len(tour) + 1
    BY <1>4, <2>1, <2>2 DEF NearestNeighbor, TwoOptInv, Path
  <2> QED
    BY <1>4, <2>3 DEF NearestNeighbor, TwoOptInv, Whole, Path
<1>5. CASE TwoOptRound
  <2>1. CASE Improving = {}
    BY <1>5, <2>1 DEF TwoOptRound, TwoOptInv, Whole, Path, Improving, Pairs, Improves, Cost
  <2>2. CASE Improving # {}
    <3>1. PICK ij \in Improving : tour' = Swap(tour, ij[1], ij[2])
      BY <1>5, <2>2 DEF TwoOptRound
    <3>2. ij[1] \in 2..size /\ ij[2] \in 2..size /\ ij[1] < ij[2]
      BY DEF Improving, Pairs
    <3>3. size \in Nat /\ Whole(tour)
      BY <1>5 DEF TwoOptRound, TwoOptInv
    <3>4. tour' = Reversed(tour, ij[1], ij[2])
      <4> DEFINE i == ij[1]
                 j == ij[2]
      <4>1. tour \in Seq(1..size) /\ i \in 1..Len(tour) /\ j \in 1..Len(tour) /\ i < j
        BY <3>2, <3>3 DEF Whole, Path
      <4> QED
        BY <3>1, <4>1, SwapIsReversed
    <3>5. Whole(tour')
      BY <3>2, <3>3, <3>4, ReversedIsWhole
    <3>6. size' = size /\ phase' = phase /\ improved' = TRUE /\ phase = "improve"
      BY <1>5, <2>2 DEF TwoOptRound
    <3> QED
      BY <3>3, <3>5, <3>6 DEF TwoOptInv, Whole, Path
  <2> QED
    BY <2>1, <2>2
<1>6. CASE TwoOptEnds
  BY <1>6 DEF TwoOptEnds, TwoOptInv, Whole, Path, Improving, Pairs, Improves, Cost
<1>7. CASE GetRouteGeometry
  BY <1>7 DEF GetRouteGeometry, TwoOptInv
<1>8. CASE UNCHANGED optVars
  BY <1>8 DEF optVars, TwoOptInv, Whole, Path, Improving, Pairs, Improves, Cost
<1> QED
  BY <1>1, <1>2, <1>3, <1>4, <1>5, <1>6, <1>7, <1>8 DEF OptNext

\* It holds in every state of the computation.
LEMMA TwoOptInvariance == OptSpec => []TwoOptInv
<1>1. OptInit => TwoOptInv
  BY OptimizerAssumption DEF OptInit, TwoOptInv
<1>2. TwoOptInv /\ [OptNext]_optVars => TwoOptInv'
  BY TwoOptStep
<1> QED
  BY <1>1, <1>2, PTL DEF OptSpec

\* solveNearestNeighbor2Opt answers, for any number of waypoints and any matrix, with a
\* tour that starts at the origin and visits every waypoint once; no reversal of a part
\* of it saves more than the threshold, unless the cap on the rounds ended the search.
THEOREM TwoOptCorrect == OptSpec => []TwoOptSettles
<1>1. TwoOptInv => TwoOptSettles
  <2> SUFFICES ASSUME TwoOptInv, phase = "geometry", size > ExhaustiveMax
               PROVE  /\ tour \in Tours
                      /\ ~improved => \A i, j \in 2..size :
                           i < j => ~Improves(tour, Reversed(tour, i, j))
    BY DEF TwoOptSettles, Improves
  <2>1. size \in Nat /\ Whole(tour)
    BY DEF TwoOptInv
  <2>2. tour \in Tours
    BY <2>1, WholeIsTour
  <2>3. ASSUME ~improved, NEW i \in 2..size, NEW j \in 2..size, i < j
        PROVE  ~Improves(tour, Reversed(tour, i, j))
    <3>1. <<i, j>> \notin Improving
      BY <2>3 DEF TwoOptInv
    <3>2. ~Improves(tour, Swap(tour, i, j))
      BY <2>1, <2>3, <3>1 DEF Improving, Pairs
    <3>3. tour \in Seq(1..size) /\ i \in 1..Len(tour) /\ j \in 1..Len(tour)
      BY <2>1 DEF Whole, Path
    <3> QED
      BY <2>3, <3>2, <3>3, SwapIsReversed
  <2> QED
    BY <2>2, <2>3
<1> QED
  BY <1>1, TwoOptInvariance, PTL

-----------------------------------------------------------------------------
(* The recommendation for few stops: the search through all orders *)

\* A set of natural numbers has a least element.
LEMMA LeastElement ==
    ASSUME NEW T \in SUBSET Nat, T # {}
    PROVE  \E x \in T : \A y \in T : x <= y
<1>1. PICK x \in T : \A y \in T : ~(<<y, x>> \in {ss \in Nat \X Nat : ss[1] < ss[2]})
  BY NatLessThanWellFounded, WFMin, Zenon DEF OpToRel
<1>2. ASSUME NEW y \in T PROVE x <= y
  <2>1. <<y, x>> \in Nat \X Nat
    OBVIOUS
  <2>2. ~(y < x)
    BY <1>1, <2>1
  <2> QED BY <2>2
<1> QED BY <1>2

\* A set of numbers that holds 0 and with each number the next, up to K, holds all
\* of them: the first one missing would have its predecessor in the set.
LEMMA UpTo ==
    ASSUME NEW K \in Nat, NEW S, 0 \in S, \A k \in 1..K : k - 1 \in S => k \in S
    PROVE  0..K \subseteq S
<1> SUFFICES ASSUME (0..K) \ S # {} PROVE FALSE
  OBVIOUS
<1>1. PICK k \in (0..K) \ S : \A l \in (0..K) \ S : k <= l
  <2>1. (0..K) \ S \in SUBSET Nat
    OBVIOUS
  <2> QED BY <2>1, LeastElement
<1>2. k \in 1..K /\ k - 1 \in 0..K /\ ~(k <= k - 1)
  BY <1>1
<1>3. k - 1 \in S
  BY <1>1, <1>2
<1> QED BY <1>1, <1>2, <1>3

\* g holds the partial sums of w up to k.
IsSum(g, w, k) == /\ g \in [0..k -> Int]
                  /\ \A l \in 0..k : g[l] = IF l <= 1 THEN 0 ELSE g[l - 1] + w[l]

\* Partial sums go on by one number.
LEMMA SumGoesOn ==
    ASSUME NEW K \in Nat, NEW w \in [2..K -> Int], NEW k \in 1..K, NEW g, IsSum(g, w, k - 1)
    PROVE  \E h : IsSum(h, w, k)
<1> DEFINE x == IF k <= 1 THEN 0 ELSE g[k - 1] + w[k]
           h == [l \in 0..k |-> IF l < k THEN g[l] ELSE x]
<1>1. g \in [0..(k - 1) -> Int]
  BY DEF IsSum
<1>2. x \in Int
  <2>1. CASE k <= 1
    BY <2>1
  <2>2. CASE ~(k <= 1)
    <3>1. k - 1 \in 0..(k - 1) /\ k \in 2..K
      BY <2>2
    <3>2. g[k - 1] \in Int /\ w[k] \in Int
      BY <1>1, <3>1
    <3> QED BY <2>2, <3>2
  <2> QED BY <2>1, <2>2
<1>3. ASSUME NEW l \in 0..k PROVE (IF l < k THEN g[l] ELSE x) \in Int
  <2>1. l < k => l \in 0..(k - 1)
    OBVIOUS
  <2> HIDE DEF x
  <2> QED BY <1>1, <1>2, <2>1
<1>4. h \in [0..k -> Int]
  <2> HIDE DEF x
  <2> QED BY <1>3
<1>5. ASSUME NEW l \in 0..k PROVE h[l] = IF l <= 1 THEN 0 ELSE h[l - 1] + w[l]
  <2>1. CASE l < k
    <3>1. l \in 0..(k - 1) /\ h[l] = g[l] /\ (~(l <= 1) => h[l - 1] = g[l - 1])
      BY <2>1
    <3>2. g[l] = IF l <= 1 THEN 0 ELSE g[l - 1] + w[l]
      BY <3>1 DEF IsSum
    <3> HIDE DEF h
    <3> QED BY <3>1, <3>2
  <2>2. CASE l = k
    <3>1. h[l] = x /\ (~(l <= 1) => h[l - 1] = g[l - 1])
      BY <2>2
    <3> HIDE DEF h
    <3> QED BY <2>2, <3>1
  <2> QED BY <2>1, <2>2
<1> HIDE DEF h
<1> QED BY <1>4, <1>5 DEF IsSum

\* Partial sums exist, so the recursive definition of a sum has a solution.
LEMMA SumExists ==
    ASSUME NEW K \in Nat, NEW w \in [2..K -> Int]
    PROVE  \E g : IsSum(g, w, K)
<1> DEFINE S == {k \in 0..K : \E g : IsSum(g, w, k)}
<1>1. 0 \in S
  <2>1. IsSum([l \in 0..0 |-> 0], w, 0)
    BY DEF IsSum
  <2>2. 0 \in 0..K
    OBVIOUS
  <2> QED BY <2>1, <2>2, Zenon
<1>2. ASSUME NEW k \in 1..K, k - 1 \in S PROVE k \in S
  <2>1. \E h : IsSum(h, w, k)
    BY <1>2, SumGoesOn, Zenon
  <2>2. k \in 0..K
    OBVIOUS
  <2> QED BY <2>1, <2>2, Zenon
<1>3. 0..K \subseteq S
  <2> HIDE DEF S
  <2> QED BY <1>1, <1>2, UpTo
<1>4. K \in 0..K
  OBVIOUS
<1> QED BY <1>3, <1>4, Zenon

\* computeTourCost and computeTourDistance give a number for every tour.
LEMMA AlongIsNumber ==
    ASSUME NEW K \in Nat, NEW legs \in [1..K -> [1..K -> Int]], NEW t \in [1..K -> 1..K]
    PROVE  Along(legs, t) \in Int
<1> DEFINE w == [k \in 2..K |-> legs[t[k - 1]][t[k]]]
<1>1. Len(t) = K
  OBVIOUS
<1>2. ASSUME NEW k \in 2..K PROVE legs[t[k - 1]][t[k]] \in Int
  <2>1. k - 1 \in 1..K /\ k \in 1..K
    OBVIOUS
  <2>2. t[k - 1] \in 1..K /\ t[k] \in 1..K
    BY <2>1
  <2> QED BY <2>2
<1>3. w \in [2..K -> Int]
  BY <1>2
<1>4. PICK g : IsSum(g, w, K)
  <2> HIDE DEF w
  <2> QED BY <1>3, SumExists
<1> DEFINE Sums(f) == f = [k \in 0..Len(t) |->
                             IF k <= 1 THEN 0 ELSE f[k - 1] + legs[t[k - 1]][t[k]]]
           f0 == CHOOSE f : Sums(f)
<1>5. Sums(g)
  <2>1. g \in [0..K -> Int]
    BY <1>4 DEF IsSum
  <2>2. ASSUME NEW k \in 0..K
        PROVE  g[k] = IF k <= 1 THEN 0 ELSE g[k - 1] + legs[t[k - 1]][t[k]]
    <3>1. g[k] = IF k <= 1 THEN 0 ELSE g[k - 1] + w[k]
      <4> HIDE DEF w
      <4> QED BY <1>4 DEF IsSum
    <3>2. ~(k <= 1) => k \in 2..K
      OBVIOUS
    <3>3. ~(k <= 1) => w[k] = legs[t[k - 1]][t[k]]
      BY <3>2
    <3> HIDE DEF w
    <3> QED BY <3>1, <3>3
  <2> QED BY <1>1, <2>1, <2>2
<1> HIDE DEF w
<1>6. Sums(f0)
  <2>1. \E f : Sums(f)
    BY <1>5
  <2> HIDE DEF Sums
  <2> QED BY <2>1
<1>7. Along(legs, t) = f0[Len(t)]
  BY DEF Along
<1> HIDE DEF f0
<1> DEFINE Good == {k \in 0..K : f0[k] \in Int}
           leg(k) == legs[t[k - 1]][t[k]]
<1>8. ASSUME NEW k \in 0..K PROVE f0[k] = IF k <= 1 THEN 0 ELSE f0[k - 1] + leg(k)
  BY <1>1, <1>6
<1>9. 0 \in Good
  BY <1>8
<1>10. ASSUME NEW k \in 1..K, k - 1 \in Good PROVE k \in Good
  <2>1. k \in 0..K /\ f0[k - 1] \in Int
    BY <1>10
  <2>2. ~(k <= 1) => leg(k) \in Int
    <3>1. ~(k <= 1) => k \in 2..K
      OBVIOUS
    <3> QED BY <1>2, <3>1
  <2> HIDE DEF leg
  <2>3. f0[k] = IF k <= 1 THEN 0 ELSE f0[k - 1] + leg(k)
    BY <1>8, <2>1
  <2>4. f0[k] \in Int
    <3>1. CASE k <= 1
      BY <2>3, <3>1
    <3>2. CASE ~(k <= 1)
      <4>1. \A x, y \in Int : x + y \in Int
        OBVIOUS
      <4>2. f0[k] = f0[k - 1] + leg(k)
        BY <2>3, <3>2, Zenon
      <4> QED BY <2>1, <2>2, <3>2, <4>1, <4>2, Zenon
    <3> QED BY <3>1, <3>2
  <2> QED BY <2>1, <2>4
<1>11. 0..K \subseteq Good
  <2> HIDE DEF Good
  <2> QED BY <1>9, <1>10, UpTo
<1> QED BY <1>1, <1>7, <1>11

\* The order of id lists is transitive.
LEMMA SeqLessTransitive ==
    ASSUME NEW K \in Nat, NEW s \in [1..K -> Int], NEW t \in [1..K -> Int],
           NEW u \in [1..K -> Int], SeqLess(s, t), SeqLess(t, u)
    PROVE  SeqLess(s, u)
<1>1. PICK i \in 1..K : s[i] < t[i] /\ \A l \in 1..(i - 1) : s[l] = t[l]
  BY DEF SeqLess
<1>2. PICK j \in 1..K : t[j] < u[j] /\ \A l \in 1..(j - 1) : t[l] = u[l]
  BY DEF SeqLess
<1> DEFINE k == IF i < j THEN i ELSE j
<1>3. s[k] < u[k]
  <2>1. CASE i < j
    <3>1. t[i] = u[i]
      BY <1>2, <2>1
    <3> QED BY <1>1, <2>1, <3>1
  <2>2. CASE i = j
    BY <1>1, <1>2, <2>2
  <2>3. CASE j < i
    <3>1. s[j] = t[j]
      BY <1>1, <2>3
    <3> QED BY <1>2, <2>3, <3>1
  <2> QED BY <2>1, <2>2, <2>3
<1>4. ASSUME NEW l \in 1..(k - 1) PROVE s[l] = u[l]
  <2>1. l \in 1..(i - 1) /\ l \in 1..(j - 1)
    OBVIOUS
  <2> QED BY <1>1, <1>2, <2>1
<1>5. k \in DOMAIN s \cap DOMAIN u
  OBVIOUS
<1> HIDE DEF k
<1> QED BY <1>3, <1>4, <1>5 DEF SeqLess

\* Two different lists compare: at the first place where they differ.
LEMMA SeqLessTotal ==
    ASSUME NEW K \in Nat, NEW s \in [1..K -> Int], NEW t \in [1..K -> Int], s # t
    PROVE  SeqLess(s, t) \/ SeqLess(t, s)
<1> DEFINE D == {k \in 1..K : s[k] # t[k]}
<1>1. D # {} /\ D \in SUBSET Nat
  OBVIOUS
<1>2. PICK k \in D : \A l \in D : k <= l
  <2> HIDE DEF D
  <2> QED BY <1>1, LeastElement
<1>3. k \in 1..K /\ s[k] # t[k] /\ s[k] \in Int /\ t[k] \in Int
  BY <1>2
<1>4. ASSUME NEW l \in 1..(k - 1) PROVE s[l] = t[l]
  <2>1. l \in 1..K /\ ~(k <= l)
    BY <1>3
  <2> QED BY <1>2, <2>1
<1>5. s[k] < t[k] \/ t[k] < s[k]
  BY <1>3
<1>6. k \in DOMAIN s \cap DOMAIN t /\ k \in DOMAIN t \cap DOMAIN s
  BY <1>3
<1> HIDE DEF D
<1> QED BY <1>4, <1>5, <1>6 DEF SeqLess

-----------------------------------------------------------------------------
\* A request whose matrix has come and whose stops are few.
Few == size \in Sizes /\ size \in 2..5 /\ matrix \in Matrices(size)

\* The costs of a tour are numbers, and its ids tell it from every other.
LEMMA TourNumbers ==
    ASSUME Few, NEW t \in ToursOf(size)
    PROVE  /\ Cost(t) \in Int /\ Dist(t) \in Int
           /\ IdsOf(t) \in [1..size -> Int]
           /\ \A u \in ToursOf(size) : IdsOf(u) = IdsOf(t) => u = t
           /\ t # <<>>
<1>1. size \in Nat /\ size \in Sizes /\ t \in [1..size -> 1..size] /\ 1 \in 1..size
  BY DEF Few, ToursOf
<1>2. /\ matrix.dur \in [1..size -> [1..size -> Int]]
      /\ matrix.dist \in [1..size -> [1..size -> Int]]
  BY <1>1, MatricesAssumption DEF Few
<1>3. Cost(t) \in Int /\ Dist(t) \in Int
  BY <1>1, <1>2, AlongIsNumber DEF Cost, Dist
<1>4. ASSUME NEW u \in ToursOf(size)
      PROVE  /\ IdsOf(u) \in [1..size -> Int]
             /\ \A k \in 1..size : IdsOf(u)[k] = Rank(size, u[k])
  <2>1. u \in [1..size -> 1..size]
    BY DEF ToursOf
  <2>2. \A k \in 1..size : Rank(size, u[k]) \in Int
    BY <1>1, <2>1, RankAssumption
  <2> QED BY <2>1, <2>2 DEF IdsOf
<1>5. ASSUME NEW u \in ToursOf(size), IdsOf(u) = IdsOf(t)
      PROVE  u = t
  <2>1. u \in [1..size -> 1..size]
    BY DEF ToursOf
  <2>2. ASSUME NEW k \in 1..size PROVE u[k] = t[k]
    <3>1. Rank(size, u[k]) = Rank(size, t[k])
      BY <1>4, <1>5
    <3>2. u[k] \in 1..size /\ t[k] \in 1..size
      BY <1>1, <2>1
    <3> QED BY <1>1, <3>1, <3>2, RankAssumption
  <2> QED BY <1>1, <2>1, <2>2
<1>6. t # <<>>
  BY <1>1
<1> QED BY <1>3, <1>4, <1>5, <1>6

\* The comparison of solveExhaustivePermutation orders the tours.
LEMMA BetterTransitive ==
    ASSUME Few, NEW t \in ToursOf(size), NEW u \in ToursOf(size), NEW v \in ToursOf(size),
           Better(t, u), Better(u, v)
    PROVE  Better(t, v)
<1>1. /\ Cost(t) \in Int /\ Dist(t) \in Int /\ IdsOf(t) \in [1..size -> Int]
      /\ Cost(u) \in Int /\ Dist(u) \in Int /\ IdsOf(u) \in [1..size -> Int] /\ u # <<>>
      /\ Cost(v) \in Int /\ Dist(v) \in Int /\ IdsOf(v) \in [1..size -> Int] /\ v # <<>>
  BY TourNumbers
<1>2. SeqLess(IdsOf(t), IdsOf(u)) /\ SeqLess(IdsOf(u), IdsOf(v)) => SeqLess(IdsOf(t), IdsOf(v))
  <2>1. size \in Nat
    BY DEF Few
  <2> QED BY <1>1, <2>1, SeqLessTransitive
<1> QED BY <1>1, <1>2 DEF Better

\* Of two different tours one is better.
LEMMA BetterTotal ==
    ASSUME Few, NEW t \in ToursOf(size), NEW u \in ToursOf(size), t # u
    PROVE  Better(t, u) \/ Better(u, t)
<1>1. /\ Cost(t) \in Int /\ Dist(t) \in Int /\ IdsOf(t) \in [1..size -> Int]
      /\ Cost(u) \in Int /\ Dist(u) \in Int /\ IdsOf(u) \in [1..size -> Int]
      /\ IdsOf(t) # IdsOf(u)
  BY TourNumbers
<1>2. SeqLess(IdsOf(t), IdsOf(u)) \/ SeqLess(IdsOf(u), IdsOf(t))
  <2>1. size \in Nat
    BY DEF Few
  <2> QED BY <1>1, <2>1, SeqLessTotal
<1> QED BY <1>1, <1>2 DEF Better

\* A better tour comes first by its duration, its distance and its ids together.
LEMMA BetterIsFirst ==
    ASSUME Few, NEW t \in ToursOf(size), NEW u \in ToursOf(size), Better(t, u)
    PROVE  SeqLess(Merit(t), Merit(u))
<1>1. /\ Cost(t) \in Int /\ Dist(t) \in Int /\ IdsOf(t) \in [1..size -> Int]
      /\ Cost(u) \in Int /\ Dist(u) \in Int /\ IdsOf(u) \in [1..size -> Int]
      /\ u # <<>> /\ size \in Nat
  BY TourNumbers DEF Few
<1>2. ASSUME NEW v \in {t, u}
      PROVE  /\ DOMAIN Merit(v) = 1..(size + 2)
             /\ Merit(v)[1] = Cost(v) /\ Merit(v)[2] = Dist(v)
             /\ \A k \in 1..size : Merit(v)[k + 2] = IdsOf(v)[k]
  <2> DEFINE a == <<Cost(v), Dist(v)>>
             b == IdsOf(v)
  <2>1. a \in Seq(Int) /\ Len(a) = 2 /\ a[1] = Cost(v) /\ a[2] = Dist(v)
    BY <1>1
  <2>2. b \in Seq(Int) /\ Len(b) = size
    BY <1>1
  <2>3. Merit(v) = a \o b
    BY DEF Merit
  <2> HIDE DEF a, b
  <2>4. /\ a \o b \in Seq(Int) /\ Len(a \o b) = size + 2
        /\ \A k \in 1..(size + 2) : (a \o b)[k] = IF k <= 2 THEN a[k] ELSE b[k - 2]
    <3>1. /\ a \o b \in Seq(Int) /\ Len(a \o b) = Len(a) + Len(b)
          /\ \A k \in 1..(Len(a) + Len(b)) :
               (a \o b)[k] = IF k <= Len(a) THEN a[k] ELSE b[k - Len(a)]
      BY <2>1, <2>2, Concat
    <3>2. Len(a) = 2 /\ Len(a) + Len(b) = size + 2
      BY <1>1, <2>1, <2>2
    <3> QED BY <1>1, <3>1, <3>2
  <2>5. \A k \in 1..size : k + 2 \in 1..(size + 2) /\ ~(k + 2 <= 2) /\ (k + 2) - 2 = k
    BY <1>1
  <2>6. 1 \in 1..(size + 2) /\ 2 \in 1..(size + 2)
    BY <1>1
  <2>7. \A k \in 1..size : (a \o b)[k + 2] = b[k]
    BY <2>4, <2>5
  <2>8. (a \o b)[1] = Cost(v) /\ (a \o b)[2] = Dist(v)
    BY <2>1, <2>4, <2>6
  <2>9. DOMAIN (a \o b) = 1..(size + 2)
    <3>1. ASSUME NEW s \in Seq(Int) PROVE DOMAIN s = 1..Len(s)
      OBVIOUS
    <3> QED BY <2>4, <3>1, Zenon
  <2>10. b = IdsOf(v)
    BY DEF b
  <2> QED BY <2>3, <2>7, <2>8, <2>9, <2>10, Zenon
<1>3. CASE Cost(t) < Cost(u)
  <2>1. 1 \in DOMAIN Merit(t) \cap DOMAIN Merit(u) /\ 1..(1 - 1) = {}
    BY <1>1, <1>2
  <2> QED BY <1>2, <1>3, <2>1 DEF SeqLess
<1>4. CASE Cost(t) = Cost(u) /\ Dist(t) < Dist(u)
  <2>1. 2 \in DOMAIN Merit(t) \cap DOMAIN Merit(u) /\ 1..(2 - 1) = {1}
    BY <1>1, <1>2
  <2> QED BY <1>2, <1>4, <2>1 DEF SeqLess
<1>5. CASE Cost(t) = Cost(u) /\ Dist(t) = Dist(u) /\ SeqLess(IdsOf(t), IdsOf(u))
  <2>1. PICK k \in 1..size : /\ IdsOf(t)[k] < IdsOf(u)[k]
                             /\ \A l \in 1..(k - 1) : IdsOf(t)[l] = IdsOf(u)[l]
    BY <1>1, <1>5 DEF SeqLess
  <2>2. k + 2 \in DOMAIN Merit(t) \cap DOMAIN Merit(u) /\ Merit(t)[k + 2] < Merit(u)[k + 2]
    BY <1>1, <1>2, <2>1
  <2>3. ASSUME NEW l \in 1..((k + 2) - 1) PROVE Merit(t)[l] = Merit(u)[l]
    <3>1. CASE l \in {1, 2}
      BY <1>2, <1>5, <3>1
    <3>2. CASE l \notin {1, 2}
      <4>1. l - 2 \in 1..(k - 1) /\ l - 2 \in 1..size /\ (l - 2) + 2 = l
        BY <1>1, <3>2
      <4>2. Merit(t)[(l - 2) + 2] = Merit(u)[(l - 2) + 2]
        BY <1>2, <2>1, <4>1
      <4> QED BY <4>1, <4>2
    <3> QED BY <3>1, <3>2
  <2> QED BY <2>2, <2>3 DEF SeqLess
<1> QED BY <1>1, <1>3, <1>4, <1>5 DEF Better

-----------------------------------------------------------------------------
\* After k rounds of the loop b is one of the orders tried, and better than the others.
Best(b, k) == /\ k = 0 => b = <<>>
              /\ k > 0 => \E i \in 1..k : b = FullOrder(size, i)
              /\ \A i \in 1..k : FullOrder(size, i) = b \/ Better(b, FullOrder(size, i))

\* The orders tried are the tours.
LEMMA OrdersAreTours ==
    ASSUME Few
    PROVE  /\ Len(Orders(size)) \in Nat
           /\ \A i \in 1..Len(Orders(size)) : FullOrder(size, i) \in ToursOf(size)
           /\ \A t \in ToursOf(size) : \E i \in 1..Len(Orders(size)) : t = FullOrder(size, i)
<1>1. size \in 2..5
  BY DEF Few
<1>2. /\ Orders(size) \in Seq(Seq(Nat))
      /\ {FullOrder(size, i) : i \in 1..Len(Orders(size))} = ToursOf(size)
  BY <1>1, GeneratedAssumption
<1> QED BY <1>2

\* One more round keeps the best of the orders tried.
LEMMA BestStep ==
    ASSUME Few, NEW b, NEW k \in Nat, k < Len(Orders(size)), Best(b, k)
    PROVE  Best(IF Better(FullOrder(size, k + 1), b) THEN FullOrder(size, k + 1) ELSE b, k + 1)
<1> DEFINE F(i) == FullOrder(size, i)
           c == IF Better(F(k + 1), b) THEN F(k + 1) ELSE b
<1>1. \A i \in 1..(k + 1) : F(i) \in ToursOf(size)
  BY OrdersAreTours
<1>2. /\ k = 0 => b = <<>>
      /\ k > 0 => \E i \in 1..k : b = F(i)
      /\ \A i \in 1..k : F(i) = b \/ Better(b, F(i))
  BY DEF Best
<1>3. k + 1 \in 1..(k + 1) /\ k + 1 > 0 /\ k + 1 # 0
  OBVIOUS
<1> HIDE DEF F
<1>4. CASE Better(F(k + 1), b)
  <2>1. ASSUME NEW i \in 1..k PROVE Better(F(k + 1), F(i))
    <3>1. b \in ToursOf(size)
      BY <1>1, <1>2
    <3>2. F(i) \in ToursOf(size) /\ F(k + 1) \in ToursOf(size)
      BY <1>1, <1>3
    <3>3. CASE F(i) = b
      BY <1>4, <3>3
    <3>4. CASE Better(b, F(i))
      BY <1>4, <3>1, <3>2, <3>4, BetterTransitive
    <3> QED BY <1>2, <3>3, <3>4
  <2>2. \A i \in 1..(k + 1) : F(i) = F(k + 1) \/ Better(F(k + 1), F(i))
    <3>1. \A i \in 1..(k + 1) : i \in 1..k \/ i = k + 1
      OBVIOUS
    <3> QED BY <2>1, <3>1
  <2>3. \E i \in 1..(k + 1) : F(k + 1) = F(i)
    BY <1>3
  <2> QED BY <1>3, <1>4, <2>2, <2>3 DEF Best, F
<1>5. CASE ~Better(F(k + 1), b)
  <2>1. b # <<>> /\ k > 0
    BY <1>2, <1>5 DEF Better
  <2>2. PICK j \in 1..k : b = F(j)
    BY <1>2, <2>1
  <2>3. j \in 1..(k + 1)
    OBVIOUS
  <2>4. b \in ToursOf(size) /\ F(k + 1) \in ToursOf(size)
    BY <1>1, <1>3, <2>2, <2>3
  <2>5. F(k + 1) = b \/ Better(b, F(k + 1))
    BY <1>5, <2>4, BetterTotal
  <2>6. \A i \in 1..(k + 1) : F(i) = b \/ Better(b, F(i))
    <3>1. \A i \in 1..(k + 1) : i \in 1..k \/ i = k + 1
      OBVIOUS
    <3> QED BY <1>2, <2>5, <3>1
  <2>7. \E i \in 1..(k + 1) : b = F(i)
    BY <2>2, <2>3
  <2> QED BY <1>3, <1>5, <2>6, <2>7 DEF Best, F
<1> QED BY <1>4, <1>5

\* What the phases of optimizeRoute have established for few stops.
ExhaustiveInv ==
    /\ size \in Sizes
    /\ phase = "begin" => iteration = 0 /\ tour = <<>>
    /\ phase = "exhaustive" =>
         /\ Few /\ size <= ExhaustiveMax
         /\ iteration \in 0..Len(Orders(size)) /\ Best(tour, iteration)
    /\ phase \in {"nearest", "improve"} => size > ExhaustiveMax
    /\ phase = "geometry" /\ size <= ExhaustiveMax =>
         Few /\ Best(tour, Len(Orders(size)))

\* Every step of the computation keeps it.
LEMMA ExhaustiveStep ==
    ASSUME ExhaustiveInv, [OptNext]_optVars PROVE ExhaustiveInv'
<1>0. size \in Nat /\ ExhaustiveMax \in 0..5
  BY OptimizerAssumption DEF ExhaustiveInv
<1>1. CASE Trivial
  BY <1>1 DEF Trivial, ExhaustiveInv
<1>2. CASE GetDistanceMatrix
  <2>1. CASE size <= ExhaustiveMax
    <3>1. /\ phase' = "exhaustive" /\ UNCHANGED <<size, tour, iteration>>
          /\ matrix' \in Matrices(size) /\ size > 1 /\ iteration = 0 /\ tour = <<>>
      BY <1>2, <2>1 DEF GetDistanceMatrix, ExhaustiveInv
    <3>2. Few'
      BY <1>0, <2>1, <3>1 DEF Few, ExhaustiveInv
    <3>3. Len(Orders(size)) \in Nat
      <4>1. size \in 2..5
        BY <1>0, <2>1, <3>1
      <4> QED BY <4>1, GeneratedAssumption
    <3>4. Best(tour, iteration)' /\ iteration' \in 0..Len(Orders(size))'
      BY <3>1, <3>3 DEF Best
    <3> QED BY <2>1, <3>1, <3>2, <3>4 DEF ExhaustiveInv
  <2>2. CASE ~(size <= ExhaustiveMax)
    BY <1>0, <1>2, <2>2 DEF GetDistanceMatrix, ExhaustiveInv
  <2> QED BY <2>1, <2>2
<1>3. CASE SolveExhaustivePermutation
  <2> DEFINE full == FullOrder(size, iteration + 1)
             b == IF Better(full, tour) THEN full ELSE tour
  <2>1. /\ phase = "exhaustive" /\ iteration < Len(Orders(size)) /\ iteration' = iteration + 1
        /\ tour' = b /\ UNCHANGED <<phase, size, matrix>>
    BY <1>3 DEF SolveExhaustivePermutation
  <2>2. Few /\ size <= ExhaustiveMax /\ iteration \in Nat /\ Best(tour, iteration)
    BY <2>1 DEF ExhaustiveInv
  <2>3. Best(b, iteration + 1)
    BY <2>1, <2>2, BestStep
  <2> HIDE DEF b
  <2>4. Best(tour, iteration)'
    BY <2>1, <2>3 DEF Best, Better, Cost, Dist, IdsOf
  <2>5. Few' /\ iteration' \in 0..Len(Orders(size))'
    BY <2>1, <2>2, OrdersAreTours DEF Few
  <2> QED BY <2>1, <2>2, <2>4, <2>5 DEF ExhaustiveInv
<1>4. CASE ExhaustiveEnds
  <2>1. /\ phase = "exhaustive" /\ iteration = Len(Orders(size)) /\ phase' = "geometry"
        /\ UNCHANGED <<size, matrix, tour>>
    BY <1>4 DEF ExhaustiveEnds
  <2>2. Few /\ Best(tour, Len(Orders(size)))
    BY <2>1 DEF ExhaustiveInv
  <2>3. Few' /\ Best(tour, Len(Orders(size)))'
    BY <2>1, <2>2 DEF Few, Best, Better, Cost, Dist, IdsOf
  <2> QED BY <2>1, <2>3 DEF ExhaustiveInv
<1>5. CASE NearestNeighbor \/ TwoOptRound \/ TwoOptEnds
  <2>1. /\ phase \in {"nearest", "improve"} /\ phase' \in {"nearest", "improve", "geometry"}
        /\ size' = size
    BY <1>5 DEF NearestNeighbor, TwoOptRound, TwoOptEnds
  <2> QED BY <1>0, <2>1 DEF ExhaustiveInv
<1>6. CASE GetRouteGeometry
  BY <1>6 DEF GetRouteGeometry, ExhaustiveInv
<1>7. CASE UNCHANGED optVars
  BY <1>7 DEF optVars, ExhaustiveInv, Few, Best, Better, Cost, Dist, IdsOf
<1> QED BY <1>1, <1>2, <1>3, <1>4, <1>5, <1>6, <1>7 DEF OptNext

\* solveExhaustivePermutation answers with the one best order: for any matrix of
\* numbers, any distinct ids and up to five waypoints, it is a tour from the origin and
\* precedes every other by duration, distance and ids.
THEOREM ExhaustiveCorrect == OptSpec => []ExhaustiveIsOptimal
<1>1. OptInit => ExhaustiveInv
  BY OptimizerAssumption DEF OptInit, ExhaustiveInv
<1>2. ExhaustiveInv /\ [OptNext]_optVars => ExhaustiveInv'
  BY ExhaustiveStep
<1>3. ExhaustiveInv => ExhaustiveIsOptimal
  <2> SUFFICES ASSUME ExhaustiveInv, phase = "geometry", size <= ExhaustiveMax
               PROVE  /\ tour \in Tours
                      /\ \A t \in Tours \ {tour} : SeqLess(Merit(tour), Merit(t))
    BY DEF ExhaustiveIsOptimal
  <2> DEFINE K == Len(Orders(size))
  <2>1. Few /\ Best(tour, K)
    BY DEF ExhaustiveInv
  <2>2. /\ K \in Nat
        /\ \A i \in 1..K : FullOrder(size, i) \in ToursOf(size)
        /\ \A t \in ToursOf(size) : \E i \in 1..K : t = FullOrder(size, i)
    BY <2>1, OrdersAreTours
  <2> HIDE DEF K
  <2>3. ToursOf(size) # {}
    <3> DEFINE id == [i \in 1..size |-> i]
    <3>1. size \in 2..5
      BY <2>1 DEF Few
    <3>2. id \in [1..size -> 1..size] /\ id[1] = 1 /\ IsInjective(id)
      BY <3>1 DEF IsInjective
    <3> QED BY <3>2 DEF ToursOf
  <2>4. K > 0
    BY <2>2, <2>3
  <2>5. PICK j \in 1..K : tour = FullOrder(size, j)
    BY <2>1, <2>4 DEF Best
  <2>6. tour \in ToursOf(size)
    BY <2>2, <2>5
  <2>7. ASSUME NEW t \in ToursOf(size), t # tour PROVE SeqLess(Merit(tour), Merit(t))
    <3>1. Better(tour, t)
      BY <2>1, <2>2, <2>7 DEF Best
    <3> QED BY <2>1, <2>6, <3>1, BetterIsFirst
  <2> QED BY <2>6, <2>7 DEF Tours
<1> QED BY <1>1, <1>2, <1>3, PTL DEF OptSpec
=============================================================================
