----------------------------- MODULE Optimizer -----------------------------
(***************************************************************************)
(* The recommendation of a route: route-optimizer.service.ts over          *)
(* routing.service.ts (OSRM, or great-circle distances when it fails), the *)
(* search through all orders for few stops and the nearest neighbour tour  *)
(* improved by 2-opt for more.  Waypoints are numbered from 1; the first   *)
(* is the origin and stays first.                                          *)
(***************************************************************************)
EXTENDS Integers, Sequences, SequencesExt, FiniteSets, FiniteSetsExt, Functions

CONSTANTS Sizes,           \* numbers of waypoints
          Rank(_, _),      \* Rank(k, i): the place of the id of waypoint i among k ids
          Matrices(_),     \* what a provider may answer for k waypoints: [dur, dist]
          ExhaustiveMax,   \* 5
          MaxIterations,   \* 100
          Threshold        \* 0.001 s

ASSUME OptimizerAssumption == Sizes \subseteq Nat /\ ExhaustiveMax \in 0..5
\* The ids of the stops differ; a matrix has a number for every leg.
ASSUME RankAssumption ==
    \A k \in Sizes : \A i, j \in 1..k :
      Rank(k, i) \in Int /\ (Rank(k, i) = Rank(k, j) => i = j)
ASSUME MatricesAssumption ==
    \A k \in Sizes :
      LET Legs == [1..k -> [1..k -> Int]]
      IN Matrices(k) \subseteq [dur : Legs, dist : Legs]

VARIABLES phase, size, preferred,
          matrix, provider, \* the matrix and who computed it
          tour,            \* the best tour so far
          improved,        \* the last round of 2-opt made an exchange
          iteration,       \* rounds of the search so far
          geometry         \* who computed the line and the totals of the answer

optVars == <<phase, size, preferred, matrix, provider, tour, improved, iteration,
             geometry>>

Provider == {"OSRM", "HAVERSINE_FALLBACK"}
NoMatrix == [dur |-> <<>>, dist |-> <<>>]

OptInit == /\ phase = "begin" /\ size \in Sizes /\ preferred \in {"osrm", "haversine"}
           /\ matrix = NoMatrix /\ provider = "none"
           /\ tour = <<>> /\ improved = TRUE /\ iteration = 0 /\ geometry = "none"

\* The length of a tour by a matrix, computeTourCost and computeTourDistance.
Along(legs, t) ==
    LET upTo[k \in 0..Len(t)] ==     \* the way to the kth waypoint
          IF k <= 1 THEN 0 ELSE upTo[k - 1] + legs[t[k - 1]][t[k]]
    IN upTo[Len(t)]
Cost(t) == Along(matrix.dur, t)
Dist(t) == Along(matrix.dist, t)
IdsOf(t) == [i \in DOMAIN t |-> Rank(size, t[i])]

\* Strings of ids compare like the sequences of their ids.
SeqLess(s, t) == \E k \in DOMAIN s \cap DOMAIN t :
                   s[k] < t[k] /\ \A l \in 1..(k - 1) : s[l] = t[l]

-----------------------------------------------------------------------------
\* At most one waypoint: nothing to compute.
Trivial ==
    /\ phase = "begin" /\ size <= 1
    /\ tour' = [i \in 1..size |-> i] /\ provider' = "HAVERSINE_FALLBACK"
    /\ phase' = "done"
    /\ UNCHANGED <<size, preferred, matrix, improved, iteration, geometry>>

\* getDistanceMatrix: OSRM unless the client prefers haversine or OSRM fails.
Answers(q) == IF q = "haversine" THEN {"HAVERSINE_FALLBACK"} ELSE Provider
GetDistanceMatrix ==
    /\ phase = "begin" /\ size > 1
    /\ provider' \in Answers(preferred)
    /\ matrix' \in Matrices(size)
    /\ IF size <= ExhaustiveMax
         THEN phase' = "exhaustive" /\ UNCHANGED tour
         ELSE phase' = "nearest" /\ tour' = <<1>>
    /\ UNCHANGED <<size, preferred, improved, iteration, geometry>>

-----------------------------------------------------------------------------
(* exhaustive-permutation.util.ts *)

\* All orders of a sequence, in the order of the recursion.
GeneratePermutations[s \in Seq(Nat)] ==
    IF Len(s) <= 1 THEN <<s>>
    ELSE FlattenSeq([i \in DOMAIN s |->
           LET rest == GeneratePermutations[SubSeq(s, 1, i - 1) \o SubSeq(s, i + 1, Len(s))]
           IN [k \in DOMAIN rest |-> <<s[i]>> \o rest[k]]])

\* The orders of k waypoints that are tried: the origin stays first.
Orders(k) == GeneratePermutations[[i \in 1..(k - 1) |-> i + 1]]
FullOrder(k, i) == <<1>> \o Orders(k)[i]

ToursOf(k) == {t \in [1..k -> 1..k] : t[1] = 1 /\ IsInjective(t)}
\* For the sizes it is called with, generatePermutations makes every order.  There is
\* no constant in this statement: evaluating it decides it.
ASSUME GeneratedAssumption ==
    \A k \in 2..5 : /\ Orders(k) \in Seq(Seq(Nat))
                    /\ {FullOrder(k, i) : i \in 1..Len(Orders(k))} = ToursOf(k)

\* Fault: ties in the duration keep the first order found.
BetterByCost(t, best) == best = <<>> \/ Cost(t) < Cost(best)
Better(t, best) ==
    \/ best = <<>>                        \* the costs of no order are infinite
    \/ Cost(t) < Cost(best)
    \/ Cost(t) = Cost(best) /\ Dist(t) < Dist(best)
    \/ Cost(t) = Cost(best) /\ Dist(t) = Dist(best) /\ SeqLess(IdsOf(t), IdsOf(best))

\* One round of the loop over the orders: the better of two tours is kept.
SolveExhaustivePermutation ==
    /\ phase = "exhaustive" /\ iteration < Len(Orders(size))
    /\ iteration' = iteration + 1
    /\ tour' = LET fullOrder == FullOrder(size, iteration + 1)
               IN IF Better(fullOrder, tour) THEN fullOrder ELSE tour
    /\ UNCHANGED <<phase, size, preferred, matrix, provider, improved, geometry>>

ExhaustiveEnds ==
    /\ phase = "exhaustive" /\ iteration = Len(Orders(size))
    /\ phase' = "geometry"
    /\ UNCHANGED <<size, preferred, matrix, provider, tour, improved, iteration, geometry>>

-----------------------------------------------------------------------------
(* nearest-neighbor-2opt.util.ts *)

Visited == Range(tour)
Nearer(i, j) ==      \* the leg to i is better than the leg to j
    LET a == Last(tour) IN
    \/ matrix.dur[a][i] < matrix.dur[a][j]
    \/ matrix.dur[a][i] = matrix.dur[a][j] /\ matrix.dist[a][i] < matrix.dist[a][j]
    \/ /\ matrix.dur[a][i] = matrix.dur[a][j] /\ matrix.dist[a][i] = matrix.dist[a][j]
       /\ Rank(size, i) < Rank(size, j)

NearestNeighbor ==
    /\ phase = "nearest" /\ Len(tour) < size
    /\ \E i \in (1..size) \ Visited :
         /\ \A j \in (1..size) \ (Visited \cup {i}) : Nearer(i, j)
         /\ tour' = Append(tour, i)
    /\ phase' = IF Len(tour) + 1 = size THEN "improve" ELSE phase
    /\ UNCHANGED <<size, preferred, matrix, provider, improved, iteration, geometry>>

\* perform2OptSwap. Fault: the end of the reversed part is dropped.
SwapShort(t, i, j) == SubSeq(t, 1, i - 1) \o Reverse(SubSeq(t, i, j - 1)) \o SubSeq(t, j, Len(t))
Swap(t, i, j) == SubSeq(t, 1, i - 1) \o Reverse(SubSeq(t, i, j)) \o SubSeq(t, j + 1, Len(t))

Pairs == {ij \in (2..size) \X (2..size) : ij[1] < ij[2]}
Improves(t, u) == Cost(t) - Cost(u) > Threshold
Improving == {ij \in Pairs : Improves(tour, Swap(tour, ij[1], ij[2]))}

\* One round of the loop: the first exchange that improves is made.
TwoOptRound ==
    /\ phase = "improve" /\ improved /\ iteration < MaxIterations
    /\ iteration' = iteration + 1
    /\ improved' = (Improving # {})
    /\ \/ Improving = {} /\ UNCHANGED tour
       \/ \E ij \in Improving : /\ \A kl \in Improving \ {ij} : SeqLess(ij, kl)
                                /\ tour' = Swap(tour, ij[1], ij[2])
    /\ UNCHANGED <<phase, size, preferred, matrix, provider, geometry>>

\* A round without an exchange was the last, and so is the one that meets the cap.
TwoOptEnds ==
    /\ phase = "improve" /\ (~improved \/ iteration >= MaxIterations)
    /\ phase' = "geometry"
    /\ UNCHANGED <<size, preferred, matrix, provider, tour, improved, iteration, geometry>>

-----------------------------------------------------------------------------
\* getRouteGeometry asks the providers anew; its totals replace the computed ones.
GetRouteGeometry ==
    /\ phase = "geometry"
    /\ geometry' \in Answers(preferred)
    /\ phase' = "done"
    /\ UNCHANGED <<size, preferred, matrix, provider, tour, improved, iteration>>

OptNext == \/ Trivial
           \/ GetDistanceMatrix
           \/ SolveExhaustivePermutation
           \/ ExhaustiveEnds
           \/ NearestNeighbor
           \/ TwoOptRound
           \/ TwoOptEnds
           \/ GetRouteGeometry

OptSpec == OptInit /\ [][OptNext]_optVars

-----------------------------------------------------------------------------
Tours == ToursOf(size)

Merit(t) == <<Cost(t), Dist(t)>> \o IdsOf(t)
Reversed(t, i, j) == [k \in DOMAIN t |-> IF k \in i..j THEN t[i + j - k] ELSE t[k]]

\* For few stops the answer is the best of all orders: no other one is faster, as
\* fast and shorter, or equal and earlier by its ids, so the same stops always get
\* the same recommendation.
ExhaustiveIsOptimal ==
    phase = "geometry" /\ size <= ExhaustiveMax =>
      /\ tour \in Tours
      /\ \A t \in Tours \ {tour} : SeqLess(Merit(tour), Merit(t))

\* For more stops the answer visits every stop once from the origin, and no
\* reversal of a part of it saves time, unless the cap stopped the search.
TwoOptSettles ==
    phase = "geometry" /\ size > ExhaustiveMax =>
      /\ tour \in Tours
      /\ ~improved =>
           \A i, j \in 2..size : i < j => ~(Cost(tour) - Cost(Reversed(tour, i, j)) > Threshold)
=============================================================================
