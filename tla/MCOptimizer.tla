---------------------------- MODULE MCOptimizer ----------------------------
(***************************************************************************)
(* Zero to five waypoints; the search through all orders serves up to      *)
(* four, 2-opt five.  Four waypoints: all symmetric durations and          *)
(* distances of 1 or 2, so that ties abound.  Five: durations of 1 or 3,   *)
(* one way a second longer in half of the matrices.                        *)
(***************************************************************************)
EXTENDS Optimizer

MCRank(k, i) == k - i      \* the ids are in the reverse order of the stops

Edges(k) == {e \in (1..k) \X (1..k) : e[1] < e[2]}
Symmetric(k, f, oneway) ==
    [i \in 1..k |-> [j \in 1..k |-> IF i = j THEN 0
                                    ELSE IF i < j THEN f[<<i, j>>] + oneway
                                    ELSE f[<<j, i>>]]]
MCMatrices(k) ==
    IF k <= 4
      THEN {[dur |-> Symmetric(k, f, 0), dist |-> Symmetric(k, g, 0)] :
              f, g \in [Edges(k) -> {1, 2}]}
      ELSE {[dur |-> Symmetric(k, f, w), dist |-> Symmetric(k, f, 0)] :
              f \in [Edges(k) -> {1, 3}], w \in {0, 1}}
=============================================================================
