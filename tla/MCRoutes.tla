------------------------------ MODULE MCRoutes ------------------------------
(***************************************************************************)
(* Two deliveries of two stops that the client numbered 1 and 3, two       *)
(* requests at a time and one key.  The lists of reorderStops name the     *)
(* stops in either order, with and without gaps in the numbers.            *)
(***************************************************************************)
EXTENDS Routes, TLC

MCFirstSeq == <<1, 3>>
MCSelections == {[order |-> <<2, 1>>, source |-> "RECOMMENDED_2OPT"],
                 [order |-> <<1, 1>>, source |-> "MANUAL"]}
Numbers(s, a, t, b) == <<[stop |-> s, seq |-> a], [stop |-> t, seq |-> b]>>
MCLists == {Numbers(1, 1, 2, 2), Numbers(2, 1, 1, 2), Numbers(1, 1, 2, 3)}
MCSymmetry == Permutations(Procs) \cup Permutations(Delivery)
=============================================================================
