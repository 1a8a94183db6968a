----------------------------- MODULE MCTracking -----------------------------
(***************************************************************************)
(* Three points of one driver: a and b a tick and a step apart, and a      *)
(* later one, c, too far away to be true; a point f that is not accurate.  *)
(* Two requests at a time.                                                 *)
(***************************************************************************)
EXTENDS Tracking, TLC

MCRecordedAt == "a" :> 0 @@ "b" :> 1 @@ "c" :> 2 @@ "f" :> 1
MCPlace == "a" :> 0 @@ "b" :> 1 @@ "c" :> 9 @@ "f" :> 1
MCAccurate == [x \in Point |-> x # "f"]
MCKeyOf == [x \in Point |-> IF x = "a" THEN "k" ELSE None]
MCSymmetry == Permutations(Procs)
MCBatches == {<<"b", "a">>, <<"f", "a">>}
=============================================================================
