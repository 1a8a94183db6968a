---------------------------- MODULE MCMessaging ----------------------------
(***************************************************************************)
(* Two devices, one message with a key and one without, two requests at a  *)
(* time; two prekeys and three requests for one.                           *)
(***************************************************************************)
EXTENDS Messaging, TLC

MCKeyOf == [t \in Text |-> IF t = "keyed" THEN "k" ELSE None]
MCSymmetry == Permutations(Procs) \cup Permutations(Device)
=============================================================================
