---------------------------- MODULE MCDelivery ----------------------------
(* Small instances of DeliveryLifecycle for TLC. *)
EXTENDS DeliveryLifecycle, TLC

Symmetry == Permutations(Procs)
=============================================================================
