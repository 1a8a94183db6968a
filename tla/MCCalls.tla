------------------------------ MODULE MCCalls ------------------------------
(***************************************************************************)
(* One call, two handlers at a time, and three signals of one participant: *)
(* an offer, and a tick later another one and an ICE candidate.            *)
(***************************************************************************)
EXTENDS Calls, TLC

MCSender == [g \in Signal |-> "owner"]
MCSeq == "offer1" :> 1 @@ "offer2" :> 2 @@ "ice" :> 3
MCSentAt == [g \in Signal |-> IF g = "offer1" THEN 1 ELSE 2]
MCIsIce == [g \in Signal |-> g = "ice"]
=============================================================================
