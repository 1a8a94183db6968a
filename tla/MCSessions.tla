---------------------------- MODULE MCSessions ----------------------------
(* Small instances of Sessions for TLC. *)
EXTENDS Sessions, TLC

\* TRUE until two requests have been in flight together.
VARIABLE alone

MCInit == Init /\ alone = TRUE
MCNext == /\ Next
          /\ alone' = (alone /\ \A p, q \in Procs :
                          req'[p].pc # "idle" /\ req'[q].pc # "idle" => p = q)
MCSpec == MCInit /\ [][MCNext]_<<vars, alone>>

\* The eviction of createSession keeps the limit of the other roles as long as
\* requests do not overlap, whatever revocations and failures come between.
LimitWhenAlone == alone => AtMostLimit

Symmetry == Permutations(Procs) \cup Permutations(Devices)

\* Only the expiry of a key reads the Redis keys, and the properties of the rows
\* do not mention them: runs that check only such properties may identify states that differ
\* in the keys.
RowsOnly == <<role, rows, req, alone>>
=============================================================================
