-------------------------- MODULE MCReverseSessions --------------------------
(* ReverseSessions for TLC: the symmetry of its model values. *)
EXTENDS ReverseSessions, TLC

Symmetry == Permutations(Conns) \cup Permutations(Calls)
            \cup Permutations(Hosts) \cup Permutations(IPs)
=============================================================================
