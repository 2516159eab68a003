---------------------------- MODULE MCSessions ----------------------------
(* An instance for TLC: any client makes any of the calls. *)
EXTENDS Sessions, TLC

CONSTANTS c1, c2, k1, k2, p1, p2, b1, b2

Alike == Permutations({c1, c2}) \cup Permutations({k1, k2})
           \cup Permutations({p1, p2}) \cup Permutations({b1, b2})
=============================================================================
