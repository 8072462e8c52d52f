---------------------------- MODULE MCSessions ----------------------------
(* TLC instance of Sessions: one client, k1. *)
EXTENDS Sessions, TLC

CONSTANTS k1, l1, l2, c1, c2

\* Logins are alike, and so are requests.
Symmetry == Permutations({l1, l2}) \cup Permutations({c1, c2})
=============================================================================
