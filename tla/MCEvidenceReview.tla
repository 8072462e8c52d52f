------------------------- MODULE MCEvidenceReview -------------------------
(* TLC instances of EvidenceReview: p2 and x1 are the texts with flags, where any are. *)
EXTENDS EvidenceReview, TLC

CONSTANTS p1, p2, t1, t2, x1, w1, w2, r1, r2, a1, a2

\* Workers are alike.
Symmetry == Permutations({w1, w2})
=============================================================================
