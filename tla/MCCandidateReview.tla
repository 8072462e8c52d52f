------------------------- MODULE MCCandidateReview --------------------------
(* TLC instances of CandidateReview. *)
EXTENDS CandidateReview, TLC

CONSTANTS c1, c2, c3, r1, r2, r3
=============================================================================
