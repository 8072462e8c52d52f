------------------------- MODULE MCInterviewScript -------------------------
(* TLC instance of InterviewScript: t2 is the turn with flags. *)
EXTENDS InterviewScript, TLC

CONSTANTS p1, t1, t2, w1, w2, r1, r2, a1
=============================================================================
