------------------------- MODULE MCInterviewSession -------------------------
(***************************************************************************)
(* Model values and symmetry for the TLC runs of InterviewSession.         *)
(***************************************************************************)
EXTENDS InterviewSession, TLC

Symmetric == Permutations(Jobs) \cup Permutations(Workers)
=============================================================================
