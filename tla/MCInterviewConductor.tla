------------------------ MODULE MCInterviewConductor ------------------------
(* The conductor of an interview, for TLC: its state is finite as it is.   *)
EXTENDS InterviewConductor
=============================================================================
