--------------------------- MODULE MCInterviewLobby --------------------------
(* The lobby on its own, for the statement that fails.                       *)
EXTENDS InterviewLobby
=============================================================================
