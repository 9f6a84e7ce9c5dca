-------------------------- MODULE InterviewProtocol --------------------------
(***************************************************************************)
(* What an interview is, whatever conducts it: a greeting, then questions  *)
(* whose answers are recorded one after the other, each once, then a       *)
(* farewell.  The recruiter's number of questions closes the interview;    *)
(* the time limit may close it earlier, and a candidate who leaves or      *)
(* switches tabs ends it at any point.                                     *)
(***************************************************************************)
EXTENDS Naturals

CONSTANT max_questions      \* the recruiter's number of questions

VARIABLES
    stage,      \* where the interview is
    recorded    \* how many questions have been answered or passed over

protocolVars == <<stage, recorded>>

ProtocolInit == stage = "greeting" /\ recorded = 0

Begin ==
    /\ stage = "greeting"
    /\ stage' = "interview"
    /\ UNCHANGED recorded

(* Recording the last question closes the interview in the same step.      *)
Record ==
    /\ stage = "interview"
    /\ recorded < max_questions
    /\ recorded' = recorded + 1
    /\ stage' = IF recorded' = max_questions THEN "closing" ELSE "interview"

Close ==
    /\ stage \in {"greeting", "interview"}
    /\ stage' = "closing"
    /\ UNCHANGED recorded

End ==
    /\ stage # "ended"
    /\ stage' = "ended"
    /\ UNCHANGED recorded

ProtocolNext == Begin \/ Record \/ Close \/ End

ProtocolSpec == ProtocolInit /\ [][ProtocolNext]_protocolVars

(* Once the interview closes, nothing more is recorded.                    *)
NothingAfterClosing ==
    [][(stage \in {"closing", "ended"}) => UNCHANGED recorded]_protocolVars
=============================================================================
