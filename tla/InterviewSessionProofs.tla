----------------------- MODULE InterviewSessionProofs -----------------------
(***************************************************************************)
(* Theorems about InterviewSession, for every number of tabs, agent jobs   *)
(* and workers, every question limit and every choice of faults. Each      *)
(* invariant proof has one step per action of Next; TypeCorrect is proved  *)
(* first and used by all the others.                                       *)
(***************************************************************************)
EXTENDS InterviewSession, FiniteSetTheorems, TLAPS

(* A freshly inserted or reset row is a row.                               *)
LEMMA FreshSessionType ==
  ASSUME NEW open \in BOOLEAN
  PROVE  FreshSession(open) \in Sessions
<1>1. 0 \in 0 .. MaxQuestions
  BY QuestionsAssumption
<1> QED
  BY <1>1, Zenon DEF FreshSession, Sessions, SessionStatuses

(* So is the absence of one.                                               *)
LEMMA NoSessionType == NoSession \in Sessions
<1>1. 0 \in 0 .. MaxQuestions
  BY QuestionsAssumption
<1> QED
  BY <1>1, Zenon DEF NoSession, Sessions

(* my-session and finish() leave a row behind when they reset one.         *)
LEMMA ResetRowType ==
  ASSUME ResetRow
  PROVE  session' \in Sessions
<1>1. FreshSession(TRUE) \in Sessions
  BY FreshSessionType
<1> QED
  BY <1>1 DEF ResetRow

(* Queueing a task keeps the queue a queue.                                *)
LEMMA QueueType ==
  ASSUME queue \in [Kinds -> Nat], NEW kind \in Kinds,
         queue' = [queue EXCEPT ![kind] = @ + 1]
  PROVE  queue' \in [Kinds -> Nat]
  OBVIOUS

(* Type correctness: every handler, agent step, worker step and staff      *)
(* request leaves every variable in its type; in particular the session    *)
(* row only takes statuses that the check constraint of migration 011      *)
(* admits.                                                                 *)
THEOREM TypeCorrect == Spec => []TypeOK
<1> USE QuestionsAssumption
<1>1. Init => TypeOK
  <2> SUFFICES ASSUME Init PROVE TypeOK
    OBVIOUS
  <2>1. session \in Sessions
    <3>1. FreshSession(TRUE) \in Sessions
      BY FreshSessionType
    <3> QED
      BY <3>1, NoSessionType DEF Init
  <2>2. tab \in [Tabs -> TabStates]
    BY DEF Init, TabStates
  <2>3. job \in [Jobs -> JobStates]
    BY DEF Init, JobStates
  <2>4. worker \in [Workers -> WorkerStates]
    BY DEF Init, WorkerStates, Recommendations, Kinds
  <2> QED
    BY <2>1, <2>2, <2>3, <2>4 DEF Init, TypeOK, AppStatuses, Kinds
<1>2. TypeOK /\ [Next]_vars => TypeOK'
  <2> SUFFICES ASSUME TypeOK, [Next]_vars PROVE TypeOK'
    OBVIOUS
  <2> USE DEF candidateVars, staffVars, evalVars, TypeOK
  <2>1. ASSUME NEW t \in Tabs, OpenLobby(t)
        PROVE  TypeOK'
    BY <2>1 DEF OpenLobby, TabStates
  <2>2. ASSUME NEW t \in Tabs, CreateRoomRead(t)
        PROVE  TypeOK'
    BY <2>2 DEF CreateRoomRead, TabStates
  <2>3. ASSUME NEW t \in Tabs, CloseTab(t)
        PROVE  TypeOK'
    BY <2>3 DEF CloseTab, TabStates
  <2>4. ASSUME NEW t \in Tabs, Unload(t)
        PROVE  TypeOK'
    BY <2>4 DEF Unload, TabStates
  <2>5. ASSUME NEW t \in Tabs, LeaveRoom(t)
        PROVE  TypeOK'
    BY <2>5 DEF LeaveRoom, TabStates
  <2>6. ASSUME NEW t \in Tabs, HideTab(t)
        PROVE  TypeOK'
    <3>1. tab' \in [Tabs -> TabStates]
      BY <2>6 DEF HideTab, TabStates
    <3>2. job' \in [Jobs -> JobStates]
      <4>1. ASSUME NEW j \in Jobs, job' = [job EXCEPT ![j].switch = TRUE]
            PROVE  job' \in [Jobs -> JobStates]
        BY <4>1 DEF JobStates
      <4> QED
        BY <2>6, <4>1 DEF HideTab
    <3> QED
      BY <2>6, <3>1, <3>2 DEF HideTab
  <2>7. ASSUME NEW t \in Tabs, LoadSession(t)
        PROVE  TypeOK'
    BY <2>7 DEF LoadSession, Answer, Landing, RoomOpened, TabStates
  <2>8. ASSUME NEW t \in Tabs, ResetSession(t)
        PROVE  TypeOK'
    <3>1. tab' \in [Tabs -> TabStates] /\ room' \in {"none", "waiting", "served"}
      BY <2>8 DEF ResetSession, Answer, Landing, RoomOpened, TabStates
    <3>2. session' \in Sessions
      BY <2>8, ResetRowType DEF ResetSession
    <3> QED
      BY <2>8, <3>1, <3>2 DEF ResetSession
  <2>9. ASSUME NEW t \in Tabs, InsertSession(t)
        PROVE  TypeOK'
    BY <2>9 DEF InsertSession, Answer, Landing, RoomOpened, TabStates, FreshSession,
       Sessions, SessionStatuses
  <2>10. ASSUME NEW t \in Tabs, CreateRoomLiveKit(t)
        PROVE  TypeOK'
    BY <2>10 DEF CreateRoomLiveKit, RoomOpened, TabStates
  <2>11. ASSUME NEW t \in Tabs, CreateRoomWrite(t)
        PROVE  TypeOK'
    BY <2>11 DEF CreateRoomWrite, TabStates, SetStatus, Sessions, SessionStatuses
  <2>12. ASSUME NEW j \in Jobs, JobStart(j)
        PROVE  TypeOK'
    BY <2>12 DEF JobStart, JobStates
  <2>13. ASSUME NEW j \in Jobs, AnswerQuestion(j)
        PROVE  TypeOK'
    BY <2>13 DEF AnswerQuestion, JobStates
  <2>14. ASSUME NEW j \in Jobs, TabSwitchRun(j)
        PROVE  TypeOK'
    BY <2>14 DEF TabSwitchRun, JobStates, SetStatus, Sessions, SessionStatuses
  <2>15. ASSUME NEW j \in Jobs, FinishRead(j)
        PROVE  TypeOK'
    BY <2>15 DEF FinishRead, JobStates
  <2>16. ASSUME NEW j \in Jobs, FinishReset(j)
        PROVE  TypeOK'
    <3>1. job' \in [Jobs -> JobStates]
      BY <2>16 DEF FinishReset, JobStates
    <3>2. session' \in Sessions
      BY <2>16, ResetRowType DEF FinishReset
    <3> QED
      BY <2>16, <3>1, <3>2 DEF FinishReset
  <2>17. ASSUME NEW j \in Jobs, FinishWrite(j)
        PROVE  TypeOK'
    BY <2>17 DEF FinishWrite, JobStates, Sessions, SessionStatuses
  <2>18. ASSUME NEW j \in Jobs, FinishSync(j)
        PROVE  TypeOK'
    BY <2>18 DEF FinishSync, JobStates, AppStatuses
  <2>19. ASSUME NEW j \in Jobs, FinishSend(j)
        PROVE  TypeOK'
    <3>1. job' \in [Jobs -> JobStates]
      <4>1. CASE job' = [job EXCEPT ![j].pc = "done", ![j].sent = TRUE]
        BY <4>1 DEF JobStates
      <4>2. CASE job' = [job EXCEPT ![j].pc = "done"]
        BY <4>2 DEF JobStates
      <4> QED
        BY <2>19, <4>1, <4>2 DEF FinishSend
    <3>2. queue' \in [Kinds -> Nat]
      BY <2>19, QueueType DEF FinishSend, Kinds
    <3> QED
      BY <2>19, <3>1, <3>2 DEF FinishSend
  <2>20. ASSUME NEW j \in Jobs, JobCrash(j)
        PROVE  TypeOK'
    BY <2>20 DEF JobCrash, JobStates
  <2>21. ASSUME NEW w \in Workers, TaskTake(w)
        PROVE  TypeOK'
    BY <2>21 DEF TaskTake, WorkerStates, Recommendations, Kinds
  <2>22. ASSUME NEW w \in Workers, ScoreOk(w)
        PROVE  TypeOK'
    <3>1. PICK rec \in Recommendations :
             /\ report' = rec
             /\ worker' = [worker EXCEPT ![w].pc = "record", ![w].rec = rec]
      BY <2>22 DEF ScoreOk
    <3>2. worker' \in [Workers -> WorkerStates]
      BY <2>22, <3>1 DEF WorkerStates
    <3> QED
      BY <2>22, <3>1, <3>2 DEF ScoreOk
  <2>23. ASSUME NEW w \in Workers, ScoreFail(w)
        PROVE  TypeOK'
    BY <2>23 DEF ScoreFail, WorkerStates
  <2>24. ASSUME NEW w \in Workers, RecordDecision(w)
        PROVE  TypeOK'
    <3>1. worker[w].rec \in Recommendations
      BY <2>24 DEF WorkerStates
    <3>2. Decision(worker[w].rec) \in AppStatuses
      BY <2>24, <3>1 DEF Decision, Recommendations, AppStatuses
    <3>3. worker' \in [Workers -> WorkerStates]
      BY <2>24 DEF RecordDecision, WorkerStates
    <3> QED
      BY <2>24, <3>1, <3>2, <3>3 DEF RecordDecision
  <2>25. ASSUME NEW w \in Workers, FailSession(w)
        PROVE  TypeOK'
    BY <2>25 DEF FailSession, WorkerStates, SetStatus, Sessions, SessionStatuses
  <2>26. ASSUME NEW w \in Workers, FailApp(w)
        PROVE  TypeOK'
    BY <2>26 DEF FailApp, WorkerStates, AppStatuses
  <2>27. ASSUME NEW w \in Workers, SendMail(w)
        PROVE  TypeOK'
    BY <2>27 DEF SendMail, WorkerStates
  <2>28. ASSUME NEW w \in Workers, TaskKilled(w)
        PROVE  TypeOK'
    BY <2>28 DEF TaskKilled, WorkerStates
  <2>29. ASSUME BeaconArrives
        PROVE  TypeOK'
    BY <2>29 DEF BeaconArrives, SetStatus, Sessions, SessionStatuses
  <2>30. ASSUME DeadlinePasses
        PROVE  TypeOK'
    BY <2>30 DEF DeadlinePasses, Sessions
  <2>31. ASSUME RoomCloses
        PROVE  TypeOK'
    BY <2>31 DEF RoomCloses
  <2>32. ASSUME EndSessionRead
        PROVE  TypeOK'
    BY <2>32 DEF EndSessionRead
  <2>33. ASSUME EndSessionWrite
        PROVE  TypeOK'
    BY <2>33 DEF EndSessionWrite, SetStatus, Sessions, SessionStatuses
  <2>34. ASSUME LoadTable
        PROVE  TypeOK'
    BY <2>34 DEF LoadTable
  <2>35. ASSUME SendInterview
        PROVE  TypeOK'
    BY <2>35 DEF SendInterview, FreshSession, Sessions, SessionStatuses, AppStatuses
  <2>36. ASSUME NEW kind \in Kinds, StaffEvaluate(kind)
        PROVE  TypeOK'
    BY <2>36 DEF StaffEvaluate
  <2>37. ASSUME NEW d \in {"shortlisted", "resume_rejected"}, StaffDecide(d)
        PROVE  TypeOK'
    BY <2>37 DEF StaffDecide, AppStatuses
  <2>38. CASE UNCHANGED vars
    BY <2>38 DEF vars
  <2>39. QED
    BY <2>1, <2>2, <2>3, <2>4, <2>5, <2>6, <2>7, <2>8, <2>9, <2>10, <2>11, <2>12,
       <2>13, <2>14, <2>15, <2>16, <2>17, <2>18, <2>19, <2>20, <2>21, <2>22, <2>23,
       <2>24, <2>25, <2>26, <2>27, <2>28, <2>29, <2>30, <2>31, <2>32, <2>33, <2>34,
       <2>35, <2>36, <2>37, <2>38
       DEF Next, Candidate, Api, Agent, Finish, Evaluate, Staff
<1>3. QED
  BY <1>1, <1>2, PTL DEF Spec

(* Answering one tab's my-session call starts no call of any tab.          *)
LEMMA AnswerCalls ==
  ASSUME NEW t \in Tabs, NEW answer, tab \in [Tabs -> TabStates], Answer(t, answer)
  PROVE  \A u \in Tabs : tab'[u].call \in {"none", tab[u].call}
<1> DEFINE page == Landing(tab[t].page, answer)
<1>1. SUFFICES ASSUME NEW u \in Tabs
               PROVE  tab'[u].call \in {"none", tab[u].call}
  OBVIOUS
<1> HIDE DEF page
<1>2. tab'[u] = IF u = t THEN [page |-> page, call |-> "none"]
                ELSE IF page = "room" /\ tab[u].page = "room"
                     THEN [tab[u] EXCEPT !.page = "away"]
                ELSE tab[u]
  BY DEF Answer, page
<1> QED
  BY <1>2 DEF TabStates

(* A closed session is a row of the table.                                 *)
LEMMA ClosedRowExists == session.status \in Closed => session # NoSession
  BY DEF Closed, TERMINATED_STATUSES, NoSession

(* my-session neither resets nor replaces the row of a closed session.     *)
LEMMA ClosedIsRefused ==
  ASSUME NEW t \in Tabs, session.status \in Closed
  PROVE  Verdict(t) \notin {"reset", "insert"}
<1>1. session.status \notin {"none", "pending", "in_progress", "disconnected"}
  BY DEF Closed, TERMINATED_STATUSES
<1>2. ~Valid /\ ~Stuck
  BY <1>1 DEF Valid, Stuck
<1> QED
  BY <1>2 DEF Verdict

(* No retakes once settled: when the session is completed or terminated,   *)
(* no API call holds an older reading of its row and no finish() is about  *)
(* to reset it, then no step of the system opens it again -- unless        *)
(* finish() can fail to re-read the row (agent.py 137-152). Settled is     *)
(* inductive relative to TypeOK.                                           *)
THEOREM SettledFinal == Spec => SettledIsFinal
<1>1. TypeOK /\ [Next]_vars => (~MayFail("reread") /\ Settled => Settled')
  <2> SUFFICES ASSUME TypeOK, [Next]_vars, ~MayFail("reread"), Settled
               PROVE  Settled'
    OBVIOUS
  <2> USE DEF TypeOK, Settled, candidateVars, staffVars, evalVars
  <2>1. ASSUME NEW t \in Tabs, OpenLobby(t)
        PROVE  Settled'
    BY <2>1 DEF OpenLobby, TabStates
  <2>2. ASSUME NEW t \in Tabs, CreateRoomRead(t)
        PROVE  Settled'
    BY <2>2 DEF CreateRoomRead, NonStartable, TabStates
  <2>3. ASSUME NEW t \in Tabs, CloseTab(t)
        PROVE  Settled'
    BY <2>3 DEF CloseTab, TabStates
  <2>4. ASSUME NEW t \in Tabs, Unload(t)
        PROVE  Settled'
    BY <2>4 DEF Unload, TabStates
  <2>5. ASSUME NEW t \in Tabs, LeaveRoom(t)
        PROVE  Settled'
    BY <2>5 DEF LeaveRoom, TabStates
  <2>6. ASSUME NEW t \in Tabs, HideTab(t)
        PROVE  Settled'
    BY <2>6 DEF HideTab, TabStates, JobStates
  <2>7. ASSUME NEW t \in Tabs, LoadSession(t)
        PROVE  Settled'
    <3>1. \E answer : Answer(t, answer)
      BY <2>7, ClosedIsRefused DEF LoadSession
    <3>2. \A u \in Tabs : tab'[u].call \in {"none", tab[u].call}
      BY <3>1, AnswerCalls
    <3> QED
      BY <2>7, <3>2 DEF LoadSession
  <2>8. ASSUME NEW t \in Tabs, ResetSession(t)
        PROVE  Settled'
    BY <2>8 DEF ResetSession
  <2>9. ASSUME NEW t \in Tabs, InsertSession(t)
        PROVE  Settled'
    <3>1. session' = session /\ \E answer : Answer(t, answer)
      BY <2>9, ClosedRowExists DEF InsertSession
    <3>2. \A u \in Tabs : tab'[u].call \in {"none", tab[u].call}
      BY <3>1, AnswerCalls
    <3> QED
      BY <2>9, <3>1, <3>2 DEF InsertSession
  <2>10. ASSUME NEW t \in Tabs, CreateRoomLiveKit(t)
        PROVE  Settled'
    BY <2>10 DEF CreateRoomLiveKit
  <2>11. ASSUME NEW t \in Tabs, CreateRoomWrite(t)
        PROVE  Settled'
    BY <2>11 DEF CreateRoomWrite
  <2>12. ASSUME NEW j \in Jobs, JobStart(j)
        PROVE  Settled'
    BY <2>12 DEF JobStart, JobStates
  <2>13. ASSUME NEW j \in Jobs, AnswerQuestion(j)
        PROVE  Settled'
    BY <2>13 DEF AnswerQuestion, JobStates
  <2>14. ASSUME NEW j \in Jobs, TabSwitchRun(j)
        PROVE  Settled'
    BY <2>14 DEF TabSwitchRun, SetStatus, Sessions, Closed, TERMINATED_STATUSES,
       JobStates
  <2>15. ASSUME NEW j \in Jobs, FinishRead(j)
        PROVE  Settled'
    BY <2>15 DEF FinishRead, JobStates, TERMINAL_SESSION_STATUSES
  <2>16. ASSUME NEW j \in Jobs, FinishReset(j)
        PROVE  Settled'
    BY <2>16 DEF FinishReset
  <2>17. ASSUME NEW j \in Jobs, FinishWrite(j)
        PROVE  Settled'
    BY <2>17 DEF FinishWrite, JobStates, Sessions, Closed
  <2>18. ASSUME NEW j \in Jobs, FinishSync(j)
        PROVE  Settled'
    BY <2>18 DEF FinishSync, JobStates
  <2>19. ASSUME NEW j \in Jobs, FinishSend(j)
        PROVE  Settled'
    <3>1. job' = [job EXCEPT ![j].pc = "done", ![j].sent = TRUE]
          \/ job' = [job EXCEPT ![j].pc = "done"]
      BY <2>19 DEF FinishSend
    <3>2. \A i \in Jobs : job'[i].pc \in {"done", job[i].pc}
      BY <3>1 DEF JobStates
    <3> QED
      BY <2>19, <3>2 DEF FinishSend
  <2>20. ASSUME NEW j \in Jobs, JobCrash(j)
        PROVE  Settled'
    BY <2>20 DEF JobCrash, JobStates
  <2>21. ASSUME NEW w \in Workers, TaskTake(w)
        PROVE  Settled'
    BY <2>21 DEF TaskTake
  <2>22. ASSUME NEW w \in Workers, ScoreOk(w)
        PROVE  Settled'
    BY <2>22 DEF ScoreOk
  <2>23. ASSUME NEW w \in Workers, ScoreFail(w)
        PROVE  Settled'
    BY <2>23 DEF ScoreFail
  <2>24. ASSUME NEW w \in Workers, RecordDecision(w)
        PROVE  Settled'
    BY <2>24 DEF RecordDecision
  <2>25. ASSUME NEW w \in Workers, FailSession(w)
        PROVE  Settled'
    BY <2>25 DEF FailSession, SetStatus, Sessions, Closed, TERMINATED_STATUSES
  <2>26. ASSUME NEW w \in Workers, FailApp(w)
        PROVE  Settled'
    BY <2>26 DEF FailApp
  <2>27. ASSUME NEW w \in Workers, SendMail(w)
        PROVE  Settled'
    BY <2>27 DEF SendMail
  <2>28. ASSUME NEW w \in Workers, TaskKilled(w)
        PROVE  Settled'
    BY <2>28 DEF TaskKilled
  <2>29. ASSUME BeaconArrives
        PROVE  Settled'
    BY <2>29 DEF BeaconArrives, SetStatus, Closed, TERMINATED_STATUSES
  <2>30. ASSUME DeadlinePasses
        PROVE  Settled'
    BY <2>30 DEF DeadlinePasses, Sessions
  <2>31. ASSUME RoomCloses
        PROVE  Settled'
    BY <2>31 DEF RoomCloses
  <2>32. ASSUME EndSessionRead
        PROVE  Settled'
    BY <2>32 DEF EndSessionRead
  <2>33. ASSUME EndSessionWrite
        PROVE  Settled'
    BY <2>33 DEF EndSessionWrite, SetStatus, Sessions, Closed, TERMINATED_STATUSES
  <2>34. ASSUME LoadTable
        PROVE  Settled'
    BY <2>34 DEF LoadTable
  <2>35. ASSUME SendInterview
        PROVE  Settled'
    BY <2>35, ClosedRowExists DEF SendInterview
  <2>36. ASSUME NEW kind \in Kinds, StaffEvaluate(kind)
        PROVE  Settled'
    BY <2>36 DEF StaffEvaluate
  <2>37. ASSUME NEW d \in {"shortlisted", "resume_rejected"}, StaffDecide(d)
        PROVE  Settled'
    BY <2>37 DEF StaffDecide
  <2>38. CASE UNCHANGED vars
    BY <2>38 DEF vars
  <2>39. QED
    BY <2>1, <2>2, <2>3, <2>4, <2>5, <2>6, <2>7, <2>8, <2>9, <2>10, <2>11, <2>12,
       <2>13, <2>14, <2>15, <2>16, <2>17, <2>18, <2>19, <2>20, <2>21, <2>22, <2>23,
       <2>24, <2>25, <2>26, <2>27, <2>28, <2>29, <2>30, <2>31, <2>32, <2>33, <2>34,
       <2>35, <2>36, <2>37, <2>38
       DEF Next, Candidate, Api, Agent, Finish, Evaluate, Staff
<1>2. QED
  BY <1>1, TypeCorrect, PTL DEF Spec, SettledIsFinal

(* DecisionMatchesReport is not inductive: a worker that has inserted the  *)
(* report and not yet recorded its decision must still hold that report's  *)
(* verdict.                                                                *)
Consistent ==
    /\ \A w \in Workers : worker[w].pc = "record" => report = worker[w].rec
    /\ DecisionMatchesReport

(* A shortlisted or rejected candidate has a report that says so, with any *)
(* number of evaluations of the session running at once                    *)
(* (evaluate_interview.py 43-78).                                          *)
THEOREM DecisionCorrect == Spec => []DecisionMatchesReport
<1>1. Init => Consistent
  BY DEF Init, Consistent, DecisionMatchesReport
<1>2. TypeOK /\ Consistent /\ [Next]_vars => Consistent'
  <2> SUFFICES ASSUME TypeOK, Consistent, [Next]_vars
               PROVE  Consistent'
    OBVIOUS
  <2> USE DEF TypeOK, Consistent, DecisionMatchesReport, WorkerStates,
              candidateVars, staffVars, evalVars
  <2>1. ASSUME NEW t \in Tabs, OpenLobby(t)
        PROVE  Consistent'
    BY <2>1 DEF OpenLobby
  <2>2. ASSUME NEW t \in Tabs, CreateRoomRead(t)
        PROVE  Consistent'
    BY <2>2 DEF CreateRoomRead
  <2>3. ASSUME NEW t \in Tabs, CloseTab(t)
        PROVE  Consistent'
    BY <2>3 DEF CloseTab
  <2>4. ASSUME NEW t \in Tabs, Unload(t)
        PROVE  Consistent'
    BY <2>4 DEF Unload
  <2>5. ASSUME NEW t \in Tabs, LeaveRoom(t)
        PROVE  Consistent'
    BY <2>5 DEF LeaveRoom
  <2>6. ASSUME NEW t \in Tabs, HideTab(t)
        PROVE  Consistent'
    BY <2>6 DEF HideTab
  <2>7. ASSUME NEW t \in Tabs, LoadSession(t)
        PROVE  Consistent'
    BY <2>7 DEF LoadSession
  <2>8. ASSUME NEW t \in Tabs, ResetSession(t)
        PROVE  Consistent'
    BY <2>8 DEF ResetSession
  <2>9. ASSUME NEW t \in Tabs, InsertSession(t)
        PROVE  Consistent'
    BY <2>9 DEF InsertSession
  <2>10. ASSUME NEW t \in Tabs, CreateRoomLiveKit(t)
        PROVE  Consistent'
    BY <2>10 DEF CreateRoomLiveKit
  <2>11. ASSUME NEW t \in Tabs, CreateRoomWrite(t)
        PROVE  Consistent'
    BY <2>11 DEF CreateRoomWrite
  <2>12. ASSUME NEW j \in Jobs, JobStart(j)
        PROVE  Consistent'
    BY <2>12 DEF JobStart
  <2>13. ASSUME NEW j \in Jobs, AnswerQuestion(j)
        PROVE  Consistent'
    BY <2>13 DEF AnswerQuestion
  <2>14. ASSUME NEW j \in Jobs, TabSwitchRun(j)
        PROVE  Consistent'
    BY <2>14 DEF TabSwitchRun
  <2>15. ASSUME NEW j \in Jobs, FinishRead(j)
        PROVE  Consistent'
    BY <2>15 DEF FinishRead
  <2>16. ASSUME NEW j \in Jobs, FinishReset(j)
        PROVE  Consistent'
    BY <2>16 DEF FinishReset
  <2>17. ASSUME NEW j \in Jobs, FinishWrite(j)
        PROVE  Consistent'
    BY <2>17 DEF FinishWrite
  <2>18. ASSUME NEW j \in Jobs, FinishSync(j)
        PROVE  Consistent'
    BY <2>18 DEF FinishSync
  <2>19. ASSUME NEW j \in Jobs, FinishSend(j)
        PROVE  Consistent'
    BY <2>19 DEF FinishSend
  <2>20. ASSUME NEW j \in Jobs, JobCrash(j)
        PROVE  Consistent'
    BY <2>20 DEF JobCrash
  <2>21. ASSUME NEW w \in Workers, TaskTake(w)
        PROVE  Consistent'
    BY <2>21 DEF TaskTake
  <2>22. ASSUME NEW w \in Workers, ScoreOk(w)
        PROVE  Consistent'
    BY <2>22 DEF ScoreOk, Recommendations
  <2>23. ASSUME NEW w \in Workers, ScoreFail(w)
        PROVE  Consistent'
    BY <2>23 DEF ScoreFail
  <2>24. ASSUME NEW w \in Workers, RecordDecision(w)
        PROVE  Consistent'
    BY <2>24 DEF RecordDecision, Decision, Recommendations
  <2>25. ASSUME NEW w \in Workers, FailSession(w)
        PROVE  Consistent'
    BY <2>25 DEF FailSession
  <2>26. ASSUME NEW w \in Workers, FailApp(w)
        PROVE  Consistent'
    BY <2>26 DEF FailApp
  <2>27. ASSUME NEW w \in Workers, SendMail(w)
        PROVE  Consistent'
    BY <2>27 DEF SendMail
  <2>28. ASSUME NEW w \in Workers, TaskKilled(w)
        PROVE  Consistent'
    BY <2>28 DEF TaskKilled
  <2>29. ASSUME BeaconArrives
        PROVE  Consistent'
    BY <2>29 DEF BeaconArrives
  <2>30. ASSUME DeadlinePasses
        PROVE  Consistent'
    BY <2>30 DEF DeadlinePasses
  <2>31. ASSUME RoomCloses
        PROVE  Consistent'
    BY <2>31 DEF RoomCloses
  <2>32. ASSUME EndSessionRead
        PROVE  Consistent'
    BY <2>32 DEF EndSessionRead
  <2>33. ASSUME EndSessionWrite
        PROVE  Consistent'
    BY <2>33 DEF EndSessionWrite
  <2>34. ASSUME LoadTable
        PROVE  Consistent'
    BY <2>34 DEF LoadTable
  <2>35. ASSUME SendInterview
        PROVE  Consistent'
    BY <2>35 DEF SendInterview
  <2>36. ASSUME NEW kind \in Kinds, StaffEvaluate(kind)
        PROVE  Consistent'
    BY <2>36 DEF StaffEvaluate
  <2>37. ASSUME NEW d \in {"shortlisted", "resume_rejected"}, StaffDecide(d)
        PROVE  Consistent'
    BY <2>37 DEF StaffDecide
  <2>38. CASE UNCHANGED vars
    BY <2>38 DEF vars
  <2>39. QED
    BY <2>1, <2>2, <2>3, <2>4, <2>5, <2>6, <2>7, <2>8, <2>9, <2>10, <2>11, <2>12,
       <2>13, <2>14, <2>15, <2>16, <2>17, <2>18, <2>19, <2>20, <2>21, <2>22, <2>23,
       <2>24, <2>25, <2>26, <2>27, <2>28, <2>29, <2>30, <2>31, <2>32, <2>33, <2>34,
       <2>35, <2>36, <2>37, <2>38
       DEF Next, Candidate, Api, Agent, Finish, Evaluate, Staff
<1>3. QED
  BY <1>1, <1>2, TypeCorrect, PTL DEF Spec, Consistent

(* What makes SentHasTranscript inductive: a job reaches "send" only by    *)
(* way of "write", and "write" only with a question counted or the tab     *)
(* switch flagged; a counted question is stored unless the insert failed;  *)
(* and a job that has sent never runs again.                               *)
Answered ==
    /\ \A j \in Jobs :
         /\ job[j].pc \in {"idle", "running"} => ~job[j].sent
         /\ job[j].pc = "idle" => job[j].count = 0
         /\ job[j].pc = "write" /\ ~job[j].terminated => job[j].count > 0
         /\ job[j].pc = "send" => job[j].count > 0
         /\ ~MayFail("store") /\ job[j].count > 0 => transcript > 0
    /\ SentHasTranscript

(* An evaluation queued by an agent finds a transcript, whatever the other *)
(* processes do to the session in between (agent.py 179-240).              *)
THEOREM SentCorrect == Spec => []SentHasTranscript
<1>1. Init => Answered
  BY DEF Init, Answered, SentHasTranscript
<1>2. TypeOK /\ Answered /\ [Next]_vars => Answered'
  <2> SUFFICES ASSUME TypeOK, Answered, [Next]_vars
               PROVE  Answered'
    OBVIOUS
  <2> USE DEF TypeOK, Answered, SentHasTranscript, JobStates,
              candidateVars, staffVars, evalVars
  <2>1. ASSUME NEW t \in Tabs, OpenLobby(t)
        PROVE  Answered'
    BY <2>1 DEF OpenLobby
  <2>2. ASSUME NEW t \in Tabs, CreateRoomRead(t)
        PROVE  Answered'
    BY <2>2 DEF CreateRoomRead
  <2>3. ASSUME NEW t \in Tabs, CloseTab(t)
        PROVE  Answered'
    BY <2>3 DEF CloseTab
  <2>4. ASSUME NEW t \in Tabs, Unload(t)
        PROVE  Answered'
    BY <2>4 DEF Unload
  <2>5. ASSUME NEW t \in Tabs, LeaveRoom(t)
        PROVE  Answered'
    BY <2>5 DEF LeaveRoom
  <2>6. ASSUME NEW t \in Tabs, HideTab(t)
        PROVE  Answered'
    BY <2>6 DEF HideTab
  <2>7. ASSUME NEW t \in Tabs, LoadSession(t)
        PROVE  Answered'
    BY <2>7 DEF LoadSession
  <2>8. ASSUME NEW t \in Tabs, ResetSession(t)
        PROVE  Answered'
    BY <2>8 DEF ResetSession
  <2>9. ASSUME NEW t \in Tabs, InsertSession(t)
        PROVE  Answered'
    BY <2>9 DEF InsertSession
  <2>10. ASSUME NEW t \in Tabs, CreateRoomLiveKit(t)
        PROVE  Answered'
    BY <2>10 DEF CreateRoomLiveKit
  <2>11. ASSUME NEW t \in Tabs, CreateRoomWrite(t)
        PROVE  Answered'
    BY <2>11 DEF CreateRoomWrite
  <2>12. ASSUME NEW j \in Jobs, JobStart(j)
        PROVE  Answered'
    BY <2>12 DEF JobStart
  <2>13. ASSUME NEW j \in Jobs, AnswerQuestion(j)
        PROVE  Answered'
    BY <2>13 DEF AnswerQuestion
  <2>14. ASSUME NEW j \in Jobs, TabSwitchRun(j)
        PROVE  Answered'
    BY <2>14 DEF TabSwitchRun
  <2>15. ASSUME NEW j \in Jobs, FinishRead(j)
        PROVE  Answered'
    BY <2>15 DEF FinishRead
  <2>16. ASSUME NEW j \in Jobs, FinishReset(j)
        PROVE  Answered'
    BY <2>16 DEF FinishReset
  <2>17. ASSUME NEW j \in Jobs, FinishWrite(j)
        PROVE  Answered'
    BY <2>17 DEF FinishWrite
  <2>18. ASSUME NEW j \in Jobs, FinishSync(j)
        PROVE  Answered'
    BY <2>18 DEF FinishSync
  <2>19. ASSUME NEW j \in Jobs, FinishSend(j)
        PROVE  Answered'
    <3>1. /\ job' = [job EXCEPT ![j].pc = "done", ![j].sent = TRUE]
             \/ job' = [job EXCEPT ![j].pc = "done"]
          /\ UNCHANGED transcript
      BY <2>19 DEF FinishSend
    <3>2. \A i \in Jobs :
            /\ i # j => job'[i] = job[i]
            /\ i = j => job'[i].pc = "done" /\ job'[i].count = job[i].count
      BY <3>1
    <3>3. ~MayFail("store") => transcript > 0
      BY <2>19 DEF FinishSend
    <3> QED
      BY <3>1, <3>2, <3>3
  <2>20. ASSUME NEW j \in Jobs, JobCrash(j)
        PROVE  Answered'
    BY <2>20 DEF JobCrash
  <2>21. ASSUME NEW w \in Workers, TaskTake(w)
        PROVE  Answered'
    BY <2>21 DEF TaskTake
  <2>22. ASSUME NEW w \in Workers, ScoreOk(w)
        PROVE  Answered'
    BY <2>22 DEF ScoreOk
  <2>23. ASSUME NEW w \in Workers, ScoreFail(w)
        PROVE  Answered'
    BY <2>23 DEF ScoreFail
  <2>24. ASSUME NEW w \in Workers, RecordDecision(w)
        PROVE  Answered'
    BY <2>24 DEF RecordDecision
  <2>25. ASSUME NEW w \in Workers, FailSession(w)
        PROVE  Answered'
    BY <2>25 DEF FailSession
  <2>26. ASSUME NEW w \in Workers, FailApp(w)
        PROVE  Answered'
    BY <2>26 DEF FailApp
  <2>27. ASSUME NEW w \in Workers, SendMail(w)
        PROVE  Answered'
    BY <2>27 DEF SendMail
  <2>28. ASSUME NEW w \in Workers, TaskKilled(w)
        PROVE  Answered'
    BY <2>28 DEF TaskKilled
  <2>29. ASSUME BeaconArrives
        PROVE  Answered'
    BY <2>29 DEF BeaconArrives
  <2>30. ASSUME DeadlinePasses
        PROVE  Answered'
    BY <2>30 DEF DeadlinePasses
  <2>31. ASSUME RoomCloses
        PROVE  Answered'
    BY <2>31 DEF RoomCloses
  <2>32. ASSUME EndSessionRead
        PROVE  Answered'
    BY <2>32 DEF EndSessionRead
  <2>33. ASSUME EndSessionWrite
        PROVE  Answered'
    BY <2>33 DEF EndSessionWrite
  <2>34. ASSUME LoadTable
        PROVE  Answered'
    BY <2>34 DEF LoadTable
  <2>35. ASSUME SendInterview
        PROVE  Answered'
    BY <2>35 DEF SendInterview
  <2>36. ASSUME NEW kind \in Kinds, StaffEvaluate(kind)
        PROVE  Answered'
    BY <2>36 DEF StaffEvaluate
  <2>37. ASSUME NEW d \in {"shortlisted", "resume_rejected"}, StaffDecide(d)
        PROVE  Answered'
    BY <2>37 DEF StaffDecide
  <2>38. CASE UNCHANGED vars
    BY <2>38 DEF vars
  <2>39. QED
    BY <2>1, <2>2, <2>3, <2>4, <2>5, <2>6, <2>7, <2>8, <2>9, <2>10, <2>11, <2>12,
       <2>13, <2>14, <2>15, <2>16, <2>17, <2>18, <2>19, <2>20, <2>21, <2>22, <2>23,
       <2>24, <2>25, <2>26, <2>27, <2>28, <2>29, <2>30, <2>31, <2>32, <2>33, <2>34,
       <2>35, <2>36, <2>37, <2>38
       DEF Next, Candidate, Api, Agent, Finish, Evaluate, Staff
<1>3. QED
  BY <1>1, <1>2, TypeCorrect, PTL DEF Spec, Answered

(* A job that queued its evaluation is over, so it queues at most one.     *)
Budgeted ==
    /\ MailBudget
    /\ \A j \in Jobs : job[j].sent => job[j].pc \in {"done", "dead"}

(* The sets that MailBudget counts are finite.                             *)
LEMMA MailSetsFinite ==
  /\ IsFiniteSet(Mailing) /\ Cardinality(Mailing) \in Nat
  /\ IsFiniteSet(SentJobs) /\ Cardinality(SentJobs) \in Nat
BY WorkersAssumption, JobsAssumption, FS_Subset, FS_CardinalityType
   DEF Mailing, SentJobs

(* The numbers that MailBudget adds are numbers.                           *)
LEMMA BudgetTypes ==
  ASSUME TypeOK
  PROVE  mails \in Nat /\ queue["mailed"] \in Nat /\ requests["mailed"] \in Nat
BY DEF TypeOK, Kinds

(* A step of a job that queues nothing keeps the budget.                   *)
LEMMA JobFrame ==
  ASSUME Budgeted, UNCHANGED <<worker, mails, queue, requests>>,
         \A j \in Jobs : /\ job'[j].sent = job[j].sent
                         /\ job[j].sent => job'[j].pc \in {"done", "dead"}
  PROVE  Budgeted'
<1>1. Mailing' = Mailing /\ SentJobs' = SentJobs
  BY DEF Mailing, SentJobs
<1> QED
  BY <1>1 DEF Budgeted, MailBudget

(* A worker that goes on with its task keeps the budget.                   *)
LEMMA WorkerFrame ==
  ASSUME TypeOK, Budgeted, NEW w \in Workers, UNCHANGED <<job, mails, queue, requests>>,
         worker[w].pc # "idle",
         worker' \in [Workers -> WorkerStates],
         worker'[w].pc # "idle" /\ worker'[w].kind = worker[w].kind,
         \A v \in Workers \ {w} : worker'[v] = worker[v]
  PROVE  Budgeted'
<1>1. Mailing' = Mailing
  BY DEF Mailing
<1>2. SentJobs' = SentJobs
  BY DEF SentJobs
<1> QED
  BY <1>1, <1>2 DEF Budgeted, MailBudget

(* A worker that ends its task has mailed at most once, and only for a     *)
(* task that asks for the mail.                                            *)
LEMMA WorkerRests ==
  ASSUME TypeOK, Budgeted, NEW w \in Workers, UNCHANGED <<job, queue, requests>>,
         worker[w].pc # "idle",
         worker'[w].pc = "idle",
         \A v \in Workers \ {w} : worker'[v] = worker[v],
         mails' # mails => w \in Mailing /\ mails' = mails + 1
  PROVE  Budgeted'
<1>1. Mailing' = Mailing \ {w}
  BY DEF Mailing
<1>2. SentJobs' = SentJobs
  BY DEF SentJobs
<1>3. Cardinality(Mailing') = IF w \in Mailing THEN Cardinality(Mailing) - 1
                              ELSE Cardinality(Mailing)
  BY <1>1, MailSetsFinite, FS_RemoveElement
<1> QED
  <2>1. mails + queue["mailed"] + Cardinality(Mailing)
          <= Cardinality(SentJobs) + requests["mailed"]
    BY DEF Budgeted, MailBudget
  <2>2. mails' + queue["mailed"] + Cardinality(Mailing')
          <= Cardinality(SentJobs) + requests["mailed"]
    BY <1>3, <2>1, MailSetsFinite, BudgetTypes
  <2>3. MailBudget'
    BY <1>2, <2>2 DEF MailBudget
  <2> QED
    BY <2>3 DEF Budgeted

(* The candidate is never mailed more often than evaluations were queued   *)
(* for them with the mail, whatever fails (evaluate_interview.py 80-110).  *)
THEOREM MailCorrect == Spec => []MailBudget
<1>1. Init => Budgeted
  <2> SUFFICES ASSUME Init PROVE Budgeted
    OBVIOUS
  <2>1. Mailing = {} /\ SentJobs = {}
    BY DEF Init, Mailing, SentJobs
  <2> QED
    BY <2>1, FS_EmptySet DEF Init, Budgeted, MailBudget, Kinds
<1>2. TypeOK /\ TypeOK' /\ Budgeted /\ [Next]_vars => Budgeted'
  <2> SUFFICES ASSUME TypeOK, TypeOK', Budgeted, [Next]_vars
               PROVE  Budgeted'
    OBVIOUS
  <2> USE DEF candidateVars, staffVars, evalVars
  <2>1. ASSUME NEW t \in Tabs, OpenLobby(t)
        PROVE  Budgeted'
    BY <2>1, JobFrame DEF OpenLobby, Budgeted
  <2>2. ASSUME NEW t \in Tabs, CreateRoomRead(t)
        PROVE  Budgeted'
    BY <2>2, JobFrame DEF CreateRoomRead, Budgeted
  <2>3. ASSUME NEW t \in Tabs, CloseTab(t)
        PROVE  Budgeted'
    BY <2>3, JobFrame DEF CloseTab, Budgeted
  <2>4. ASSUME NEW t \in Tabs, Unload(t)
        PROVE  Budgeted'
    BY <2>4, JobFrame DEF Unload, Budgeted
  <2>5. ASSUME NEW t \in Tabs, LeaveRoom(t)
        PROVE  Budgeted'
    BY <2>5, JobFrame DEF LeaveRoom, Budgeted
  <2>6. ASSUME NEW t \in Tabs, HideTab(t)
        PROVE  Budgeted'
    BY <2>6, JobFrame DEF HideTab, Budgeted, TypeOK, JobStates
  <2>7. ASSUME NEW t \in Tabs, LoadSession(t)
        PROVE  Budgeted'
    BY <2>7, JobFrame DEF LoadSession, Budgeted
  <2>8. ASSUME NEW t \in Tabs, ResetSession(t)
        PROVE  Budgeted'
    BY <2>8, JobFrame DEF ResetSession, Budgeted
  <2>9. ASSUME NEW t \in Tabs, InsertSession(t)
        PROVE  Budgeted'
    BY <2>9, JobFrame DEF InsertSession, Budgeted
  <2>10. ASSUME NEW t \in Tabs, CreateRoomLiveKit(t)
        PROVE  Budgeted'
    BY <2>10, JobFrame DEF CreateRoomLiveKit, Budgeted
  <2>11. ASSUME NEW t \in Tabs, CreateRoomWrite(t)
        PROVE  Budgeted'
    BY <2>11, JobFrame DEF CreateRoomWrite, Budgeted
  <2>12. ASSUME NEW j \in Jobs, JobStart(j)
        PROVE  Budgeted'
    BY <2>12, JobFrame DEF JobStart, Budgeted, TypeOK, JobStates
  <2>13. ASSUME NEW j \in Jobs, AnswerQuestion(j)
        PROVE  Budgeted'
    BY <2>13, JobFrame DEF AnswerQuestion, Budgeted, TypeOK, JobStates
  <2>14. ASSUME NEW j \in Jobs, TabSwitchRun(j)
        PROVE  Budgeted'
    BY <2>14, JobFrame DEF TabSwitchRun, Budgeted, TypeOK, JobStates
  <2>15. ASSUME NEW j \in Jobs, FinishRead(j)
        PROVE  Budgeted'
    BY <2>15, JobFrame DEF FinishRead, Budgeted, TypeOK, JobStates
  <2>16. ASSUME NEW j \in Jobs, FinishReset(j)
        PROVE  Budgeted'
    BY <2>16, JobFrame DEF FinishReset, Budgeted, TypeOK, JobStates
  <2>17. ASSUME NEW j \in Jobs, FinishWrite(j)
        PROVE  Budgeted'
    BY <2>17, JobFrame DEF FinishWrite, Budgeted, TypeOK, JobStates
  <2>18. ASSUME NEW j \in Jobs, FinishSync(j)
        PROVE  Budgeted'
    BY <2>18, JobFrame DEF FinishSync, Budgeted, TypeOK, JobStates
  <2>19. ASSUME NEW j \in Jobs, FinishSend(j)
        PROVE  Budgeted'
    <3>1. CASE /\ job' = [job EXCEPT ![j].pc = "done", ![j].sent = TRUE]
               /\ queue' = [queue EXCEPT !["mailed"] = @ + 1]
      <4>1. j \notin SentJobs
        BY <2>19 DEF FinishSend, Budgeted, SentJobs
      <4>2. SentJobs' = SentJobs \cup {j}
        BY <3>1 DEF SentJobs, TypeOK, JobStates
      <4>3. Cardinality(SentJobs') = Cardinality(SentJobs) + 1
        BY <4>1, <4>2, MailSetsFinite, FS_AddElement
      <4>4. Mailing' = Mailing
        BY <2>19 DEF FinishSend, Mailing
      <4>5. queue'["mailed"] = queue["mailed"] + 1
        BY <3>1 DEF TypeOK, Kinds
      <4>6. \A i \in Jobs : job'[i].sent => job'[i].pc \in {"done", "dead"}
        BY <3>1 DEF Budgeted, TypeOK, JobStates
      <4> QED
        BY <2>19, <4>3, <4>4, <4>5, <4>6, MailSetsFinite, BudgetTypes
           DEF FinishSend, Budgeted, MailBudget
    <3>2. CASE job' = [job EXCEPT ![j].pc = "done"] /\ UNCHANGED queue
      BY <2>19, <3>2, JobFrame DEF FinishSend, Budgeted, TypeOK, JobStates
    <3> QED
      BY <2>19, <3>1, <3>2 DEF FinishSend
  <2>20. ASSUME NEW j \in Jobs, JobCrash(j)
        PROVE  Budgeted'
    BY <2>20, JobFrame DEF JobCrash, Budgeted, TypeOK, JobStates
  <2>21. ASSUME NEW w \in Workers, TaskTake(w)
        PROVE  Budgeted'
    <3>1. PICK kind \in Kinds :
            /\ queue[kind] > 0
            /\ queue' = [queue EXCEPT ![kind] = @ - 1]
            /\ \/ worker' = [worker EXCEPT ![w] = [pc |-> "score", kind |-> kind,
                                                  rec |-> "borderline"]]
               \/ UNCHANGED worker
      BY <2>21 DEF TaskTake
    <3>2. SentJobs' = SentJobs /\ w \notin Mailing
      BY <2>21 DEF TaskTake, SentJobs, Mailing
    <3>3. queue'["mailed"] = IF kind = "mailed" THEN queue["mailed"] - 1 ELSE queue["mailed"]
      BY <3>1 DEF TypeOK, Kinds
    <3>4. /\ UNCHANGED <<mails, requests, job>>
          /\ queue["mailed"] \in Nat /\ (queue[kind] > 0)
      BY <2>21, <3>1, BudgetTypes DEF TaskTake
    <3>5. CASE UNCHANGED worker
      <4>1. Mailing' = Mailing
        BY <3>5 DEF Mailing
      <4> QED
        BY <3>2, <3>3, <3>4, <4>1, MailSetsFinite, BudgetTypes DEF Budgeted, MailBudget
    <3>6. CASE worker' = [worker EXCEPT ![w] = [pc |-> "score", kind |-> kind,
                                                rec |-> "borderline"]]
      <4>1. CASE kind = "mailed"
        <5>1. Mailing' = Mailing \cup {w}
          BY <3>2, <3>6, <4>1 DEF Mailing, TypeOK
        <5>2. Cardinality(Mailing') = Cardinality(Mailing) + 1
          BY <3>2, <5>1, MailSetsFinite, FS_AddElement
        <5>3. queue'["mailed"] = queue["mailed"] - 1
          BY <3>3, <4>1
        <5> QED
          BY <3>2, <3>4, <5>2, <5>3, MailSetsFinite, BudgetTypes DEF Budgeted,
             MailBudget
      <4>2. CASE kind = "quiet"
        <5>1. Mailing' = Mailing
          BY <3>2, <3>6, <4>2 DEF Mailing, TypeOK
        <5>2. queue'["mailed"] = queue["mailed"]
          BY <3>3, <4>2
        <5> QED
          BY <3>2, <3>4, <5>1, <5>2 DEF Budgeted, MailBudget
      <4> QED
        BY <4>1, <4>2 DEF Kinds
    <3> QED
      BY <3>1, <3>5, <3>6
  <2>22. ASSUME NEW w \in Workers, ScoreOk(w)
        PROVE  Budgeted'
    BY <2>22, WorkerFrame DEF ScoreOk, TypeOK, WorkerStates
  <2>23. ASSUME NEW w \in Workers, ScoreFail(w)
        PROVE  Budgeted'
    BY <2>23, WorkerFrame DEF ScoreFail, TypeOK, WorkerStates
  <2>24. ASSUME NEW w \in Workers, RecordDecision(w)
        PROVE  Budgeted'
    BY <2>24, WorkerFrame DEF RecordDecision, TypeOK, WorkerStates
  <2>25. ASSUME NEW w \in Workers, FailSession(w)
        PROVE  Budgeted'
    BY <2>25, WorkerFrame DEF FailSession, TypeOK, WorkerStates
  <2>26. ASSUME NEW w \in Workers, FailApp(w)
        PROVE  Budgeted'
    BY <2>26, WorkerFrame DEF FailApp, TypeOK, WorkerStates
  <2>27. ASSUME NEW w \in Workers, SendMail(w)
        PROVE  Budgeted'
    <3>1. mails' # mails => w \in Mailing /\ mails' = mails + 1
      <4>1. worker[w].kind = "mailed" => w \in Mailing
        BY <2>27 DEF SendMail, Mailing
      <4> QED
        BY <2>27, <4>1, BudgetTypes DEF SendMail
    <3>2. /\ UNCHANGED <<job, queue, requests>>
          /\ worker[w].pc # "idle" /\ worker'[w].pc = "idle"
          /\ \A v \in Workers \ {w} : worker'[v] = worker[v]
      BY <2>27 DEF SendMail, TypeOK, WorkerStates
    <3> QED
      BY <3>1, <3>2, WorkerRests
  <2>28. ASSUME NEW w \in Workers, TaskKilled(w)
        PROVE  Budgeted'
    <3>1. /\ UNCHANGED <<job, queue, requests, mails>>
          /\ worker[w].pc # "idle" /\ worker'[w].pc = "idle"
          /\ \A v \in Workers \ {w} : worker'[v] = worker[v]
      BY <2>28 DEF TaskKilled, TypeOK, WorkerStates
    <3> QED
      BY <3>1, WorkerRests
  <2>29. ASSUME BeaconArrives
        PROVE  Budgeted'
    BY <2>29, JobFrame DEF BeaconArrives, Budgeted
  <2>30. ASSUME DeadlinePasses
        PROVE  Budgeted'
    BY <2>30, JobFrame DEF DeadlinePasses, Budgeted
  <2>31. ASSUME RoomCloses
        PROVE  Budgeted'
    BY <2>31, JobFrame DEF RoomCloses, Budgeted
  <2>32. ASSUME EndSessionRead
        PROVE  Budgeted'
    BY <2>32, JobFrame DEF EndSessionRead, Budgeted
  <2>33. ASSUME EndSessionWrite
        PROVE  Budgeted'
    BY <2>33, JobFrame DEF EndSessionWrite, Budgeted
  <2>34. ASSUME LoadTable
        PROVE  Budgeted'
    BY <2>34, JobFrame DEF LoadTable, Budgeted
  <2>35. ASSUME SendInterview
        PROVE  Budgeted'
    BY <2>35, JobFrame DEF SendInterview, Budgeted
  <2>36. ASSUME NEW kind \in Kinds, StaffEvaluate(kind)
        PROVE  Budgeted'
    <3>1. Mailing' = Mailing /\ SentJobs' = SentJobs
      BY <2>36 DEF StaffEvaluate, Mailing, SentJobs
    <3>2. CASE kind = "mailed"
      <4>1. queue'["mailed"] = queue["mailed"] + 1 /\ requests'["mailed"] = requests["mailed"] + 1
        BY <2>36, <3>2 DEF StaffEvaluate, TypeOK, Kinds
      <4> QED
        BY <2>36, <3>1, <4>1, MailSetsFinite, BudgetTypes
           DEF StaffEvaluate, Budgeted, MailBudget
    <3>3. CASE kind = "quiet"
      <4>1. queue'["mailed"] = queue["mailed"] /\ requests'["mailed"] = requests["mailed"]
        BY <2>36, <3>3 DEF StaffEvaluate, TypeOK, Kinds
      <4> QED
        BY <2>36, <3>1, <4>1 DEF StaffEvaluate, Budgeted, MailBudget
    <3> QED
      BY <3>2, <3>3 DEF Kinds
  <2>37. ASSUME NEW d \in {"shortlisted", "resume_rejected"}, StaffDecide(d)
        PROVE  Budgeted'
    BY <2>37, JobFrame DEF StaffDecide, Budgeted
  <2>38. CASE UNCHANGED vars
    BY <2>38, JobFrame DEF vars, Budgeted
  <2>39. QED
    BY <2>1, <2>2, <2>3, <2>4, <2>5, <2>6, <2>7, <2>8, <2>9, <2>10, <2>11, <2>12,
       <2>13, <2>14, <2>15, <2>16, <2>17, <2>18, <2>19, <2>20, <2>21, <2>22, <2>23,
       <2>24, <2>25, <2>26, <2>27, <2>28, <2>29, <2>30, <2>31, <2>32, <2>33, <2>34,
       <2>35, <2>36, <2>37, <2>38
       DEF Next, Candidate, Api, Agent, Finish, Evaluate, Staff
<1>3. QED
  BY <1>1, <1>2, TypeCorrect, PTL DEF Spec, Budgeted

=============================================================================
