-------------------------- MODULE InterviewSession --------------------------
(***************************************************************************)
(* The life of one application's interview session: the row of             *)
(* interview_sessions (application_id is UNIQUE, so there is one), the     *)
(* candidate's browser tabs that open, start and leave the interview, the  *)
(* API handlers they call, the LiveKit agent jobs that conduct it, the     *)
(* Celery workers that evaluate it, and the staff who act on the same      *)
(* application.                                                            *)
(*                                                                         *)
(* Every handler that reads the row and writes it later is split at that   *)
(* point: no handler holds a lock or a transaction, so any other process   *)
(* may write in between.  The agent's finish() is synchronous, hence no    *)
(* other coroutine of its own process runs between its steps.              *)
(*                                                                         *)
(* Abstracted: who the caller is (every caller here is the candidate of    *)
(* the application, or a member of its organisation), the wording of       *)
(* questions and mails, clock values (a deadline is "ahead" or past).      *)
(***************************************************************************)
EXTENDS Naturals, FiniteSets

CONSTANTS
    Tabs,           \* browser tabs of the candidate
    InviteTabs,     \* those opened from an invite link (X-Invite-Token)
    Jobs,           \* LiveKit agent jobs that may be dispatched
    Workers,        \* Celery worker processes
    MaxQuestions,   \* max_questions of the interview template
    MaxRequests,    \* bound on staff requests to evaluate, of each kind
    Faults,         \* the failures that may happen
    Outside         \* requests that do not come from the candidate's pages

FaultKinds == {"read", "reread", "write", "store", "livekit", "beacon",
               "message", "broker", "crash", "llm", "mail", "kill"}
OutsideKinds == {"end", "evaluate", "decide", "resend"}

ASSUME TabsAssumption == InviteTabs \subseteq Tabs
ASSUME QuestionsAssumption == MaxQuestions \in Nat \ {0}
ASSUME RequestsAssumption == MaxRequests \in Nat
ASSUME FaultsAssumption == Faults \subseteq FaultKinds
ASSUME OutsideAssumption == Outside \subseteq OutsideKinds
ASSUME JobsAssumption == IsFiniteSet(Jobs)
ASSUME WorkersAssumption == IsFiniteSet(Workers)

VARIABLES
    session,     \* the interview_sessions row
    app,         \* applications.status
    byStaff,     \* history: did staff, not the program, set app last?
    transcript,  \* number of interview_qa rows of the session
    report,      \* recommendation of the interview_reports row, or "none"
    tab,         \* each tab's page and the API call it has in flight
    beacon,      \* is an unload beacon on its way to the API?
    ending,      \* is an end-session call past its status check?
    table,       \* the application status shown by a staff member's page
    room,        \* the LiveKit room of the session
    job,         \* each agent job: the controller of its interview
    queue,       \* evaluation tasks waiting in the broker, by kind
    worker,      \* each Celery worker and the evaluation it is running
    mails,       \* post-interview emails sent to the candidate
    requests     \* history: evaluations asked for by staff

candidateVars == <<tab, beacon, room>>
staffVars == <<ending, table, requests>>
evalVars == <<report, worker, mails>>
vars == <<session, app, byStaff, transcript, report, tab, beacon, ending,
          table, room, job, queue, worker, mails, requests>>

-----------------------------------------------------------------------------
(* Types and the status sets the handlers test.                            *)

SessionStatuses == {"pending", "in_progress", "completed", "disconnected",
                    "expired", "terminated_tab_switch", "terminated_abandoned"}
AppStatuses == {"interview_sent", "interview_invited", "interviewed",
                "shortlisted", "interview_rejected", "resume_rejected"}
Recommendations == {"advance", "borderline", "reject"}
Kinds == {"mailed", "quiet"}   \* send_candidate_email, or not

TERMINATED_STATUSES == {"terminated_tab_switch", "terminated_abandoned"}
Closed == {"completed"} \cup TERMINATED_STATUSES
TERMINAL_SESSION_STATUSES == Closed \cup {"disconnected", "expired"}
(* Mutant: forgets the terminated statuses.                                *)
NonStartableMutant == {"in_progress", "completed"}
NonStartable == {"in_progress"} \cup Closed
Invitable == {"interview_sent", "interview_invited"}
POST_INTERVIEW_STATUSES == {"interviewed", "shortlisted", "interview_rejected"}

Sessions == [status : SessionStatuses \cup {"none"}, asked : 0 .. MaxQuestions,
             open : BOOLEAN]
TabStates == [page : {"away", "lobby", "entering", "room", "violation"},
              call : {"none", "load", "reset", "insert", "livekit", "activate"}]
JobStates == [pc : {"idle", "running", "reset", "write", "sync", "send",
                    "done", "dead"},
              count : 0 .. MaxQuestions, terminated : BOOLEAN,
              switch : BOOLEAN, sent : BOOLEAN]
WorkerStates == [pc : {"idle", "score", "record", "fail", "failApp", "mail"},
                 kind : Kinds, rec : Recommendations]

TypeOK ==
    /\ session \in Sessions
    /\ app \in AppStatuses
    /\ byStaff \in BOOLEAN
    /\ transcript \in Nat
    /\ report \in Recommendations \cup {"none"}
    /\ tab \in [Tabs -> TabStates]
    /\ beacon \in BOOLEAN
    /\ ending \in BOOLEAN
    /\ table \in AppStatuses
    /\ room \in {"none", "waiting", "served"}
    /\ job \in [Jobs -> JobStates]
    /\ queue \in [Kinds -> Nat]
    /\ worker \in [Workers -> WorkerStates]
    /\ mails \in Nat
    /\ requests \in [Kinds -> Nat]

NoSession == [status |-> "none", asked |-> 0, open |-> FALSE]
(* Mutant: the status that start_session, which nothing calls, inserts.    *)
FreshSessionMutant(open) == [status |-> "created", asked |-> 0, open |-> open]
FreshSession(open) == [status |-> "pending", asked |-> 0, open |-> open]

(* Screening has passed the resume: the application is interview_sent and  *)
(* its session row was inserted, unless that insert failed.                *)
Init ==
    /\ session \in {NoSession, FreshSession(TRUE)}
    /\ app = "interview_sent"
    /\ byStaff = FALSE
    /\ transcript = 0
    /\ report = "none"
    /\ tab = [t \in Tabs |-> [page |-> "away", call |-> "none"]]
    /\ beacon = FALSE
    /\ ending = FALSE
    /\ table = app
    /\ room = "none"
    /\ job = [j \in Jobs |-> [pc |-> "idle", count |-> 0, terminated |-> FALSE,
                              switch |-> FALSE, sent |-> FALSE]]
    /\ queue = [kind \in Kinds |-> 0]
    /\ worker = [w \in Workers |-> [pc |-> "idle", kind |-> "quiet",
                                    rec |-> "borderline"]]
    /\ mails = 0
    /\ requests = [kind \in Kinds |-> 0]

-----------------------------------------------------------------------------
(* Helpers.                                                                *)

(* A LiveKit room is created on demand; a new room asks for an agent.      *)
RoomOpened == IF room = "none" THEN "waiting" ELSE room

(* The page a tab shows once my-session has answered it.  The lobby needs  *)
(* a session to go on; the session page turns only a 403 away.             *)
Landing(page, answer) ==
    CASE page = "lobby"    -> IF answer = "ok" THEN "lobby" ELSE "away"
      [] page = "entering" -> IF answer = "forbidden" THEN "away" ELSE "room"
      [] OTHER             -> page

(* my-session answers tab t.  Entering the room opens it if need be, and   *)
(* LiveKit drops an earlier participant of the same identity.              *)
Answer(t, answer) ==
    LET page == Landing(tab[t].page, answer) IN
    /\ tab' = [u \in Tabs |->
                 IF u = t THEN [page |-> page, call |-> "none"]
                 ELSE IF page = "room" /\ tab[u].page = "room"
                      THEN [tab[u] EXCEPT !.page = "away"]
                 ELSE tab[u]]
    /\ room' = IF page = "room" THEN RoomOpened ELSE room

(* What my-session decides for tab t, from the rows as they are now.       *)
Valid == \/ session.status = "pending" /\ session.open
         \/ session.status = "in_progress" /\ session.asked > 0
Stuck == /\ session.status \in {"pending", "in_progress", "disconnected"}
         /\ session.asked = 0
Verdict(t) ==
    IF t \in InviteTabs /\ session.status \in Closed THEN "forbidden"
    ELSE IF \/ t \in InviteTabs /\ session.status = "none"
            \/ app \notin Invitable THEN "refused"
    ELSE IF Valid THEN "ok"
    ELSE IF Stuck THEN "reset"
    ELSE IF session.status \in Closed THEN "forbidden"
    ELSE "insert"

SetStatus(status) == session' = [session EXCEPT !.status = status]

(* The pre-start row that my-session and finish() write over the old one.  *)
ResetRow == session' = FreshSession(TRUE)

(* A write to the database that is allowed to raise leaves the row alone.  *)
MayFail(fault) == fault \in Faults

-----------------------------------------------------------------------------
(* The candidate's pages.                                                  *)

OpenLobby(t) ==
    /\ tab[t] = [page |-> "away", call |-> "none"]
    /\ tab' = [tab EXCEPT ![t] = [page |-> "lobby", call |-> "load"]]
    /\ UNCHANGED <<session, app, byStaff, transcript, beacon, room, job, queue,
                   staffVars, evalVars>>

(* GET /interview/my-session, up to the write it decides on.               *)
LoadSession(t) ==
    /\ tab[t].call = "load"
    /\ \/ /\ Verdict(t) \in {"reset", "insert"}
          /\ tab' = [tab EXCEPT ![t].call = Verdict(t)]
          /\ UNCHANGED room
       \/ /\ Verdict(t) \notin {"reset", "insert"}
          /\ Answer(t, Verdict(t))
       \/ MayFail("read") /\ Answer(t, "error")
    /\ UNCHANGED <<session, app, byStaff, transcript, beacon, job, queue,
                   staffVars, evalVars>>

(* my-session puts the row back to pending, whatever it has become.        *)
ResetSession(t) ==
    /\ tab[t].call = "reset"
    /\ \/ ResetRow /\ Answer(t, "ok")
       \/ MayFail("write") /\ Answer(t, "error") /\ UNCHANGED session
    /\ UNCHANGED <<app, byStaff, transcript, beacon, job, queue, staffVars,
                   evalVars>>

(* my-session inserts the missing row; a row that exists makes the insert  *)
(* fail and is fetched instead, whatever its status.  The new deadline is  *)
(* the application's, which may be past.                                   *)
InsertSession(t) ==
    /\ tab[t].call = "insert"
    /\ \/ /\ session = NoSession
          /\ \E open \in BOOLEAN : session' = FreshSession(open)
          /\ Answer(t, "ok")
       \/ session # NoSession /\ Answer(t, "ok") /\ UNCHANGED session
       \/ /\ session = NoSession /\ MayFail("write")
          /\ Answer(t, "error")
          /\ UNCHANGED session
    /\ UNCHANGED <<app, byStaff, transcript, beacon, job, queue, staffVars,
                   evalVars>>

(* "I'm ready": POST /interview/create-room reads the row and refuses the  *)
(* statuses that cannot start; a refusal leaves the tab in the lobby.      *)
CreateRoomRead(t) ==
    /\ tab[t] = [page |-> "lobby", call |-> "none"]
    /\ session.status \notin NonStartable \cup {"none"}
    /\ tab' = [tab EXCEPT ![t].call = "livekit"]
    /\ UNCHANGED <<session, app, byStaff, transcript, beacon, room, job, queue,
                   staffVars, evalVars>>

CreateRoomLiveKit(t) ==
    /\ tab[t].call = "livekit"
    /\ \/ room' = RoomOpened /\ tab' = [tab EXCEPT ![t].call = "activate"]
       \/ /\ MayFail("livekit")
          /\ tab' = [tab EXCEPT ![t].call = "none"]
          /\ UNCHANGED room
    /\ UNCHANGED <<session, app, byStaff, transcript, beacon, job, queue,
                   staffVars, evalVars>>

(* The row becomes in_progress without a second look at its status, and    *)
(* the tab, if still there, goes to the session page, which calls          *)
(* my-session again before it shows the room.                              *)
CreateRoomWrite(t) ==
    /\ tab[t].call = "activate"
    /\ \/ /\ SetStatus("in_progress")
          /\ tab' = [tab EXCEPT ![t] =
                       IF @.page = "lobby"
                       THEN [page |-> "entering", call |-> "load"]
                       ELSE [@ EXCEPT !.call = "none"]]
       \/ /\ MayFail("write")
          /\ tab' = [tab EXCEPT ![t].call = "none"]
          /\ UNCHANGED session
    /\ UNCHANGED <<app, byStaff, transcript, beacon, room, job, queue,
                   staffVars, evalVars>>

(* The page is left before the room is shown; a call in flight goes on.    *)
CloseTab(t) ==
    /\ tab[t].page \in {"lobby", "entering"}
    /\ tab' = [tab EXCEPT ![t].page = "away"]
    /\ UNCHANGED <<session, app, byStaff, transcript, beacon, room, job, queue,
                   staffVars, evalVars>>

(* The room page is closed, reloaded or navigated back from: an unload     *)
(* beacon is sent, and the browser may drop it.                            *)
Unload(t) ==
    /\ tab[t].page \in {"room", "violation"}
    /\ tab' = [tab EXCEPT ![t].page = "away"]
    /\ beacon' \in {TRUE} \cup (IF MayFail("beacon") THEN {beacon} ELSE {})
    /\ UNCHANGED <<session, app, byStaff, transcript, room, job, queue,
                   staffVars, evalVars>>

(* The room page learns that the interview ended, or loses the room: it    *)
(* asks to end the session (without credentials: the API answers 401 and   *)
(* does nothing) and leaves.                                               *)
LeaveRoom(t) ==
    /\ tab[t].page = "room"
    /\ tab' = [tab EXCEPT ![t].page = "away"]
    /\ UNCHANGED <<session, app, byStaff, transcript, beacon, room, job, queue,
                   staffVars, evalVars>>

(* The candidate hides the tab: it tells the agent, whose data handler     *)
(* schedules the termination unless finish() has begun.                    *)
HideTab(t) ==
    /\ tab[t].page = "room"
    /\ tab' = [tab EXCEPT ![t].page = "violation"]
    /\ \/ \E j \in Jobs : /\ job[j].pc = "running"
                         /\ job' = [job EXCEPT ![j].switch = TRUE]
       \/ /\ MayFail("message") \/ \A j \in Jobs : job[j].pc # "running"
          /\ UNCHANGED job
    /\ UNCHANGED <<session, app, byStaff, transcript, beacon, room, queue,
                   staffVars, evalVars>>

(* POST /interview/terminate-abandoned: one conditional update.            *)
BeaconArrives ==
    /\ beacon
    /\ beacon' = FALSE
    /\ \/ session.status = "in_progress" /\ SetStatus("terminated_abandoned")
       \/ /\ session.status # "in_progress" \/ MayFail("write")
          /\ UNCHANGED session
    /\ UNCHANGED <<app, byStaff, transcript, tab, room, job, queue, staffVars,
                   evalVars>>

(* The deadline is days ahead when it is set: no call, page or job that    *)
(* was under way then is still there when it passes.                       *)
DeadlinePasses ==
    /\ session.open
    /\ \A t \in Tabs : tab[t].call = "none" /\ tab[t].page \in {"away", "lobby"}
    /\ \A j \in Jobs : job[j].pc \in {"idle", "done", "dead"}
    /\ session' = [session EXCEPT !.open = FALSE]
    /\ UNCHANGED <<app, byStaff, transcript, candidateVars, job, queue,
                   staffVars, evalVars>>

(* An empty room is closed by LiveKit.                                     *)
RoomCloses ==
    /\ room # "none"
    /\ \A t \in Tabs : tab[t].page \notin {"room", "violation"}
    /\ room' = "none"
    /\ UNCHANGED <<session, app, byStaff, transcript, tab, beacon, job, queue,
                   staffVars, evalVars>>

-----------------------------------------------------------------------------
(* The agent job.                                                          *)

(* A worker accepts the room's agent request and fetches the row.          *)
JobStart(j) ==
    /\ room = "waiting"
    /\ job[j].pc = "idle"
    /\ room' = "served"
    /\ \E pc \in {"running"} \cup (IF MayFail("read") THEN {"dead"} ELSE {}) :
         job' = [job EXCEPT ![j].pc = pc]
    /\ UNCHANGED <<session, app, byStaff, transcript, tab, beacon, queue,
                   staffVars, evalVars>>

(* _do_advance stores the question just answered or timed out.  The first  *)
(* question is asked only when the candidate has spoken in the room.       *)
AnswerQuestion(j) ==
    /\ job[j].pc = "running"
    /\ job[j].count < MaxQuestions
    /\ job[j].count = 0 => \E t \in Tabs : tab[t].page \in {"room", "violation"}
    /\ job' = [job EXCEPT ![j].count = @ + 1]
    /\ \/ transcript' = transcript + 1
       \/ MayFail("store") /\ UNCHANGED transcript
    /\ UNCHANGED <<session, app, byStaff, candidateVars, queue, staffVars,
                   evalVars>>

(* _terminate_tab_switch, a task of its own: it runs when the event loop   *)
(* reaches it, which may be after another callback has run finish().       *)
TabSwitchRun(j) ==
    /\ job[j].switch
    /\ job[j].pc \in {"running", "done"}
    /\ job' = [job EXCEPT ![j].switch = FALSE, ![j].terminated = TRUE]
    /\ \/ SetStatus("terminated_tab_switch")
       \/ MayFail("write") /\ UNCHANGED session
    /\ UNCHANGED <<app, byStaff, transcript, candidateVars, queue, staffVars,
                   evalVars>>

(* Mutant: a job that heard no answer completes the interview all the same. *)
FinishReadMutant(j) ==
    /\ job[j].pc = "running"
    /\ job' = [job EXCEPT ![j].pc =
                 IF session.status = "completed" THEN "done"
                 ELSE IF session.status \in TERMINAL_SESSION_STATUSES THEN "sync"
                 ELSE "write"]
    /\ UNCHANGED <<session, app, byStaff, transcript, candidateVars, queue,
                   staffVars, evalVars>>

(* Mutant: finish() of a terminated session has nothing left to do.        *)
FinishReadUnsynced(j) ==
    /\ job[j].pc = "running"
    /\ job' = [job EXCEPT ![j].pc =
                 IF session.status \in TERMINAL_SESSION_STATUSES THEN "done"
                 ELSE IF job[j].count = 0 /\ ~job[j].terminated THEN "reset"
                 ELSE "write"]
    /\ UNCHANGED <<session, app, byStaff, transcript, candidateVars, queue,
                   staffVars, evalVars>>

(* finish(): the last question, the duration watchdog, a closed session, a *)
(* disconnected room and the tab switch all end here, once per job.  A     *)
(* failed re-read counts as "status unknown".                              *)
FinishRead(j) ==
    /\ job[j].pc = "running"
    /\ \E seen \in {session.status} \cup (IF MayFail("reread") THEN {"unknown"} ELSE {}) :
         job' = [job EXCEPT ![j].pc =
                   IF seen = "completed" THEN "done"
                   ELSE IF seen \in TERMINAL_SESSION_STATUSES THEN "sync"
                   ELSE IF job[j].count = 0 /\ ~job[j].terminated THEN "reset"
                   ELSE "write"]
    /\ UNCHANGED <<session, app, byStaff, transcript, candidateVars, queue,
                   staffVars, evalVars>>

(* Nothing was answered: the candidate may try again.                      *)
FinishReset(j) ==
    /\ job[j].pc = "reset"
    /\ job' = [job EXCEPT ![j].pc = "done"]
    /\ \/ ResetRow
       \/ MayFail("write") /\ UNCHANGED session
    /\ UNCHANGED <<app, byStaff, transcript, candidateVars, queue, staffVars,
                   evalVars>>

(* Mutant: the row is completed and nobody is told to evaluate it.         *)
FinishWriteMutant(j) ==
    /\ job[j].pc = "write"
    /\ job' = [job EXCEPT ![j].pc = "done"]
    /\ session' = [session EXCEPT !.asked = job[j].count, !.status = "completed"]
    /\ UNCHANGED <<app, byStaff, transcript, candidateVars, queue, staffVars,
                   evalVars>>

FinishWrite(j) ==
    /\ job[j].pc = "write"
    /\ job' = [job EXCEPT ![j].pc = IF job[j].terminated THEN "sync" ELSE "send"]
    /\ \/ session' = [session EXCEPT
                          !.asked = job[j].count,
                          !.status = IF job[j].terminated THEN @ ELSE "completed"]
       \/ MayFail("write") /\ UNCHANGED session
    /\ UNCHANGED <<app, byStaff, transcript, candidateVars, queue, staffVars,
                   evalVars>>

(* _sync_application_status_on_termination: one conditional update.        *)
FinishSync(j) ==
    /\ job[j].pc = "sync"
    /\ job' = [job EXCEPT ![j].pc = "done"]
    /\ \/ /\ app \in Invitable
          /\ app' = "interviewed"
          /\ byStaff' = FALSE
       \/ /\ app \notin Invitable \/ MayFail("write")
          /\ UNCHANGED <<app, byStaff>>
    /\ UNCHANGED <<session, transcript, candidateVars, queue, staffVars, evalVars>>

FinishSend(j) ==
    /\ job[j].pc = "send"
    /\ \/ /\ job' = [job EXCEPT ![j].pc = "done", ![j].sent = TRUE]
          /\ queue' = [queue EXCEPT !["mailed"] = @ + 1]
       \/ /\ MayFail("broker")
          /\ job' = [job EXCEPT ![j].pc = "done"]
          /\ UNCHANGED queue
    /\ UNCHANGED <<session, app, byStaff, transcript, candidateVars, staffVars,
                   evalVars>>

(* The job process dies; LiveKit does not start the job again.             *)
JobCrash(j) ==
    /\ MayFail("crash")
    /\ job[j].pc \notin {"idle", "done", "dead"}
    /\ job' = [job EXCEPT ![j].pc = "dead"]
    /\ UNCHANGED <<session, app, byStaff, transcript, candidateVars, queue,
                   staffVars, evalVars>>

-----------------------------------------------------------------------------
(* The evaluation task.                                                    *)

(* A worker takes a task and fetches the session; tasks are acknowledged   *)
(* when taken, and a task that raises here is gone.                        *)
TaskTake(w) ==
    /\ worker[w].pc = "idle"
    /\ \E kind \in Kinds :
         /\ queue[kind] > 0
         /\ queue' = [queue EXCEPT ![kind] = @ - 1]
         /\ \/ worker' = [worker EXCEPT ![w] = [pc |-> "score", kind |-> kind,
                                               rec |-> "borderline"]]
            \/ MayFail("read") /\ UNCHANGED worker
    /\ UNCHANGED <<session, app, byStaff, transcript, report, candidateVars, job,
                   mails, staffVars>>

(* Mutant: the report is upserted, a second evaluation replaces the first. *)
ScoreOkMutant(w) ==
    /\ worker[w].pc = "score"
    /\ transcript > 0
    /\ \E rec \in Recommendations :
         /\ report' = rec
         /\ worker' = [worker EXCEPT ![w].pc = "record", ![w].rec = rec]
    /\ UNCHANGED <<session, app, byStaff, transcript, candidateVars, job, queue,
                   mails, staffVars>>

(* evaluate_interview: score the transcript, then insert the report, which *)
(* interview_reports' UNIQUE(session_id) refuses when there is one.          *)
ScoreOk(w) ==
    /\ worker[w].pc = "score"
    /\ transcript > 0
    /\ report = "none"
    /\ \E rec \in Recommendations :
         /\ report' = rec
         /\ worker' = [worker EXCEPT ![w].pc = "record", ![w].rec = rec]
    /\ UNCHANGED <<session, app, byStaff, transcript, candidateVars, job, queue,
                   mails, staffVars>>

(* Mutant: the exception leaves the task, which ends there.                *)
ScoreFailMutant(w) ==
    /\ worker[w].pc = "score"
    /\ transcript = 0 \/ report # "none" \/ MayFail("llm")
    /\ worker' = [worker EXCEPT ![w].pc = "idle"]
    /\ UNCHANGED <<session, app, byStaff, transcript, report, candidateVars, job,
                   queue, mails, staffVars>>

ScoreFail(w) ==
    /\ worker[w].pc = "score"
    /\ \/ transcript = 0
       \/ report # "none"
       \/ \E fault \in {"llm", "read", "write"} : MayFail(fault)
    /\ worker' = [worker EXCEPT ![w].pc = "fail"]
    /\ UNCHANGED <<session, app, byStaff, transcript, report, candidateVars, job,
                   queue, mails, staffVars>>

Decision(rec) == CASE rec = "advance"    -> "shortlisted"
                   [] rec = "borderline" -> "interviewed"
                   [] rec = "reject"     -> "interview_rejected"

RecordDecision(w) ==
    /\ worker[w].pc = "record"
    /\ \/ /\ app' = Decision(worker[w].rec)
          /\ byStaff' = FALSE
          /\ worker' = [worker EXCEPT ![w].pc = "mail"]
       \/ /\ MayFail("write")
          /\ worker' = [worker EXCEPT ![w].pc = "fail"]
          /\ UNCHANGED <<app, byStaff>>
    /\ UNCHANGED <<session, transcript, report, candidateVars, job, queue, mails,
                   staffVars>>

(* The evaluation raised: the session is completed all the same ...        *)
FailSession(w) ==
    /\ worker[w].pc = "fail"
    /\ \/ /\ SetStatus("completed")
          /\ worker' = [worker EXCEPT ![w].pc = "failApp"]
       \/ /\ MayFail("write")
          /\ worker' = [worker EXCEPT ![w].pc = "mail"]
          /\ UNCHANGED session
    /\ UNCHANGED <<app, byStaff, transcript, report, candidateVars, job, queue,
                   mails, staffVars>>

(* ... and the application interviewed.                                    *)
FailApp(w) ==
    /\ worker[w].pc = "failApp"
    /\ worker' = [worker EXCEPT ![w].pc = "mail"]
    /\ \/ app' = "interviewed" /\ byStaff' = FALSE
       \/ MayFail("write") /\ UNCHANGED <<app, byStaff>>
    /\ UNCHANGED <<session, transcript, report, candidateVars, job, queue, mails,
                   staffVars>>

(* Mutant: send_candidate_email is ignored.                                *)
SendMailMutant(w) ==
    /\ worker[w].pc = "mail"
    /\ worker' = [worker EXCEPT ![w].pc = "idle"]
    /\ mails' = mails + 1
    /\ UNCHANGED <<session, app, byStaff, transcript, report, candidateVars, job,
                   queue, staffVars>>

SendMail(w) ==
    /\ worker[w].pc = "mail"
    /\ worker' = [worker EXCEPT ![w].pc = "idle"]
    /\ \/ worker[w].kind = "mailed" /\ mails' = mails + 1
       \/ worker[w].kind = "quiet" /\ UNCHANGED mails
       \/ MayFail("mail") /\ UNCHANGED mails
    /\ UNCHANGED <<session, app, byStaff, transcript, report, candidateVars, job,
                   queue, staffVars>>

(* The time limit, or a restart of the worker: nobody runs the task again. *)
TaskKilled(w) ==
    /\ MayFail("kill")
    /\ worker[w].pc # "idle"
    /\ worker' = [worker EXCEPT ![w].pc = "idle"]
    /\ UNCHANGED <<session, app, byStaff, transcript, report, candidateVars, job,
                   queue, mails, staffVars>>

-----------------------------------------------------------------------------
(* Requests from outside the candidate's pages.                            *)

(* POST /interview/end-session from a caller with credentials: the status  *)
(* check, then the unconditional write of end_session.                     *)
EndSessionRead ==
    /\ "end" \in Outside
    /\ ~ending
    /\ session.status \in {"in_progress", "pending"}
    /\ ending' = TRUE
    /\ UNCHANGED <<session, app, byStaff, transcript, candidateVars, job, queue,
                   evalVars, table, requests>>

EndSessionWrite ==
    /\ ending
    /\ ending' = FALSE
    /\ \/ SetStatus("completed")
       \/ MayFail("write") /\ UNCHANGED session
    /\ UNCHANGED <<app, byStaff, transcript, candidateVars, job, queue, evalVars,
                   table, requests>>

(* POST /interview/evaluate, with or without the candidate's email.        *)
StaffEvaluate(kind) ==
    /\ "evaluate" \in Outside
    /\ session # NoSession
    /\ requests[kind] < MaxRequests
    /\ requests' = [requests EXCEPT ![kind] = @ + 1]
    /\ queue' = [queue EXCEPT ![kind] = @ + 1]
    /\ UNCHANGED <<session, app, byStaff, transcript, candidateVars, job, evalVars,
                   ending, table>>

(* The bulk actions of the candidate table that decide.                    *)
StaffDecide(decision) ==
    /\ "decide" \in Outside
    /\ app' = decision
    /\ byStaff' = TRUE
    /\ UNCHANGED <<session, transcript, candidateVars, job, queue, evalVars,
                   staffVars>>

(* The candidate table is loaded; it is not refreshed until acted upon.    *)
LoadTable ==
    /\ "resend" \in Outside
    /\ table' = app
    /\ UNCHANGED <<session, app, byStaff, transcript, candidateVars, job, queue,
                   evalVars, ending, requests>>

(* Bulk "send interview", guarded by the status the table shows.           *)
SendInterview ==
    /\ "resend" \in Outside
    /\ table \notin POST_INTERVIEW_STATUSES
    /\ app' = "interview_sent"
    /\ byStaff' = TRUE
    /\ table' = "interview_sent"
    /\ session' = IF session = NoSession THEN FreshSession(TRUE) ELSE session
    /\ UNCHANGED <<transcript, candidateVars, job, queue, evalVars, ending,
                   requests>>

-----------------------------------------------------------------------------
Candidate(t) ==
    \/ OpenLobby(t) \/ CreateRoomRead(t) \/ CloseTab(t) \/ Unload(t)
    \/ LeaveRoom(t) \/ HideTab(t)

Api(t) ==
    \/ LoadSession(t) \/ ResetSession(t) \/ InsertSession(t)
    \/ CreateRoomLiveKit(t) \/ CreateRoomWrite(t)

Finish(j) ==
    \/ FinishRead(j) \/ FinishReset(j) \/ FinishWrite(j)
    \/ FinishSync(j) \/ FinishSend(j)

Agent(j) == JobStart(j) \/ AnswerQuestion(j) \/ TabSwitchRun(j) \/ Finish(j)

Evaluate(w) ==
    \/ TaskTake(w) \/ ScoreOk(w) \/ ScoreFail(w) \/ RecordDecision(w)
    \/ FailSession(w) \/ FailApp(w) \/ SendMail(w)

Staff ==
    \/ EndSessionRead \/ EndSessionWrite \/ LoadTable \/ SendInterview
    \/ \E kind \in Kinds : StaffEvaluate(kind)
    \/ \E decision \in {"shortlisted", "resume_rejected"} : StaffDecide(decision)

Next ==
    \/ \E t \in Tabs : Candidate(t) \/ Api(t)
    \/ \E j \in Jobs : Agent(j) \/ JobCrash(j)
    \/ \E w \in Workers : Evaluate(w) \/ TaskKilled(w)
    \/ BeaconArrives \/ DeadlinePasses \/ RoomCloses
    \/ Staff

Spec == Init /\ [][Next]_vars

(* The program's own half is fair: a handler that was called goes on, a    *)
(* dispatched job starts and ends (max_duration_seconds), a worker takes   *)
(* and finishes its tasks.  Nothing is assumed of people.                  *)
Fairness ==
    /\ \A t \in Tabs : WF_vars(Api(t))
    /\ \A j \in Jobs : WF_vars(JobStart(j)) /\ WF_vars(Finish(j))
    /\ \A w \in Workers : WF_vars(Evaluate(w))
    /\ WF_vars(EndSessionWrite)

FairSpec == Spec /\ Fairness

-----------------------------------------------------------------------------
(* Properties.                                                             *)

(* No call or finish() in flight holds an older reading of the row on which *)
(* it may reopen it.                                                       *)
Settled ==
    /\ session.status \in Closed
    /\ \A t \in Tabs : tab[t].call \notin {"reset", "livekit", "activate"}
    /\ \A j \in Jobs : job[j].pc # "reset"

(* "Retakes are not permitted": once the session is completed or           *)
(* terminated and nobody acts on an older reading, no sequence of calls    *)
(* and events opens it again -- provided finish() can re-read the row.     *)
SettledIsFinal == [][~MayFail("reread") /\ Settled => Settled']_vars

(* A decision the program took stands in the report: a candidate is        *)
(* shortlisted or rejected after the interview only with a report that     *)
(* says so, however many evaluations of the session run at once.           *)
DecisionMatchesReport ==
    ~byStaff => /\ app = "shortlisted" => report = "advance"
                /\ app = "interview_rejected" => report = "reject"

(* The candidate is emailed at most once for each evaluation that an agent *)
(* queued or that staff asked to be mailed; a quiet re-run never mails.    *)
Mailing == {w \in Workers : worker[w].pc # "idle" /\ worker[w].kind = "mailed"}
SentJobs == {j \in Jobs : job[j].sent}
MailBudget ==
    mails + queue["mailed"] + Cardinality(Mailing)
        <= Cardinality(SentJobs) + requests["mailed"]

(* An agent that queued an evaluation left something to score, so the      *)
(* evaluation cannot fail for want of answers (unless storing them failed). *)
SentHasTranscript ==
    ~MayFail("store") => \A j \in Jobs : job[j].sent => transcript > 0

(* "The end state MUST be the same as a completed interview": the tab      *)
(* switch and the other endings race to finish(), and whichever runs       *)
(* first, the application of a terminated candidate does not stay          *)
(* "invited" -- unless another ending put the row back to pending before   *)
(* the termination ran, for want of any answer.                            *)
TerminatedIsSettled ==
    \A j \in Jobs :
        job[j].terminated /\ (job[j].pc = "running" \/ job[j].count > 0) ~> app \notin Invitable

(* A completed interview is evaluated: its application leaves "invited".   *)
CompletedIsEvaluated ==
    session.status = "completed" ~> app \notin Invitable

(* "The candidate is never left waiting": whoever's interview was sent for *)
(* evaluation is emailed, even when the evaluation fails.                  *)
CandidateHearsBack == \A j \in Jobs : job[j].sent ~> mails > 0

-----------------------------------------------------------------------------
(* What the program's comments and docstrings say, and its code does not   *)
(* keep: each is refuted by a run of its own.                              *)

(* my-session resets only a session stuck "before the interview ever       *)
(* started", never one whose agent is conducting the interview.            *)
ResetBeforeStart ==
    [][session.status = "in_progress" /\ session'.status = "pending"
         => \A j \in Jobs : job[j].pc = "running" => job[j].count = 0]_vars

=============================================================================
