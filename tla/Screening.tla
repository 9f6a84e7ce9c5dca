------------------------------ MODULE Screening -----------------------------
(***************************************************************************)
(* From the submission of an application to the decision on its resume:    *)
(* the database's webhook, the staff's Re-screen and Retry buttons, and    *)
(* screen_resume_task in the Celery workers.                               *)
(*                                                                         *)
(* A task takes no lock and does not look at the status it overwrites, so  *)
(* two tasks of one application may run at once, and one may run for an    *)
(* application that has long moved on.  The broker hands a task out once:  *)
(* one that is killed is gone.                                             *)
(*                                                                         *)
(* Abstracted: the scores (that there are some, and which way they decide),*)
(* the parsed resume, addresses and texts.  Reading, scoring and writing   *)
(* the details of the resume are one step with the write that follows, as  *)
(* no other process looks at them.                                         *)
(***************************************************************************)
EXTENDS Naturals

CONSTANTS
    Apps,      \* applications
    MaxTasks,  \* bound: screenings queued
    MaxFaults  \* bound: calls that fail, answers and messages lost, processes killed

ASSUME ScreeningAssumption == Apps # {} /\ MaxTasks \in Nat /\ MaxFaults \in Nat

Tasks == 1 .. MaxTasks

VARIABLES
    app,      \* the applications' rows
    session,  \* applications that have a row in interview_sessions
    hook,     \* the application-created webhook of each
    task,     \* the tasks: of which application, and how far they got
    inbox,    \* history: mails to candidates, by the task that sent them
    faults    \* counter for the bound

screeningVars == <<app, session, hook, task, inbox, faults>>

Decided(a) == app[a].status \in {"interview_sent", "resume_rejected", "moved on"}
Unsettled(a) == app[a].status \in {"applied", "screened"}

Working(t) == task[t].at \in {"taken", "screened", "inviting", "mailing", "parsing", "failing", "failing again"}
Screenings(a) == {t \in Tasks : task[t].at # "free" /\ task[t].app = a}

\* The pipeline's issues about resumes (pipeline_health.classify): a screening
\* that failed, known by its time, or one that has not happened in 15 minutes.
Issues ==
    {[app |-> a, failed |-> app[a].failed] :
        a \in {b \in Apps : app[b].status = "applied" /\ (app[b].failed # 0 \/ app[b].old)}}

Fault == faults < MaxFaults /\ faults' = faults + 1

-----------------------------------------------------------------------------
(* Queueing a screening.                                                    *)

Submit(a) ==
    /\ app[a].status = "none"
    /\ app' = [app EXCEPT ![a].status = "applied"]
    /\ hook' = [hook EXCEPT ![a] = "sent"]
    /\ UNCHANGED <<session, task, inbox, faults>>

\* STUCK_AFTER has passed since the application was created.
GrowsOld(a) ==
    /\ app[a].status # "none" /\ ~app[a].old
    /\ app' = [app EXCEPT ![a].old = TRUE]
    /\ UNCHANGED <<session, hook, task, inbox, faults>>

Delay(a) ==
    \E t \in Tasks :
        /\ task[t].at = "free" /\ \A s \in 1 .. t - 1 : task[s].at # "free"
        /\ task' = [task EXCEPT ![t] = [app |-> a, at |-> "queued"]]

\* The handler looks at the status, and queues the task: two calls.
HookReads(a) ==
    /\ hook[a] = "sent"
    /\ hook' = [hook EXCEPT ![a] = IF app[a].status = "applied" THEN "checked" ELSE "over"]
    /\ UNCHANGED <<app, session, task, inbox, faults>>

HookQueues(a) ==
    /\ hook[a] = "checked"
    /\ Delay(a)
    /\ hook' = [hook EXCEPT ![a] = "over"]
    /\ UNCHANGED <<app, session, inbox, faults>>

\* It is not sent, the lookup fails, or the broker is away: nobody tries again.
HookLost(a) ==
    /\ hook[a] \in {"sent", "checked"} /\ Fault
    /\ hook' = [hook EXCEPT ![a] = "over"]
    /\ UNCHANGED <<app, session, task, inbox>>

\* The table offers to screen a row without scores, the dashboard to retry an
\* issue.  Every application was without scores once, a page is as old as it
\* was loaded, and the handler asks nothing more.
trigger_screening(a) ==
    /\ app[a].status # "none"
    /\ Delay(a)
    /\ UNCHANGED <<app, session, hook, inbox, faults>>

-----------------------------------------------------------------------------
(* The task.                                                                *)

Goes(t, at) == task' = [task EXCEPT ![t].at = at]

Take(t) ==
    /\ task[t].at = "queued"
    /\ Goes(t, "taken")
    /\ UNCHANGED <<app, session, hook, inbox, faults>>

\* update_record: as it should, or failing, before or after the row is written.
Updates(t, row, next) ==
    \/ app' = [app EXCEPT ![task[t].app] = row] /\ Goes(t, next) /\ UNCHANGED faults
    \/ Fault /\ Goes(t, "failing") /\ app' \in {app, [app EXCEPT ![task[t].app] = row]}

Row(t) == app[task[t].app]

WriteScreened(t) ==
    /\ task[t].at = "taken"
    /\ Updates(t, [Row(t) EXCEPT !.status = "screened"], "screened")
    /\ UNCHANGED <<session, hook, inbox>>

(* Mutant: those in between wait for a recruiter.                           *)
AdvanceMutant(t) ==
    /\ task[t].at = "screened"
    /\ \/ Updates(t, [Row(t) EXCEPT !.status = "interview_sent"], "inviting")
       \/ Updates(t, [Row(t) EXCEPT !.status = "manual_review"], "parsing")
       \/ Updates(t, [Row(t) EXCEPT !.status = "resume_rejected"], "mailing")
    /\ UNCHANGED <<session, hook, inbox>>

\* At or above the threshold, or below.  No manual band.
Advance(t) ==
    /\ task[t].at = "screened"
    /\ \/ Updates(t, [Row(t) EXCEPT !.status = "interview_sent"], "inviting")
       \/ Updates(t, [Row(t) EXCEPT !.status = "resume_rejected"], "mailing")
    /\ UNCHANGED <<session, hook, inbox>>

\* Whatever fails from here on is caught on the spot.  A second session of an
\* application is refused; posts have a template here.
InsertSession(t) ==
    /\ task[t].at = "inviting"
    /\ Goes(t, "mailing")
    /\ \/ session' = session \union {task[t].app} /\ UNCHANGED faults
       \/ UNCHANGED session /\ Fault
    /\ UNCHANGED <<app, hook, inbox>>

\* A task that failed to send, or found no address, goes on.
Mail(t) ==
    /\ task[t].at = "mailing"
    /\ Goes(t, "parsing")
    /\ \/ inbox' = inbox \union {t} /\ UNCHANGED faults
       \/ UNCHANGED inbox /\ Fault
    /\ UNCHANGED <<app, session, hook>>

(* Mutant: the parser's error is not caught here.                           *)
StoreParsedMutant(t) ==
    /\ task[t].at = "parsing"
    /\ \/ Goes(t, "done") /\ UNCHANGED faults
       \/ Fault /\ Goes(t, "failing")
    /\ UNCHANGED <<app, session, hook, inbox>>

StoreParsed(t) ==
    /\ task[t].at = "parsing"
    /\ Goes(t, "done")
    /\ UNCHANGED <<app, session, hook, inbox, faults>>

(* Mutant: the failure is recorded, the status stays.                       *)
RecordFailureMutant(t) ==
    /\ task[t].at = "failing"
    /\ LET failed == [app EXCEPT ![task[t].app].failed = t]
       IN  \/ app' = failed /\ Goes(t, "done") /\ UNCHANGED faults
           \/ app' \in {app, failed} /\ Goes(t, "failing again") /\ Fault
    /\ UNCHANGED <<session, hook, inbox>>

\* Back to 'applied' with the failure, else without it, else not at all.  A
\* failure is known by its time, which no other task's has.
RecordFailure(t) ==
    /\ task[t].at = "failing"
    /\ LET failed == [app EXCEPT ![task[t].app].status = "applied", ![task[t].app].failed = t]
       IN  \/ app' = failed /\ Goes(t, "done") /\ UNCHANGED faults
           \/ app' \in {app, failed} /\ Goes(t, "failing again") /\ Fault
    /\ UNCHANGED <<session, hook, inbox>>

ResetOnly(t) ==
    /\ task[t].at = "failing again"
    /\ \/ app' = [app EXCEPT ![task[t].app].status = "applied"] /\ Goes(t, "done") /\ UNCHANGED faults
       \/ Fault /\ Goes(t, "lost") /\ UNCHANGED app
    /\ UNCHANGED <<session, hook, inbox>>

\* The time limit, the daily restart, a crash.
Killed(t) ==
    /\ Working(t) /\ Fault
    /\ Goes(t, "killed")
    /\ UNCHANGED <<app, session, hook, inbox>>

-----------------------------------------------------------------------------
(* The interview, or a recruiter, takes an application further.             *)

MovesOn(a) ==
    /\ app[a].status = "interview_sent"
    /\ app' = [app EXCEPT ![a].status = "moved on"]
    /\ UNCHANGED <<session, hook, task, inbox, faults>>

-----------------------------------------------------------------------------
ScreeningInit ==
    /\ app = [a \in Apps |-> [status |-> "none", failed |-> 0, old |-> FALSE]]
    /\ session = {}
    /\ hook = [a \in Apps |-> "none"]
    /\ task = [t \in Tasks |-> [app |-> CHOOSE a \in Apps : TRUE, at |-> "free"]]
    /\ inbox = {}
    /\ faults = 0

Proceeds(t) ==
    \/ Take(t) \/ WriteScreened(t) \/ Advance(t) \/ InsertSession(t) \/ Mail(t) \/ StoreParsed(t)
    \/ RecordFailure(t) \/ ResetOnly(t)

Outside(a) == Submit(a) \/ HookLost(a) \/ trigger_screening(a) \/ MovesOn(a)
Webhook(a) == HookReads(a) \/ HookQueues(a)

ScreeningNext ==
    \/ \E a \in Apps : Outside(a) \/ Webhook(a) \/ GrowsOld(a)
    \/ \E t \in Tasks : Proceeds(t) \/ Killed(t)

-----------------------------------------------------------------------------
(* Properties.                                                              *)

ScreeningTypeOK ==
    /\ app \in [Apps -> [status : {"none", "applied", "screened", "interview_sent", "resume_rejected", "moved on"},
                         failed : Tasks \union {0}, old : BOOLEAN]]
    /\ session \subseteq Apps
    /\ hook \in [Apps -> {"none", "sent", "checked", "over"}]
    /\ task \in [Tasks -> [app : Apps, at : {"free", "queued", "taken", "screened", "inviting", "mailing",
                                             "parsing", "failing", "failing again", "done", "lost", "killed"}]]
    /\ inbox \subseteq Tasks
    /\ faults \in 0 .. MaxFaults

\* A candidate who was mailed is not put back among the unscreened: whatever
\* fails after the decision, the decision stands, unless the application is
\* screened another time.
MailedIsDecided ==
    \A t \in inbox : Screenings(task[t].app) = {t} => Decided(task[t].app)

\* Neither the status nor the pipeline's issues tell of it: a task that would
\* have decided was killed between its two writes, or could not write at all.
LeftScreened(a) ==
    /\ app[a].status = "screened"
    /\ \E t \in Screenings(a) : task[t].at \in {"lost", "killed"}

=============================================================================
