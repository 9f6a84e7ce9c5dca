---------------------------- MODULE PipelineAlerts --------------------------
(***************************************************************************)
(* The hourly check of every API replica for resumes that were not         *)
(* screened, which mails an organisation's admins about the issues it has  *)
(* not told them of: over the applications and tasks of Screening.         *)
(*                                                                         *)
(* One check at a time, by a lock in Redis that expires after 15 minutes,  *)
(* whether its holder is still at work or not, and that its holder deletes *)
(* in the end, whether it is still its own or not.                         *)
(*                                                                         *)
(* Abstracted: one organisation (each has its own set in Redis, and they   *)
(* are checked in turn); issues about interviews, which join the same list.*)
(***************************************************************************)
EXTENDS Screening

CONSTANT Replicas  \* API processes

VARIABLES
    lock,      \* pipeline_alerts:lock is there
    sent,      \* pipeline_alerts:sent: the issues recorded as alerted
    check,     \* each replica's check: how far, and what it found
    told,      \* history: issues the admins were mailed
    resolved,  \* history: issues that a check no longer found after that
    repeated,  \* history: was an issue mailed again without having been resolved?
    mishap     \* history: may an issue be mailed again?

alertVars == <<lock, sent, check, told, resolved, repeated, mishap>>
pipelineVars == <<screeningVars, alertVars>>

Idle == [at |-> "idle", issues |-> {}, fresh |-> {}]
Over == [Idle EXCEPT !.at = "over"]

-----------------------------------------------------------------------------
(* run_alert_check.                                                         *)

(* Mutant: the lock is set whether it is there or not.                       *)
LockMutant(r) ==
    /\ check[r] = Idle
    /\ lock' = TRUE
    /\ check' = [check EXCEPT ![r].at = "locked"]
    /\ UNCHANGED <<screeningVars, sent, told, resolved, repeated, mishap>>

\* alert_loop wakes up.  While the lock is there it goes back to sleep.
Lock(r) ==
    /\ check[r] = Idle
    /\ ~lock /\ lock' = TRUE
    /\ check' = [check EXCEPT ![r].at = "locked"]
    /\ UNCHANGED <<screeningVars, sent, told, resolved, repeated, mishap>>

find_issues(r) ==
    /\ check[r].at = "locked"
    /\ check' = [check EXCEPT ![r] = [at |-> "found", issues |-> Issues, fresh |-> {}]]
    /\ UNCHANGED <<screeningVars, lock, sent, told, resolved, repeated, mishap>>

unalerted(r) ==
    /\ check[r].at = "found"
    /\ LET fresh == check[r].issues \ sent
       IN  check' = [check EXCEPT ![r].fresh = fresh, ![r].at = IF fresh = {} THEN "mailed" ELSE "fresh"]
    /\ UNCHANGED <<screeningVars, lock, sent, told, resolved, repeated, mishap>>

Mailed(r) ==
    /\ told' = told \union check[r].fresh
    /\ resolved' = resolved \ check[r].fresh
    /\ repeated' = (repeated \/ \E i \in check[r].fresh : i \in told \ resolved)

send_pipeline_alert(r) ==
    /\ check[r].at = "fresh"
    /\ Mailed(r)
    /\ check' = [check EXCEPT ![r].at = "mailed", ![r].fresh = {}]
    /\ UNCHANGED <<screeningVars, lock, sent, mishap>>

\* One transaction: exactly the issues found, so that a resolved one drops out.
Record(r) ==
    /\ check[r].at = "mailed"
    /\ sent' = check[r].issues
    /\ resolved' = resolved \union (told \ check[r].issues)
    /\ check' = [check EXCEPT ![r] = Over]
    /\ UNCHANGED <<screeningVars, lock, told, repeated, mishap>>

\* An error, or no admin to write to: nothing is recorded.  The mail may have
\* gone out all the same.
CheckFails(r) ==
    /\ check[r].at \in {"locked", "found", "fresh", "mailed"} /\ Fault
    /\ check' = [check EXCEPT ![r] = Over]
    /\ \/ check[r].at = "fresh" /\ Mailed(r) /\ mishap' = TRUE
       \/ mishap' = (mishap \/ check[r].at = "mailed") /\ UNCHANGED <<told, resolved, repeated>>
    /\ UNCHANGED <<app, session, hook, task, inbox, lock, sent>>

Release(r) ==
    /\ check[r].at = "over"
    /\ check' = [check EXCEPT ![r] = Idle]
    /\ lock' = FALSE
    /\ UNCHANGED <<screeningVars, sent, told, resolved, repeated, mishap>>

\* The process is restarted; its lock stays.
Restart(r) ==
    /\ check[r] # Idle /\ Fault
    /\ check' = [check EXCEPT ![r] = Idle]
    /\ mishap' = (mishap \/ check[r].at = "mailed")
    /\ UNCHANGED <<app, session, hook, task, inbox, lock, sent, told, resolved, repeated>>

\* ex=15 * 60.  Whoever is still at work has company from then on.
LockExpires ==
    /\ lock /\ lock' = FALSE
    /\ mishap' = (mishap \/ \E r \in Replicas : check[r] # Idle)
    /\ UNCHANGED <<screeningVars, sent, check, told, resolved, repeated>>

-----------------------------------------------------------------------------
AlertInit ==
    /\ lock = FALSE
    /\ sent = {}
    /\ check = [r \in Replicas |-> Idle]
    /\ told = {} /\ resolved = {}
    /\ repeated = FALSE /\ mishap = FALSE

PipelineInit == ScreeningInit /\ AlertInit

Checks(r) == find_issues(r) \/ unalerted(r) \/ send_pipeline_alert(r) \/ Record(r) \/ Release(r)

PipelineNext ==
    \/ ScreeningNext /\ UNCHANGED alertVars
    \/ \E r \in Replicas : Lock(r) \/ Checks(r) \/ CheckFails(r) \/ Restart(r)
    \/ LockExpires

PipelineSpec == PipelineInit /\ [][PipelineNext]_pipelineVars

\* Workers work, time passes, and some replica's loop wakes up again and again.
PipelineFairness ==
    /\ \A a \in Apps : WF_pipelineVars(Webhook(a) /\ UNCHANGED alertVars)
                       /\ WF_pipelineVars(GrowsOld(a) /\ UNCHANGED alertVars)
    /\ \A t \in Tasks : WF_pipelineVars(Proceeds(t) /\ UNCHANGED alertVars)
    /\ \A r \in Replicas : WF_pipelineVars(Checks(r))
    /\ WF_pipelineVars(\E r \in Replicas : Lock(r))
    /\ WF_pipelineVars(LockExpires)

FairPipelineSpec == PipelineSpec /\ PipelineFairness

-----------------------------------------------------------------------------
(* Properties.                                                              *)

IssueKeys == [app : Apps, failed : Tasks \union {0}]

PipelineTypeOK ==
    /\ ScreeningTypeOK
    /\ lock \in BOOLEAN /\ mishap \in BOOLEAN /\ repeated \in BOOLEAN
    /\ sent \subseteq IssueKeys /\ told \subseteq IssueKeys
    /\ resolved \subseteq IssueKeys
    /\ check \in [Replicas -> [at : {"idle", "locked", "found", "fresh", "mailed", "over"},
                               issues : SUBSET IssueKeys, fresh : SUBSET IssueKeys]]

\* Alerts are neither dropped nor repeated, however replicas, restarts and the
\* expiry of the lock interleave: what is recorded as alerted was mailed, and
\* an issue is mailed twice only after it was resolved, or after a check was
\* cut off between its mail and its record or lost its lock.
AlertsAreExact ==
    /\ sent \subseteq told
    /\ repeated => mishap

\* Every application is decided, or its admins are told of the failure it has
\* now; but for one that is left screened.
NobodyIsForgotten ==
    \A a \in Apps :
        Unsettled(a) ~> Decided(a) \/ [app |-> a, failed |-> app[a].failed] \in told \/ LeftScreened(a)

=============================================================================
