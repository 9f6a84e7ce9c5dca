------------------------ MODULE PipelineAlertsProofs ------------------------
(***************************************************************************)
(* Proofs about the screening pipeline and its alerts, for every number of *)
(* applications, tasks, replicas and faults.                               *)
(***************************************************************************)
EXTENDS PipelineAlerts, TLAPS

-----------------------------------------------------------------------------
(* What a step of a task does to the rows and the tasks.                    *)

Statuses == {"none", "applied", "screened", "interview_sent", "resume_rejected", "moved on"}
AppRows == [Apps -> [status : Statuses, failed : Tasks \union {0}, old : BOOLEAN]]

Stages == {"free", "queued", "taken", "screened", "inviting", "mailing", "parsing",
           "failing", "failing again", "done", "lost", "killed"}
TaskRows == [Tasks -> [app : Apps, at : Stages]]

(* ScreeningTypeOK, by the names above.                                     *)
LEMMA TypesByName ==
    ScreeningTypeOK <=> /\ app \in AppRows /\ session \subseteq Apps
                        /\ hook \in [Apps -> {"none", "sent", "checked", "over"}]
                        /\ task \in TaskRows /\ inbox \subseteq Tasks
                        /\ faults \in 0 .. MaxFaults
BY DEF ScreeningTypeOK, AppRows, TaskRows, Statuses, Stages

(* A fault stays within the bound.                                          *)
LEMMA FaultBounded == ASSUME faults \in 0 .. MaxFaults, Fault PROVE faults' \in 0 .. MaxFaults
BY ScreeningAssumption DEF Fault

(* A row that takes another status, failure or age is a row.                *)
LEMMA RowTyped ==
    ASSUME app \in AppRows, NEW a \in Apps, NEW s \in Statuses, NEW f \in Tasks
    PROVE  /\ [app EXCEPT ![a].status = s] \in AppRows
           /\ [app EXCEPT ![a] = [app[a] EXCEPT !.status = s]] \in AppRows
           /\ [app EXCEPT ![a].status = s, ![a].failed = f] \in AppRows
           /\ [app EXCEPT ![a].old = TRUE] \in AppRows
<1> DEFINE Rows == [status : Statuses, failed : Tasks \union {0}, old : BOOLEAN]
<1>1. \A b \in Apps : app[b] \in Rows
  BY DEF AppRows
<1>2. [app[a] EXCEPT !.status = s] \in Rows /\ [app[a] EXCEPT !.old = TRUE] \in Rows
      /\ [app[a] EXCEPT !.status = s, !.failed = f] \in Rows
  BY <1>1
<1> QED
  BY <1>1, <1>2 DEF AppRows

(* A task that was queued and goes on is still queued in this sense, for    *)
(* the same application, and no other task has moved.                       *)
LEMMA GoingOn ==
    ASSUME task \in TaskRows, NEW t \in Tasks, task[t].at # "free",
           NEW s \in Stages, s # "free", Goes(t, s)
    PROVE  /\ task' \in TaskRows
           /\ task'[t].at = s
           /\ \A u \in Tasks : task'[u].app = task[u].app
           /\ \A u \in Tasks : u # t => task'[u] = task[u]
           /\ \A a : Screenings(a)' = Screenings(a)
<1>1. \A u \in Tasks : u # t => task'[u] = task[u]
  BY DEF Goes, TaskRows
<1>2. task'[t] = [task[t] EXCEPT !.at = s]
  BY DEF Goes, TaskRows
<1>3. task[t] \in [app : Apps, at : Stages]
  BY DEF TaskRows
<1>4. task'[t].at = s /\ task'[t].app = task[t].app
  BY <1>2, <1>3
<1>5. task' \in TaskRows
  BY <1>3 DEF Goes, TaskRows
<1>6. ASSUME NEW a PROVE Screenings(a)' = Screenings(a)
  BY <1>1, <1>4 DEF Screenings
<1> QED
  BY <1>1, <1>4, <1>5, <1>6

-----------------------------------------------------------------------------
(* A candidate who was mailed is decided.                                   *)

\* From the decision to the end of the task, and for ever once the mail is
\* out, the application is decided, if this is its only task.
Stands(t) ==
    /\ t \in inbox => task[t].at \in {"parsing", "done", "killed"}
    /\ (t \in inbox \/ task[t].at \in {"inviting", "mailing", "parsing"})
       /\ Screenings(task[t].app) = {t} => Decided(task[t].app)

ScreeningInv == ScreeningTypeOK /\ \A t \in Tasks : Stands(t)

LEMMA StandsImpliesDecided == ScreeningInv => MailedIsDecided
<1> SUFFICES ASSUME ScreeningInv, NEW t \in inbox, Screenings(task[t].app) = {t}
             PROVE  Decided(task[t].app)
  BY DEF MailedIsDecided
<1>1. t \in Tasks
  BY DEF ScreeningInv, ScreeningTypeOK
<1> QED
  BY <1>1 DEF ScreeningInv, Stands

LEMMA ScreeningInitially == ScreeningInit => ScreeningInv
<1> SUFFICES ASSUME ScreeningInit PROVE ScreeningInv
  OBVIOUS
<1>1. (CHOOSE a \in Apps : TRUE) \in Apps
  BY ScreeningAssumption
<1>2. 0 \in 0 .. MaxFaults
  BY ScreeningAssumption
<1>3. task \in TaskRows
  BY <1>1 DEF ScreeningInit, TaskRows, Stages
<1>4. app \in AppRows
  BY DEF ScreeningInit, AppRows, Statuses
<1>5. ScreeningTypeOK
  BY <1>2, <1>3, <1>4, TypesByName DEF ScreeningInit
<1>6. ASSUME NEW t \in Tasks PROVE Stands(t)
  BY DEF ScreeningInit, Stands
<1> QED
  BY <1>5, <1>6 DEF ScreeningInv

(* What a step of task t has to show: the others of the same application    *)
(* are excused because of it, and those of another are not concerned.       *)
LEMMA OneTaskMoves ==
    ASSUME ScreeningInv, NEW t \in Tasks, task[t].at # "free",
           NEW s \in Stages, s # "free", Goes(t, s),
           \A a \in Apps : a # task[t].app => app'[a] = app[a],
           \A u \in Tasks : u # t => (u \in inbox' <=> u \in inbox),
           Stands(t)'
    PROVE  \A u \in Tasks : Stands(u)'
<1>types. task \in TaskRows
  BY TypesByName DEF ScreeningInv
<1>go. /\ \A u \in Tasks : u # t => task'[u] = task[u]
       /\ \A a : Screenings(a)' = Screenings(a)
  BY <1>types, GoingOn
<1> SUFFICES ASSUME NEW u \in Tasks, u # t PROVE Stands(u)'
  OBVIOUS
<1>0. Stands(u) /\ task'[u] = task[u] /\ (u \in inbox' <=> u \in inbox)
      /\ Screenings(task[u].app)' = Screenings(task[u].app) /\ task[u].app \in Apps
  BY <1>go, <1>types DEF ScreeningInv, TaskRows
<1>1. CASE task[u].app = task[t].app
  <2>1. t \in Screenings(task[u].app)
    BY <1>1 DEF Screenings
  <2> QED
    BY <1>0, <2>1 DEF Stands
<1>2. CASE task[u].app # task[t].app
  <2>1. app'[task[u].app] = app[task[u].app]
    BY <1>0, <1>2
  <2> QED
    BY <1>0, <2>1 DEF Stands, Decided
<1> QED
  BY <1>1, <1>2

(* And a step of nobody's task: who was decided still is, and there are no  *)
(* fewer tasks.                                                             *)
LEMMA NoTaskMoves ==
    ASSUME ScreeningInv, UNCHANGED inbox,
           \A a \in Apps : Decided(a) => Decided(a)',
           \A u \in Tasks : task'[u] = task[u] \/ (task[u].at = "free" /\ task'[u].at = "queued")
    PROVE  \A u \in Tasks : Stands(u)'
<1> SUFFICES ASSUME NEW u \in Tasks PROVE Stands(u)'
  OBVIOUS
<1>0. Stands(u) /\ task[u].app \in Apps
  BY TypesByName DEF ScreeningInv, TaskRows
<1>1. CASE task'[u] = task[u]
  <2>0. \A v \in Tasks : task[v].at # "free" => task'[v] = task[v]
    OBVIOUS
  <2>1. Screenings(task[u].app) \subseteq Screenings(task[u].app)'
    BY <1>1, <2>0 DEF Screenings
  <2>2. CASE u \in inbox \/ task[u].at \in {"inviting", "mailing", "parsing"}
    <3>1. u \in Screenings(task[u].app)
      BY <1>0, <2>2 DEF Screenings, Stands
    <3> QED
      BY <1>0, <1>1, <2>1, <2>2, <3>1 DEF Stands
  <2> QED
    BY <1>0, <1>1, <2>2 DEF Stands
<1>2. CASE task[u].at = "free" /\ task'[u].at = "queued"
  BY <1>0, <1>2 DEF Stands
<1> QED
  BY <1>1, <1>2

(* A step that leaves the screening alone, but for a fault.                 *)
LEMMA ScreeningRests ==
    ASSUME ScreeningInv, UNCHANGED <<app, session, hook, task, inbox>>, faults' \in 0 .. MaxFaults
    PROVE  ScreeningInv'
<1>1. ScreeningTypeOK'
  BY DEF ScreeningInv, ScreeningTypeOK
<1>2. \A u \in Tasks : Stands(u)'
  BY NoTaskMoves DEF Decided
<1> QED
  BY <1>1, <1>2 DEF ScreeningInv

LEMMA UpdatesTyped ==
    ASSUME ScreeningInv, NEW t \in Tasks, NEW s \in Statuses, NEW next \in Stages,
           Updates(t, [Row(t) EXCEPT !.status = s], next)
    PROVE  /\ app' \in AppRows /\ faults' \in 0 .. MaxFaults
           /\ \A a \in Apps : a # task[t].app => app'[a] = app[a]
           /\ \/ Goes(t, next) /\ app'[task[t].app].status = s
              \/ Goes(t, "failing")
<1>types. app \in AppRows /\ task[t].app \in Apps /\ faults \in 0 .. MaxFaults
  BY TypesByName DEF ScreeningInv, TaskRows
<1> DEFINE written == [app EXCEPT ![task[t].app] = [app[task[t].app] EXCEPT !.status = s]]
<1>1. written \in AppRows
  <2>1. ASSUME NEW f \in Tasks PROVE written \in AppRows
    BY <1>types, RowTyped
  <2> QED
    BY <2>1
<1>2. app' \in {app, written}
  BY DEF Updates, Row
<1>3. \A a \in Apps : a # task[t].app => written[a] = app[a]
  BY <1>types DEF AppRows
<1>4. written[task[t].app].status = s
  BY <1>types DEF AppRows
<1>5. faults' \in 0 .. MaxFaults
  BY <1>types, FaultBounded DEF Updates
<1>6. (Goes(t, next) /\ app' = written) \/ Goes(t, "failing")
  BY DEF Updates, Row
<1> HIDE DEF written
<1> QED
  BY <1>types, <1>1, <1>2, <1>3, <1>4, <1>5, <1>6

(* A step of a task keeps the invariant.                                    *)
LEMMA TaskStep ==
    ASSUME ScreeningInv, NEW t \in Tasks, Proceeds(t) \/ Killed(t)
    PROVE  ScreeningInv'
<1>types. /\ app \in AppRows /\ session \subseteq Apps /\ task \in TaskRows /\ task[t].app \in Apps
          /\ hook \in [Apps -> {"none", "sent", "checked", "over"}]
          /\ inbox \subseteq Tasks /\ faults \in 0 .. MaxFaults
  BY TypesByName DEF ScreeningInv, TaskRows
<1>stands. Stands(t)
  BY DEF ScreeningInv
\* What is left to show of each action.
<1>goes. ASSUME task[t].at # "free", NEW s \in Stages, s # "free", Goes(t, s), app' \in AppRows,
                \A a \in Apps : a # task[t].app => app'[a] = app[a],
                session' \subseteq Apps, UNCHANGED hook, faults' \in 0 .. MaxFaults,
                inbox' = inbox \/ inbox' = inbox \union {t},
                Stands(t)'
         PROVE  ScreeningInv'
  <2>1. task' \in TaskRows
    BY <1>types, <1>goes, GoingOn
  <2>2. \A u \in Tasks : u # t => (u \in inbox' <=> u \in inbox)
    BY <1>goes
  <2>3. \A u \in Tasks : Stands(u)'
    BY <1>goes, <2>2, OneTaskMoves
  <2>4. inbox' \subseteq Tasks
    BY <1>types, <1>goes
  <2>5. ScreeningTypeOK'
    BY <1>types, <1>goes, <2>1, <2>4 DEF ScreeningTypeOK, AppRows, TaskRows, Statuses, Stages
  <2> QED
    BY <2>3, <2>5 DEF ScreeningInv
\* The moving task's own part, while its row stays: its application has the
\* same tasks as before.
<1>same. ASSUME task[t].at # "free", NEW s \in Stages, s # "free", Goes(t, s)
         PROVE  /\ task'[t].at = s /\ task'[t].app = task[t].app
                /\ Screenings(task[t].app)' = Screenings(task[t].app)
  BY <1>types, <1>same, GoingOn
<1>1. CASE Take(t)
  BY <1>1, <1>types, <1>goes, <1>same, <1>stands DEF Take, Stands, Stages
<1>2. CASE WriteScreened(t)
  BY <1>2, <1>types, <1>goes, <1>same, <1>stands, UpdatesTyped DEF WriteScreened, Stands, Stages, Statuses
<1>3. CASE Advance(t)
  BY <1>3, <1>types, <1>goes, <1>same, <1>stands, UpdatesTyped DEF Advance, Stands, Stages, Statuses, Decided
<1>4. CASE InsertSession(t)
  BY <1>4, <1>types, <1>goes, <1>same, <1>stands, FaultBounded DEF InsertSession, Stands, Stages, Decided
<1>5. CASE Mail(t)
  BY <1>5, <1>types, <1>goes, <1>same, <1>stands, FaultBounded DEF Mail, Stands, Stages, Decided
<1>6. CASE StoreParsed(t)
  BY <1>6, <1>types, <1>goes, <1>same, <1>stands DEF StoreParsed, Stands, Stages, Decided
<1> DEFINE reset == [app EXCEPT ![task[t].app].status = "applied"]
           failed == [app EXCEPT ![task[t].app].status = "applied", ![task[t].app].failed = t]
<1>rows. /\ reset \in AppRows /\ failed \in AppRows
         /\ \A a \in Apps : a # task[t].app => reset[a] = app[a] /\ failed[a] = app[a]
  <2>1. "applied" \in Statuses
    BY DEF Statuses
  <2>2. reset \in AppRows /\ failed \in AppRows
    BY <1>types, <2>1, RowTyped
  <2> QED
    BY <1>types, <2>2 DEF AppRows
<1>7. CASE RecordFailure(t)
  <2>1. task[t].at = "failing" /\ UNCHANGED <<session, hook, inbox>>
    BY <1>7 DEF RecordFailure
  <2>2. app' \in {app, failed} /\ faults' \in 0 .. MaxFaults
    BY <1>7, <1>types, FaultBounded DEF RecordFailure
  <2>3. PICK s \in {"done", "failing again"} : Goes(t, s)
    BY <1>7 DEF RecordFailure
  <2> HIDE DEF failed, reset
  <2>4. app' \in AppRows /\ \A a \in Apps : a # task[t].app => app'[a] = app[a]
    BY <2>2, <1>rows, <1>types
  <2>5. s \in Stages /\ s # "free"
    BY DEF Stages
  <2>6. Stands(t)'
    BY <2>1, <2>3, <2>5, <1>same, <1>stands DEF Stands
  <2> QED
    BY <2>1, <2>2, <2>3, <2>4, <2>5, <2>6, <1>types, <1>goes
<1>8. CASE ResetOnly(t)
  <2>1. task[t].at = "failing again" /\ UNCHANGED <<session, hook, inbox>>
    BY <1>8 DEF ResetOnly
  <2>2. app' \in {app, reset} /\ faults' \in 0 .. MaxFaults
    BY <1>8, <1>types, FaultBounded DEF ResetOnly
  <2>3. PICK s \in {"done", "lost"} : Goes(t, s)
    BY <1>8 DEF ResetOnly
  <2> HIDE DEF failed, reset
  <2>4. app' \in AppRows /\ \A a \in Apps : a # task[t].app => app'[a] = app[a]
    BY <2>2, <1>rows, <1>types
  <2>5. s \in Stages /\ s # "free"
    BY DEF Stages
  <2>6. Stands(t)'
    BY <2>1, <2>3, <2>5, <1>same, <1>stands DEF Stands
  <2> QED
    BY <2>1, <2>2, <2>3, <2>4, <2>5, <2>6, <1>types, <1>goes
<1>9. CASE Killed(t)
  BY <1>9, <1>types, <1>goes, <1>same, <1>stands, FaultBounded DEF Killed, Working, Stands, Stages, Decided
<1> QED
  BY <1>1, <1>2, <1>3, <1>4, <1>5, <1>6, <1>7, <1>8, <1>9 DEF Proceeds

(* And so does every other step of Screening.                               *)
LEMMA ScreeningStep == ScreeningInv /\ ScreeningNext => ScreeningInv'
<1> SUFFICES ASSUME ScreeningInv, ScreeningNext PROVE ScreeningInv'
  OBVIOUS
<1>types. /\ app \in AppRows /\ session \subseteq Apps /\ task \in TaskRows
          /\ hook \in [Apps -> {"none", "sent", "checked", "over"}]
          /\ inbox \subseteq Tasks /\ faults \in 0 .. MaxFaults
  BY TypesByName DEF ScreeningInv
<1>types2. ASSUME app' \in AppRows, task' \in TaskRows, faults' \in 0 .. MaxFaults,
                  hook' \in [Apps -> {"none", "sent", "checked", "over"}],
                  UNCHANGED <<session, inbox>>
           PROVE  ScreeningTypeOK'
  BY <1>types, <1>types2 DEF ScreeningTypeOK, AppRows, TaskRows, Statuses, Stages
<1>delay. ASSUME NEW a \in Apps, Delay(a)
          PROVE  /\ task' \in TaskRows
                 /\ \A u \in Tasks : task'[u] = task[u] \/ (task[u].at = "free" /\ task'[u].at = "queued")
  <2>1. PICK t \in Tasks : task[t].at = "free" /\ task' = [task EXCEPT ![t] = [app |-> a, at |-> "queued"]]
    BY <1>delay DEF Delay
  <2>2. [app |-> a, at |-> "queued"] \in [app : Apps, at : Stages]
    BY DEF Stages
  <2>3. task' \in TaskRows
    BY <1>types, <2>1, <2>2 DEF TaskRows
  <2>4. ASSUME NEW u \in Tasks, u # t PROVE task'[u] = task[u]
    BY <1>types, <2>1, <2>4 DEF TaskRows
  <2>5. task'[t] = [app |-> a, at |-> "queued"]
    BY <1>types, <2>1 DEF TaskRows
  <2> QED
    BY <2>1, <2>3, <2>4, <2>5
<1>hook. ASSUME NEW a \in Apps
         PROVE  \A h \in {"none", "sent", "checked", "over"} :
                   [hook EXCEPT ![a] = h] \in [Apps -> {"none", "sent", "checked", "over"}]
  BY <1>types
<1>1. CASE \E a \in Apps : Submit(a)
  <2>1. PICK a \in Apps : Submit(a)
    BY <1>1
  <2>2. "applied" \in Statuses /\ app' = [app EXCEPT ![a].status = "applied"]
    BY <2>1 DEF Submit, Statuses
  <2>3. app' \in AppRows /\ \A b \in Apps : b # a => app'[b] = app[b]
    BY <1>types, <2>2 DEF AppRows
  <2>4. \A b \in Apps : Decided(b) => Decided(b)'
    BY <2>1, <2>3 DEF Submit, Decided
  <2>5. \A u \in Tasks : Stands(u)'
    BY <2>1, <2>4, NoTaskMoves DEF Submit
  <2> QED
    BY <2>1, <2>3, <2>5, <1>types, <1>types2, <1>hook DEF Submit, ScreeningInv
<1>2. CASE \E a \in Apps : GrowsOld(a)
  <2>1. PICK a \in Apps : GrowsOld(a)
    BY <1>2
  <2>2. app' = [app EXCEPT ![a].old = TRUE]
    BY <2>1 DEF GrowsOld
  <2>3. app' \in AppRows /\ \A b \in Apps : app'[b].status = app[b].status
    BY <1>types, <2>2 DEF AppRows
  <2>4. \A u \in Tasks : Stands(u)'
    BY <2>1, <2>3, NoTaskMoves DEF GrowsOld, Decided
  <2> QED
    BY <2>1, <2>3, <2>4, <1>types, <1>types2 DEF GrowsOld, ScreeningInv
<1>3. CASE \E a \in Apps : MovesOn(a)
  <2>1. PICK a \in Apps : MovesOn(a)
    BY <1>3
  <2>2. "moved on" \in Statuses /\ app' = [app EXCEPT ![a].status = "moved on"]
    BY <2>1 DEF MovesOn, Statuses
  <2>3. app' \in AppRows /\ app'[a].status = "moved on" /\ \A b \in Apps : b # a => app'[b] = app[b]
    BY <1>types, <2>2 DEF AppRows
  <2>4. \A b \in Apps : Decided(b) => Decided(b)'
    BY <2>3 DEF Decided
  <2>5. \A u \in Tasks : Stands(u)'
    BY <2>1, <2>4, NoTaskMoves DEF MovesOn
  <2> QED
    BY <2>1, <2>3, <2>5, <1>types, <1>types2 DEF MovesOn, ScreeningInv
<1>4. CASE \E a \in Apps : HookReads(a) \/ HookLost(a)
  <2>1. PICK a \in Apps : HookReads(a) \/ HookLost(a)
    BY <1>4
  <2>2. hook' \in [Apps -> {"none", "sent", "checked", "over"}]
    BY <2>1, <1>hook DEF HookReads, HookLost
  <2>3. \A u \in Tasks : Stands(u)'
    BY <2>1, NoTaskMoves DEF HookReads, HookLost, Decided
  <2> QED
    BY <2>1, <2>2, <2>3, <1>types, <1>types2, FaultBounded DEF HookReads, HookLost, ScreeningInv
<1>5. CASE \E a \in Apps : HookQueues(a) \/ trigger_screening(a)
  <2>1. PICK a \in Apps : HookQueues(a) \/ trigger_screening(a)
    BY <1>5
  <2>2. Delay(a) /\ UNCHANGED <<app, session, inbox, faults>>
        /\ hook' \in [Apps -> {"none", "sent", "checked", "over"}]
    BY <2>1, <1>hook, <1>types DEF HookQueues, trigger_screening
  <2>3. \A u \in Tasks : Stands(u)'
    BY <2>2, <1>delay, NoTaskMoves DEF Decided
  <2> QED
    BY <2>2, <2>3, <1>types, <1>types2, <1>delay DEF ScreeningInv
<1>6. CASE \E t \in Tasks : Proceeds(t) \/ Killed(t)
  BY <1>6, TaskStep
<1> QED
  BY <1>1, <1>2, <1>3, <1>4, <1>5, <1>6 DEF ScreeningNext, Outside, Webhook

-----------------------------------------------------------------------------
(* Alerts.                                                                  *)

CheckRow == [at : {"idle", "locked", "found", "fresh", "mailed", "over"},
             issues : SUBSET IssueKeys, fresh : SUBSET IssueKeys]

AlertTypes ==
    /\ lock \in BOOLEAN /\ mishap \in BOOLEAN /\ repeated \in BOOLEAN
    /\ sent \subseteq IssueKeys /\ told \subseteq IssueKeys /\ resolved \subseteq IssueKeys
    /\ check \in [Replicas -> CheckRow]

\* A check mails what it is about to record, but for what others have mailed.
ToldBefore(r) ==
    /\ check[r].at = "fresh" => check[r].fresh \subseteq check[r].issues
                               /\ check[r].issues \ check[r].fresh \subseteq told
    /\ check[r].at = "mailed" => check[r].issues \subseteq told

\* Without a mishap there is one check at most, under the lock; what it is
\* going to mail is not recorded, and what was mailed is, or was resolved, or
\* is about to be recorded.
OneAtATime ==
    /\ \A r \in Replicas : check[r] # Idle => lock
    /\ \A r, q \in Replicas : check[r] # Idle /\ check[q] # Idle => r = q

Accounted ==
    /\ \A r \in Replicas : check[r].at = "fresh" => check[r].fresh \intersect sent = {}
    /\ \A i \in told : \/ i \in sent \/ i \in resolved
                       \/ \E r \in Replicas : check[r].at = "mailed" /\ i \in check[r].issues

AlertInv ==
    /\ AlertTypes
    /\ sent \subseteq told
    /\ \A r \in Replicas : ToldBefore(r)
    /\ mishap \/ (OneAtATime /\ Accounted /\ ~repeated)

LEMMA AlertInvImpliesExact == AlertInv => AlertsAreExact
BY DEF AlertInv, AlertsAreExact

LEMMA AlertsInitially == AlertInit => AlertInv
<1> SUFFICES ASSUME AlertInit PROVE AlertInv
  OBVIOUS
<1>1. Idle \in CheckRow
  BY DEF Idle, CheckRow
<1>2. AlertTypes
  BY <1>1 DEF AlertInit, AlertTypes
<1>3. \A r \in Replicas : check[r] = Idle /\ check[r].at = "idle"
  BY DEF AlertInit, Idle
<1> QED
  BY <1>2, <1>3 DEF AlertInit, AlertInv, ToldBefore, OneAtATime, Accounted

LEMMA IssuesTyped == ASSUME app \in AppRows PROVE Issues \subseteq IssueKeys
BY DEF AppRows, Issues, IssueKeys

\* A replica's check takes its next step: its row, and no other.
LEMMA CheckMoves ==
    ASSUME check \in [Replicas -> CheckRow], NEW r \in Replicas, NEW c \in CheckRow,
           check' = [check EXCEPT ![r] = c]
    PROVE  /\ check' \in [Replicas -> CheckRow]
           /\ check'[r] = c
           /\ \A q \in Replicas : q # r => check'[q] = check[q]
OBVIOUS

\* What a step that moves the check of one replica has to show.
LEMMA CheckStep ==
    ASSUME AlertInv, NEW r \in Replicas,
           check' \in [Replicas -> CheckRow],
           \A q \in Replicas : q # r => check'[q] = check[q],
           lock' \in BOOLEAN, mishap' \in BOOLEAN, repeated' \in BOOLEAN,
           sent' \subseteq IssueKeys, told' \subseteq IssueKeys, resolved' \subseteq IssueKeys,
           sent' \subseteq told', told \subseteq told',
           ToldBefore(r)',
           mishap' \/ (OneAtATime /\ Accounted /\ ~repeated)'
    PROVE  AlertInv'
<1>1. \A q \in Replicas : ToldBefore(q)'
  BY DEF AlertInv, ToldBefore
<1> QED
  BY <1>1 DEF AlertInv, AlertTypes

(* Every action of a check keeps the invariant.                             *)
LEMMA ReplicaStep ==
    ASSUME AlertInv, app \in AppRows, NEW r \in Replicas,
           Lock(r) \/ Checks(r) \/ CheckFails(r) \/ Restart(r)
    PROVE  AlertInv'
<1>types. /\ lock \in BOOLEAN /\ mishap \in BOOLEAN /\ repeated \in BOOLEAN
          /\ sent \subseteq IssueKeys /\ told \subseteq IssueKeys /\ resolved \subseteq IssueKeys
          /\ check \in [Replicas -> CheckRow] /\ check[r] \in CheckRow
          /\ sent \subseteq told /\ ToldBefore(r)
          /\ mishap \/ (OneAtATime /\ Accounted /\ ~repeated)
  BY DEF AlertInv, AlertTypes
<1>rows. /\ Idle \in CheckRow /\ Over \in CheckRow
         /\ Idle.at = "idle" /\ Over.at = "over"
  BY DEF Idle, Over, CheckRow
<1>1. CASE Lock(r)
  <2>1. check[r] = Idle /\ ~lock /\ lock' /\ lock' \in BOOLEAN
        /\ UNCHANGED <<sent, told, resolved, repeated, mishap>>
    BY <1>1 DEF Lock
  <2> DEFINE c == [check[r] EXCEPT !.at = "locked"]
  <2>2. c \in CheckRow /\ c.at = "locked"
    BY <1>types DEF CheckRow
  <2>3. check' = [check EXCEPT ![r] = c]
    BY <1>1, <1>types DEF Lock
  <2> HIDE DEF c
  <2>4. /\ check' \in [Replicas -> CheckRow] /\ check'[r].at = "locked"
        /\ \A q \in Replicas : q # r => check'[q] = check[q]
    BY <1>types, <2>2, <2>3, CheckMoves
  <2>5. OneAtATime /\ Accounted => (OneAtATime /\ Accounted)'
    BY <1>rows, <2>1, <2>4 DEF OneAtATime, Accounted
  <2> QED
    BY <1>types, <2>1, <2>4, <2>5, CheckStep DEF ToldBefore
<1>2. CASE find_issues(r)
  <2>1. check[r].at = "locked" /\ UNCHANGED <<lock, sent, told, resolved, repeated, mishap>>
    BY <1>2 DEF find_issues
  <2> DEFINE c == [at |-> "found", issues |-> Issues, fresh |-> {}]
  <2>2. c \in CheckRow /\ c.at = "found"
    BY IssuesTyped DEF CheckRow
  <2>3. check' = [check EXCEPT ![r] = c]
    BY <1>2 DEF find_issues
  <2> HIDE DEF c
  <2>4. /\ check' \in [Replicas -> CheckRow] /\ check'[r].at = "found"
        /\ \A q \in Replicas : q # r => check'[q] = check[q]
    BY <1>types, <2>2, <2>3, CheckMoves
  <2>5. OneAtATime /\ Accounted => (OneAtATime /\ Accounted)'
    BY <1>rows, <2>1, <2>4 DEF OneAtATime, Accounted
  <2> QED
    BY <1>types, <2>1, <2>4, <2>5, CheckStep DEF ToldBefore
<1>3. CASE unalerted(r)
  <2>1. check[r].at = "found" /\ UNCHANGED <<lock, sent, told, resolved, repeated, mishap>>
    BY <1>3 DEF unalerted
  <2> DEFINE f == check[r].issues \ sent
             c == [check[r] EXCEPT !.fresh = f, !.at = IF f = {} THEN "mailed" ELSE "fresh"]
  <2>2. /\ c \in CheckRow
        /\ c.at \in {"mailed", "fresh"} /\ c.issues = check[r].issues /\ c.fresh = f
        /\ c.at = "mailed" => f = {}
    BY <1>types DEF CheckRow
  <2>3. check' = [check EXCEPT ![r] = c]
    BY <1>3, <1>types DEF unalerted
  <2>f. f = check[r].issues \ sent
    OBVIOUS
  <2> HIDE DEF c, f
  <2>4. /\ check' \in [Replicas -> CheckRow] /\ check'[r] = c
        /\ \A q \in Replicas : q # r => check'[q] = check[q]
    BY <1>types, <2>2, <2>3, CheckMoves
  <2>5. ToldBefore(r)'
    BY <1>types, <2>1, <2>2, <2>4, <2>f DEF ToldBefore
  <2>6. OneAtATime /\ Accounted => (OneAtATime /\ Accounted)'
    BY <1>rows, <2>1, <2>2, <2>4, <2>f DEF OneAtATime, Accounted
  <2> QED
    BY <1>types, <2>1, <2>4, <2>5, <2>6, CheckStep
<1>4. CASE send_pipeline_alert(r)
  <2>1. check[r].at = "fresh" /\ UNCHANGED <<lock, sent, mishap>> /\ Mailed(r)
    BY <1>4 DEF send_pipeline_alert
  <2> DEFINE c == [check[r] EXCEPT !.at = "mailed", !.fresh = {}]
  <2>2. c \in CheckRow /\ c.at = "mailed" /\ c.issues = check[r].issues
    BY <1>types DEF CheckRow
  <2>3. check' = [check EXCEPT ![r] = c]
    BY <1>4, <1>types DEF send_pipeline_alert
  <2> HIDE DEF c
  <2>4. /\ check' \in [Replicas -> CheckRow] /\ check'[r] = c
        /\ \A q \in Replicas : q # r => check'[q] = check[q]
    BY <1>types, <2>2, <2>3, CheckMoves
  <2>5. told' = told \union check[r].fresh /\ resolved' = resolved \ check[r].fresh
        /\ repeated' \in BOOLEAN
        /\ ((\A i \in check[r].fresh : i \notin told \ resolved) => repeated' = repeated)
        /\ check[r].fresh \subseteq IssueKeys
    BY <1>types, <2>1 DEF Mailed, CheckRow
  <2>6. ToldBefore(r)'
    BY <1>types, <2>1, <2>2, <2>4, <2>5 DEF ToldBefore
  <2>7. ASSUME OneAtATime, Accounted, ~repeated PROVE (OneAtATime /\ Accounted /\ ~repeated)'
    <3>1. OneAtATime'
      BY <1>rows, <2>1, <2>4, <2>7 DEF OneAtATime
    <3>2. \A q \in Replicas : q # r => check[q].at \notin {"fresh", "mailed"}
      BY <1>rows, <2>1, <2>7 DEF OneAtATime
    <3>3. \A i \in check[r].fresh : i \notin told \ resolved
      BY <2>1, <2>7, <3>2 DEF Accounted
    <3>4. check[r].fresh \subseteq check[r].issues
      BY <1>types, <2>1 DEF ToldBefore
    <3>5. Accounted'
      BY <2>1, <2>2, <2>4, <2>5, <2>7, <3>2, <3>4 DEF Accounted
    <3> QED
      BY <2>5, <2>7, <3>1, <3>3, <3>5
  <2> QED
    BY <1>types, <2>1, <2>4, <2>5, <2>6, <2>7, CheckStep
<1>5. CASE Record(r)
  <2>1. /\ check[r].at = "mailed" /\ UNCHANGED <<lock, told, repeated, mishap>>
        /\ sent' = check[r].issues /\ resolved' = resolved \union (told \ check[r].issues)
        /\ check' = [check EXCEPT ![r] = Over]
    BY <1>5 DEF Record
  <2>2. /\ check' \in [Replicas -> CheckRow] /\ check'[r] = Over
        /\ \A q \in Replicas : q # r => check'[q] = check[q]
    BY <1>types, <1>rows, <2>1, CheckMoves
  <2>3. sent' \subseteq IssueKeys /\ resolved' \subseteq IssueKeys /\ sent' \subseteq told'
    BY <1>types, <2>1 DEF CheckRow, ToldBefore
  <2>4. ASSUME OneAtATime, Accounted PROVE (OneAtATime /\ Accounted)'
    <3>1. OneAtATime'
      BY <1>rows, <2>1, <2>2, <2>4 DEF OneAtATime
    <3>2. \A q \in Replicas : q # r => check[q].at # "fresh"
      BY <1>rows, <2>1, <2>4 DEF OneAtATime
    <3>3. Accounted'
      BY <1>rows, <2>1, <2>2, <3>2 DEF Accounted
    <3> QED
      BY <3>1, <3>3
  <2> QED
    BY <1>types, <1>rows, <2>1, <2>2, <2>3, <2>4, CheckStep DEF ToldBefore
<1>6. CASE CheckFails(r)
  <2>1. /\ check[r].at \in {"locked", "found", "fresh", "mailed"}
        /\ check' = [check EXCEPT ![r] = Over] /\ UNCHANGED <<lock, sent>>
    BY <1>6 DEF CheckFails
  <2>2. /\ check' \in [Replicas -> CheckRow] /\ check'[r] = Over
        /\ \A q \in Replicas : q # r => check'[q] = check[q]
    BY <1>types, <1>rows, <2>1, CheckMoves
  <2>3. CASE mishap' = TRUE /\ Mailed(r)
    <3>1. told \subseteq told' /\ told' \subseteq IssueKeys /\ resolved' \subseteq IssueKeys
          /\ repeated' \in BOOLEAN
      BY <1>types, <2>3 DEF Mailed, CheckRow
    <3> QED
      BY <1>types, <1>rows, <2>1, <2>2, <2>3, <3>1, CheckStep DEF ToldBefore
  <2>4. CASE mishap' = (mishap \/ check[r].at = "mailed") /\ UNCHANGED <<told, resolved, repeated>>
    <3>1. ASSUME OneAtATime, Accounted, check[r].at # "mailed" PROVE (OneAtATime /\ Accounted)'
      BY <1>rows, <2>1, <2>2, <2>4, <3>1 DEF OneAtATime, Accounted
    <3>2. mishap' \in BOOLEAN
      BY <1>types, <2>4
    <3> QED
      BY <1>types, <1>rows, <2>1, <2>2, <2>4, <3>1, <3>2, CheckStep DEF ToldBefore
  <2> QED
    BY <1>6, <2>3, <2>4 DEF CheckFails
<1>7. CASE Release(r)
  <2>1. /\ check[r].at = "over" /\ check' = [check EXCEPT ![r] = Idle] /\ lock' = FALSE
        /\ UNCHANGED <<sent, told, resolved, repeated, mishap>>
    BY <1>7 DEF Release
  <2>2. /\ check' \in [Replicas -> CheckRow] /\ check'[r] = Idle
        /\ \A q \in Replicas : q # r => check'[q] = check[q]
    BY <1>types, <1>rows, <2>1, CheckMoves
  <2>3. ASSUME OneAtATime, Accounted PROVE (OneAtATime /\ Accounted)'
    <3>1. \A q \in Replicas : check'[q] = Idle
      BY <1>rows, <2>1, <2>2, <2>3 DEF OneAtATime
    <3>2. Accounted'
      BY <1>rows, <2>1, <2>2, <2>3, <3>1 DEF Accounted
    <3> QED
      BY <3>1, <3>2 DEF OneAtATime
  <2> QED
    BY <1>types, <1>rows, <2>1, <2>2, <2>3, CheckStep DEF ToldBefore
<1>8. CASE Restart(r)
  <2>1. /\ check' = [check EXCEPT ![r] = Idle] /\ mishap' = (mishap \/ check[r].at = "mailed")
        /\ UNCHANGED <<lock, sent, told, resolved, repeated>>
    BY <1>8 DEF Restart
  <2>2. /\ check' \in [Replicas -> CheckRow] /\ check'[r] = Idle
        /\ \A q \in Replicas : q # r => check'[q] = check[q]
    BY <1>types, <1>rows, <2>1, CheckMoves
  <2>3. ASSUME OneAtATime, Accounted, check[r].at # "mailed" PROVE (OneAtATime /\ Accounted)'
    BY <1>rows, <2>1, <2>2, <2>3 DEF OneAtATime, Accounted
  <2>4. mishap' \in BOOLEAN
    BY <1>types, <2>1
  <2> QED
    BY <1>types, <1>rows, <2>1, <2>2, <2>3, <2>4, CheckStep DEF ToldBefore
<1> QED
  BY <1>1, <1>2, <1>3, <1>4, <1>5, <1>6, <1>7, <1>8 DEF Checks

-----------------------------------------------------------------------------
(* The pipeline as a whole.                                                 *)

PipelineInv == ScreeningInv /\ AlertInv

LEMMA PipelineInitially == PipelineInit => PipelineInv
BY ScreeningInitially, AlertsInitially DEF PipelineInit, PipelineInv

\* A step of the screening or of nobody: the alerts stay as they are.
LEMMA AlertsRest == ASSUME AlertInv, UNCHANGED alertVars PROVE AlertInv'
BY DEF alertVars, AlertInv, AlertTypes, ToldBefore, OneAtATime, Accounted

LEMMA LockExpiring == ASSUME AlertInv, LockExpires PROVE AlertInv'
<1>types. AlertTypes /\ (mishap \/ (OneAtATime /\ Accounted /\ ~repeated))
  BY DEF AlertInv
<1>1. /\ lock' = FALSE /\ UNCHANGED <<sent, check, told, resolved, repeated>>
      /\ mishap' = (mishap \/ \E r \in Replicas : check[r] # Idle)
  BY DEF LockExpires
<1>2. AlertTypes'
  BY <1>types, <1>1 DEF AlertTypes
<1>3. ~mishap' => \A r \in Replicas : check[r] = Idle
  BY <1>1
<1>4. mishap' \/ (OneAtATime /\ Accounted /\ ~repeated)'
  BY <1>types, <1>1, <1>3 DEF OneAtATime, Accounted
<1> QED
  BY <1>1, <1>2, <1>4 DEF AlertInv, ToldBefore

LEMMA PipelineStep == PipelineInv /\ [PipelineNext]_pipelineVars => PipelineInv'
<1> SUFFICES ASSUME PipelineInv, [PipelineNext]_pipelineVars PROVE PipelineInv'
  OBVIOUS
<1>types. ScreeningInv /\ AlertInv /\ app \in AppRows /\ faults \in 0 .. MaxFaults
  BY TypesByName DEF PipelineInv, ScreeningInv
<1>1. CASE ScreeningNext /\ UNCHANGED alertVars
  BY <1>1, <1>types, ScreeningStep, AlertsRest DEF PipelineInv
<1>2. CASE \E r \in Replicas : Lock(r) \/ Checks(r) \/ CheckFails(r) \/ Restart(r)
  <2>1. AlertInv'
    BY <1>2, <1>types, ReplicaStep
  <2>2. UNCHANGED <<app, session, hook, task, inbox>> /\ (UNCHANGED faults \/ Fault)
    BY <1>2 DEF Lock, Checks, CheckFails, Restart, find_issues, unalerted, send_pipeline_alert,
                Record, Release, screeningVars
  <2>3. faults' \in 0 .. MaxFaults
    BY <2>2, <1>types, FaultBounded
  <2> QED
    BY <2>1, <2>2, <2>3, <1>types, ScreeningRests DEF PipelineInv
<1>3. CASE LockExpires
  BY <1>3, <1>types, LockExpiring, ScreeningRests DEF PipelineInv, LockExpires, screeningVars
<1>4. CASE UNCHANGED pipelineVars
  BY <1>4, <1>types, AlertsRest, ScreeningRests DEF PipelineInv, pipelineVars, screeningVars
<1> QED
  BY <1>1, <1>2, <1>3, <1>4 DEF PipelineNext

(* The invariant that carries the three theorems below.                     *)
THEOREM PipelineInvariant == PipelineSpec => []PipelineInv
BY PipelineInitially, PipelineStep, PTL DEF PipelineSpec

(* Every variable of the pipeline has its type.                             *)
THEOREM PipelineTypes == PipelineSpec => []PipelineTypeOK
<1>1. PipelineInv => PipelineTypeOK
  BY DEF PipelineInv, ScreeningInv, AlertInv, AlertTypes, PipelineTypeOK, CheckRow
<1> QED
  BY <1>1, PipelineInvariant, PTL

(* Whatever fails after the decision, a candidate who was mailed by the     *)
(* only screening of an application is not put back among the unscreened    *)
(* (screen_resume_task).                                                    *)
THEOREM MailedAreDecided == PipelineSpec => []MailedIsDecided
<1>1. PipelineInv => MailedIsDecided
  BY StandsImpliesDecided DEF PipelineInv
<1> QED
  BY <1>1, PipelineInvariant, PTL

(* The issues recorded as alerted were mailed, and none is mailed twice     *)
(* without having been resolved, but for a check that was cut off between   *)
(* its mail and its record or that outlived its lock (run_alert_check).     *)
THEOREM AlertsStayExact == PipelineSpec => []AlertsAreExact
<1>1. PipelineInv => AlertsAreExact
  BY AlertInvImpliesExact DEF PipelineInv
<1> QED
  BY <1>1, PipelineInvariant, PTL

=============================================================================
