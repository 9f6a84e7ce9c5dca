# int.ai — TLA+ models, model checks and proofs

int.ai screens resumes, invites candidates to an interview that a voice agent
conducts over LiveKit, evaluates the transcript and moves the application
along.  This directory models the parts of it that are concurrent or stateful
enough to go wrong: what TLC checks on small instances and what TLAPS proves
for every instance.  `PROJECT.json` maps each definition to the source lines it
stands for; the paths below are relative to `src/`.

Contents: [1 inventory](#1-inventory) · [2 modules](#2-modules) ·
[3 runs](#3-runs) · [4 fairness](#4-fairness) · [5 proofs](#5-proofs) ·
[6 divergences](#6-divergences-between-code-and-documents) ·
[7 limits](#7-what-is-not-modelled) · [8 plan](#8-plan)

## 1 Inventory

The program is a Next.js front end, a FastAPI back end, Celery workers on a
Redis broker, and LiveKit agent processes.  They share one Postgres database
(Supabase) through single-statement calls: **no code path opens a transaction,
and only the pipeline alerts take a lock** (in Redis, and it expires), so every
handler that reads a row and writes it later may find another process in
between.  The pages write to the database from the browser, too, and act on
what they loaded.

| part | state | operations | talks to | what is hard | what makes it correct |
|---|---|---|---|---|---|
| Interview session (`api/interview.py`, `interview/session_manager.py`, the interview pages) | row of `interview_sessions`: status, `questions_asked`, deadline | my-session (load, reset, insert), create-room, end-session, terminate-abandoned | tabs, LiveKit, agent | check-then-act over awaits, two tabs, late beacon, deadline | a closed session never reopens; a live one is never reset |
| Interview agent, end of interview (`interview/agent.py`) | controller: answers, `ended`, termination | answer a question, finish, terminate | session row, application, broker | `finish()` is called from five places and writes four times | what is sent for evaluation has answers; a terminated interview is settled whichever ending runs first |
| Evaluation (`tasks/evaluate_interview.py`, `interview/evaluator.py`) | report row, application status, mails | run, fail, time out, mail, re-run by staff | broker, model, mail | two runs at once, kill between two writes | decision = report; one mail per evaluation; every completed interview is evaluated |
| Conductor (`interview/entrypoint.py`) | a dozen mutable cells of one event loop | silence timer, grace, confirmations, advance, repeat, watchdog, tab switch, disconnect | LiveKit events, question generator, controller | coroutines interleave at every await, stale task handles | each question recorded once and in order, nothing after the end, never stuck |
| Question generator (`interview/question_gen.py`) | counters of open slots, project and custom questions | next question | model, conductor | rounding, failures in the middle | project questions keep the template's share, evenly |
| Screening (`tasks/screen_resume.py`, `api/webhooks.py`, `api/screening.py`) | application status and scores, session row | webhook, trigger, screen, record the failure | broker, model, mail | duplicate delivery, stale triggers, a kill between two writes, failure after the mail | who was mailed stays decided; who was not decided is not forgotten |
| Pipeline alerts (`services/pipeline_health.py`) | Redis lock and set of alerted issues | hourly check in every API replica | Redis, database, mail | lock expiry, mail before record | each issue told once, none forgotten |
| Job posts (migrations 005 and 034, `mcp/server.py`, the job page, its dialogs and forms) | status, `closes_at`; template, post and private row | publish, close, archive, edit, reopen, auto-close | cron, other members | stale page, three inserts | nobody's click undoes what others did |
| Submission (`api/applications.py`, the apply page) | candidate, application, uploaded resume | load, upload, submit | job post, storage | two submissions at once, lost answers, a second upload | one application per candidate and post; the page says what is so |
| Candidate table (`candidate-table.tsx`, `candidates-realtime.tsx`) | rows, ticks, filters, bulk action | load, live feed, tick, bulk actions | database, mail | refetches out of order, actions over old rows | what is shown is true; nobody is pushed back |
| Candidate's page, mail section, row buttons | attempts, drafts, buttons | decide, mail, re-screen, download | API | three reads at different times, dialogs closed under a request | transcripts are complete, a draft goes to its audience, nothing that was done is asked for again |
| Lobby, session page and room | session storage, countdown | check, start, enter, leave, end | API, LiveKit | two starts, many ways out, answers to pages already left, late messages | a room is entered once, but after the header's link and the like; the countdown is the agent's; one end |
| Sign-in (`middleware.ts`, layouts, login page, the listener for dead sessions) | tokens, navigation under way | visit, log in, sign out, expire | auth service | a session that dies between two checks | nobody without a session stays |
| Access lists (`api/team.py`, `api/client_access.py`, `api/api_keys.py` and their cards) | members, grants, keys | invite, role, deactivate, grant, revoke, create | database | answers that patch or replace one list | the list is true |
| Settings and templates (`settings/page.tsx`, `templates-client.tsx`) | defaults, retention, templates | load, save, create, clone, edit, delete | database | a form edited while it is loaded or saved | saved is stored; the list is true |
| Mail, storage, usage, reports, MCP reads | single rows | one write per request | – | little | – |

Everything in the table is also a component in `PROJECT.json` with what is
modelled of it or why it is not; the hazards are listed there line by line.

How the parts meet: a submission fires the database's webhook, which queues a
screening; screening leaves an application `interview_sent` with a
`pending` session; the lobby loads it (my-session), entering makes a room
(create-room) and sets `in_progress`; LiveKit dispatches the agent, whose
conductor asks the generator for questions and hands each answer to the
controller; `finish()` writes the session, moves the application and queues an
evaluation; a worker scores, writes the report and the decision, and mails.
What fails on the way is found by the hourly check, which mails the admins; what
does not, staff see in the table, which follows the rows by a live feed.

## 2 Modules

| module | what it is |
|---|---|
| `InterviewSession` | one application's session across tabs, API, agent jobs, workers and staff |
| `InterviewSessionProofs` | its theorems |
| `InterviewProtocol` | abstract: greeting, questions recorded one by one, farewell, end |
| `InterviewConductor` | the event loop of one agent; implements `InterviewProtocol` |
| `InterviewConductorProofs` | its theorems, the refinement among them |
| `QuestionGenerator` | which kind of question each slot gets |
| `QuestionGeneratorProofs` | its theorems |
| `Screening` | an application from its submission to the decision on its resume |
| `PipelineAlerts` | the hourly check of every replica, over `Screening` |
| `PipelineAlertsProofs` | theorems of both |
| `CandidateTable`, `StaffWidgets`, `CandidateMailer`, `CandidateReport` | what staff see of candidates and do to them |
| `JobPosting`, `JobForms`, `JobList`, `Templates`, `StaffSettings`, `AccessLists` | what staff manage |
| `Applying`, `InterviewLobby`, `InterviewRoom`, `SignIn` | what a candidate goes through |
| `Lists` | what the pages do to their arrays: filter and sort |
| `CandidateDeskProofs` | theorems of the four modules on candidates, and lemmas on `Lists` |
| `StaffPagesProofs` | theorems of the six modules on what staff manage |
| `CandidatePathProofs` | theorems of the four modules on a candidate's way |
| `WebPages` | the fourteen pages, each on its own |
| `WebPagesProofs` | that their composition keeps each page's specification, and the types |
| `MC…` | the instances TLC explores |

### InterviewSession

`session` is the row (one per application: `application_id` is UNIQUE),
`app` the application's status, `tab` what each browser tab shows and which API
call it has in flight, `job` the agent jobs with the controller's progress,
`queue` and `worker` the broker and the Celery workers.  Each read-then-write
handler is split where it awaits or where another process may commit:

| code | actions |
|---|---|
| `get_my_session` | `LoadSession`, then `ResetSession` or `InsertSession` |
| `create_room`, `start_session_from_existing` | `CreateRoomRead`, `CreateRoomLiveKit`, `CreateRoomWrite` |
| `end_session_route` | `EndSessionRead`, `EndSessionWrite` |
| `terminate_abandoned` and the page's beacon | `Unload`, `BeaconArrives` |
| `InterviewController.finish` | `FinishRead`, `FinishReset`, `FinishWrite`, `FinishSync`, `FinishSend` |
| tab-switch termination | `HideTab`, `TabSwitchRun` |
| `evaluate_interview_task` | `TaskTake`, `ScoreOk`/`ScoreFail`, `RecordDecision`, `FailSession`, `FailApp`, `SendMail`, `TaskKilled` |
| staff pages | `StaffEvaluate`, `StaffDecide`, `LoadTable`, `SendInterview` |

`finish()` is synchronous: no coroutine of its own process runs between its
steps, but other processes do.  `Faults` says which calls may fail; `crash` and
`kill` may strike between any two steps.  Left out: who the caller is, the clock
(`open` says whether the deadline is ahead), texts, and the four columns nobody
tests (durations, timestamps, room name, tokens).

### InterviewConductor and InterviewProtocol

The variables are the mutable cells of `entrypoint.py` under their own names
where they have one (`_no_response_task` is `timer`, `_timer_remaining` is
`remaining`, `_grace_task` is `grace`; the confirmation sleeps, whose handle the
code drops, are the set `confirms`).  A handler that runs between two awaits is
one action.  Time is discrete: `Tick` passes one second for every sleeper, and
a sleep that is over is served before the next second, as asyncio does; model
calls and speech take any time.  An answer is its length, by the ranges of
`_SILENCE_TIERS`.  `Protocol` instantiates `InterviewProtocol` with
`Stage` (ended, closing, or the phase) and `recorded <- count`.

Two simplifications to know: `generate_reply` and the `llm_node` call it causes
are one step (so `explicit_generate_count` is not a variable), and two
confirmation sleeps with the same time left are one member of the set.  A
turn is committed at any time after the candidate stops (LiveKit's endpointing
is not timed), and the greeting is taken to be spoken.

### QuestionGenerator

One action per way `generate_next_question` returns: `AskCustom`,
`AskProject` (or a project put back and counted in `missed`), `AskGenerated`,
and `Raise`.  Ratios are in hundredths, as the form sets them.

### Screening and PipelineAlerts

`app` is the row's status with the time of its last failure and whether
STUCK_AFTER has passed, `task` the Celery tasks, each with how far it got,
`hook` the webhook.  The time of a failure is the number of the task that failed.

| code | actions |
|---|---|
| `application_created` | `HookReads` (the look at the status), `HookQueues` (the enqueue), `HookLost` |
| `trigger_screening` | `trigger_screening`, from a page of any age |
| `screen_resume_task` | `Take`, `WriteScreened`, `Advance`, `InsertSession`, `Mail`, `StoreParsed`; `RecordFailure`, `ResetOnly`; `Killed` |
| `run_alert_check` | `Lock`, `find_issues`, `unalerted`, `send_pipeline_alert`, `Record`, `CheckFails`, `Release`; `LockExpires`, `Restart` |

`Updates` is a write that may fail before or after the row is written.  A worker
that is killed leaves its task where it was: Celery acknowledges on receipt, and
nothing retries.  `told`, `resolved`, `repeated` and `mishap` are history: a
mishap is a check cut off between its mail and its record, a mail that failed
after it was sent, or a lock that expired under a check.

### The pages

Each page's module has the state of the page (React's `useState` and refs under
their own names), the requests under way, and the part of the server it talks
to.  A request is sent, handled and answered in steps of their own; answers may
come late, cross, or be lost, events of the live feed may be missed by a page
that is still loading, a dialog may be dismissed under its request, and others
change the same rows.  A click handler runs to its next await in one action.

The pages share no state in the browser, and each module has its own copy of
the rows it needs, so `WebPages` lets `Init` choose the page (`desk`) whose
steps a behaviour takes and leaves the others as they are: what can happen on
one page does not depend on another.  What one page's write does to another
reaches it as a change from elsewhere, which every module has.

### Composition

`Advance` of the conductor is `AnswerQuestion` of the session, its
`FinishClosing`, `TabSwitchFinish` and `Disconnect` call `finish()`, and its
`GenerateAfter…` actions are one slot of the generator.  The models meet at
these calls and nowhere else: the conductor writes to the database only through
the controller, so the session's model takes any number of answers in any
order with everything else, which contains every schedule of the conductor.
`PipelineAlerts` extends `Screening`: the issues it finds are those of the rows
as the tasks leave them.  `MovesOn` stands for all that `InterviewSession` does
to an invited application.

## 3 Runs

`tlc -config X.cfg MCM` for each; two workers, each within about three minutes.

| run | distinct states | what it shows |
|---|---|---|
| `rows` | 1.6 million | Two tabs (portal and invite link), one job, an authenticated end-session, a resend, with failing reads and writes, a lost tab-switch message and a crash: types, **SettledIsFinal**, **SentHasTranscript** |
| `evaluation` | 7.7 million (symmetric workers) | Two workers, a re-run of each kind, failures of model, mail and broker, and the time limit: **DecisionMatchesReport**, **MailBudget** |
| `live` | 154 thousand | With a database and broker that work: **CompletedIsEvaluated**, **CandidateHearsBack**, **TerminatedIsSettled** |
| `conduct` | 361 thousand | Three questions, all events except talking over the next question: types, **SilenceCounted**, **InterviewEnds** |
| `overlap` | 849 thousand | All events: **ImplementsProtocol**, **AlwaysAQuestion**, **TimerOnlyOnQuestion** |
| `questions` | 810 thousand | 1–12 slots, 0–4 custom questions, 0–8 projects, 15 ratios (out of range and NULL too), any pattern of failures: types, **WithinShare**, **OnSchedule** |
| `screening` | 597 thousand | One application, one screening, three faults, two replicas: types, **MailedIsDecided**, **AlertsAreExact**, **NobodyIsForgotten** |
| `pages` | 2.9 million | The fourteen pages: types, and one or two properties of each (below) |
| `reset_live`, `silent_q1`, `freeze`, `link` | – | violations: see section 6 |

The properties of `pages`, by module:

| module | property | in words |
|---|---|---|
| `CandidateTable` | **ShownIsTrueUnlessRaced** | with no event and no refetch of a row outstanding, the row is shown as it is, unless a refresh was missed, failed or was overtaken |
| | **PushedBackOnlyByStaleRow** | nobody who was interviewed is invited again, unless the bulk action started from an older row |
| `CandidateMailer` | **DraftGoesToItsAudience**, **OneCopyUnlessAnswerLost** | a text goes to the audience it was typed for; twice to the same candidate only after a lost answer |
| `StaffWidgets` | **TwiceOnlyIfAnswerLost** | what is done twice for one button or one text is done so because the answer was lost; a button says done only of what was |
| `CandidateReport` | **TranscriptsAreComplete** | every answer the page was given stands under its own attempt, in order |
| `AccessLists` | **ListIsTrue** | a row no request is under way for is shown as it is, but for changes behind the page |
| `StaffSettings` | **SavedIsStored** | while the page says saved, the organisation has what an admin's form shows, but for an edit or a load that changes the form while it is saving (a load under the notice, too) and a later save of somebody else's |
| `JobPosting` | **ChangesAreMeant** | a job archived meanwhile is not reopened, a job just reopened is not closed, and a form sent for a job nobody else changed changes what its user changed |
| `JobForms` | **SubmittedFits** | whatever is submitted is in range, sums up and repeats nothing that was not pasted at once |
| `JobList` | **JobListIsCurrent** | once quiet, the list is the tab's |
| `Templates` | **TemplatesAreListed** | the list is the table's, and no job loses its template |
| `Applying` | **AnswersAreTrue**, **ResumeIsTheOneNamed** | one application, one confirmation, and the page says so truly; the file sent is the one named |
| `InterviewLobby` | **NoReentry** | no more rooms are shown than were created, and one more for each leaving of the room for another page of the site |
| `InterviewRoom` | **CountdownIsTheAgents**, **EndsOnce** | the page counts when the agent does, with at least as much left; it asks once to end |
| `SignIn` | **NobodyIsLeftBehind** | nobody without a session stays on a page that needs one |

The exceptions a property names (a refetch overtaken, an older row, a lost
answer, a browser without `beforeunload`) are things the code does allow; they are in
the statement because without them it would be false.

Every property has a mutant in the module, kept beside the definition it
mutates (`…Mutant`): a plausible slip in that code, under which the run reports
the property violated.

Bounds, and why they are enough:

- *Tabs 2*: a lobby kept open while another tab is in the interview is the
  worst the handlers see; one comes from an invite link, because that path
  has no token to end the session.  *Jobs 1*: LiveKit serves a room with one
  job; a second job needs a second room, which only follows a reset.
- *MaxQuestions 1* in the session: handlers test zero or more, nothing else.
- *Workers 2, MaxRequests 1*: two evaluations at a time, of either kind, and a
  third waiting; the proofs carry the results to any number.
- *max_questions 3* in the conductor: a first, a middle and a last question,
  which the code treats differently.  *NO_RESPONSE_SECONDS 5 (2 under overlap)*
  instead of 15: longer, respectively shorter, than the grace of 3 s and the
  confirmations of 2 to 4 s, so each order of the timers happens.
- *Event `overlap`*: the candidate may talk while the agent asks the next
  question.  Runs without it have the candidate wait, which the countdown of
  silence needs: see section 6.
- *Limits 1..12, ratios*: every rounding boundary of up to twelve slots.

- *Screening: one application, one task, three faults, two replicas.*  No step
  looks at two applications; two replicas are needed for the lock to be taken,
  lost and given away, three faults for a failure whose record fails twice.
  A second task adds the repeated failure with its new time and the second
  screening of a decided application: two tasks with one fault and two replicas
  (2.7 million states, five minutes) pass as well, and the safety properties
  are proved for any number.
- *Pages*: two applications, jobs, people or templates (one that is acted upon
  and one that is not), two or three requests (one that is overtaken by another),
  two writes of others.  Two files and two uploads, two starts, two openings of
  a page of the interview besides those the pages themselves lead to, two questions of the room and two of each transcript are the least at
  which their orders differ.  Every property of `pages` is also proved, for any bounds.

`CHECK_DEADLOCK FALSE` everywhere: an interview ends, and nothing happens after.

## 4 Fairness

*InterviewSession* — weak fairness of a handler that has been called (`Api`), of
the dispatch and the end of a job (a job starts when its room exists, and
`max_duration_seconds` ends it), of each worker, and of the end-session call in
flight.  Nothing is assumed of candidates or staff, and `live` includes the
faults `llm`, `message`, `beacon`, `livekit` and `store`.  It excludes database
errors, broker errors, crashes and kills: with those the properties fail, since
nothing in the code retries an evaluation (the alert of `pipeline_health` tells
staff instead).

*InterviewConductor* — weak fairness of time, of the agent's speech, of model
calls, of a coroutine whose sleep is over, of closing, and of the candidate
pausing (`UserStops`: nobody speaks for ever).  The event loop is FIFO over
ready callbacks, which is stronger.

*PipelineAlerts* — weak fairness of the webhook's handler, of the passing of
time (`GrowsOld`, `LockExpires`), of each task once queued (`Proceeds`; a worker is
there and its calls return), of each replica's check, and of some replica's loop
waking up while the lock is free.  Webhooks, calls and processes may still fail,
`MaxFaults` times: **NobodyIsForgotten** says that this is enough for every
application to be decided or its admins told, but for one left `screened`.

*Pages* — none: their properties are safety.  That an answer comes is not assumed.

## 5 Proofs

All for arbitrary sets of tabs, jobs, workers, replicas, any number of
questions, seconds, applications, requests and faults and any set of faults and
events, from the named `ASSUME`s only.

| theorem | states | argument |
|---|---|---|
| `TypeCorrect` | `TypeOK` | inductive as it is |
| `SettledFinal` | `SettledIsFinal` | from `TypeOK`: what each call's answer may be while the row is closed (`ClosedIsRefused`, `AnswerCalls`) |
| `DecisionCorrect` | `DecisionMatchesReport` | `Consistent`: a worker between report and decision holds the recommendation of the one report. The UNIQUE constraint makes it inductive |
| `SentCorrect` | `SentHasTranscript` | `Answered`: what each pc of `finish()` knows about the count, and that the count has rows behind it |
| `MailCorrect` | `MailBudget` | `Budgeted`: a counting argument over queued, running and sent mails; `sent` is set once per job, at the end of its `finish()` |
| `ConductorTypes` | `TypeOK` | `TypeInv` adds `Counted` (the last question closes) and `Voiced` (who speaks has something to say): without them `count` may pass the limit |
| `ConductorImplementsProtocol` | `ImplementsProtocol` | every step is a protocol step or a stutter under `TypeInv` |
| `NothingRecordedLate` | no question recorded once closing | corollary of the refinement |
| `CountdownOnQuestion` | `TimerOnlyOnQuestion` | `QuestionInv`: at most one skipped question waits to be spoken, grace never sleeps while the agent speaks, and what each `step` implies about the question |
| `QuestionAlways` | `AlwaysAQuestion`, if generation does not fail | `QuestionInv` |
| `GeneratorTypes` | `TypeOK` | `Slots`: slots handed out, custom questions left and slots open add up |
| `ShareKept`, `ProjectsOnSchedule` | `WithinShare`, `OnSchedule` | `Schedule`, with `RoundedStep`: rounding advances by at most one per slot |
| `ShareCompleted` | `FullShare` (not in a run) | both, at the last slot |
| `PipelineTypes` | `PipelineTypeOK` | inductive with the two below (`PipelineInv`) |
| `MailedAreDecided` | `MailedIsDecided` | `Stands`: from the decision to the task's end, and for ever once the mail is out, the application is decided if this is its only task. A step of one task excuses the others of its application (`OneTaskMoves`) |
| `AlertsStayExact` | `AlertsAreExact` | `ToldBefore`: a check mails what it is about to record. `OneAtATime` and `Accounted`: without a mishap there is one check, under the lock, and what was mailed is recorded, resolved, or in that check's hands |

The conductor's countdown of silence, and the pages:

| theorem | states | argument |
|---|---|---|
| `SilenceIsCounted` | `SilenceCounted`, if the candidate does not talk into the pause | what has been silent and what is left to run add up to the limit (`LeftToRun`); while a candidate speaks in turn the agent listens and the timer is not asleep (`Attentive`) |
| `RoomTypes`, `RoomEndsOnce` | `RoomTypeOK`, `EndsOnce` | who counts has not ended, and `ends` counts the one passage through `endSession` |
| `RoomCountsWithTheAgent` | `CountdownIsTheAgents` | `CountdownInv`: what the messages still on the channel will make of the page.  Question numbers on the wire grow; the last timer message there, or the page if there is none, has what the agent's timer has |
| `LobbyNoReentry` | `NoReentry` | a counting argument: rooms shown, the token not yet used and starts that have their answer are together at most the rooms created and the leavings; going to another page (`PageLeft`, `DocumentLeft`) keeps the count |
| `SignInKeepsNobody` | `NobodyIsLeftBehind` | whoever takes the tokens starts a navigation, and only `Rendered` ends one, after the layout has asked |
| `ApplyingAnswersTrue` | `AnswersAreTrue` | `OneAtMost`, `Truthful`: an answer under way that says "yes" has its row behind it; UNIQUE makes it inductive |
| `ApplyingResumeNamed` | `ResumeIsTheOneNamed` | `FieldIsTrue`, `NamesAreTrue`: a field whose uploads did not cross, and every submission made from it, name the file they hold |
| `NoRowStaysOld` | `ShownIsTrueUnlessRaced` | `ShownOrComing`: a row a page follows is shown as it is, or has an event on the feed or a refetch that read it as it is, unless it was raced; `RowsBehind`: a row in the browser is one the database had, and of the same version only if it is the same |
| `OnlyStaleRowsPushBack` | `PushedBackOnlyByStaleRow` | from `RowsBehind`: a row of the present version is the present row |
| `MailsReachTheirAudience` | `DraftGoesToItsAudience` | inductive with `DraftInDialog`: there is a text only while a dialog is open, so none outlives the audience it was begun for |
| `MailsAreSentOnce` | `OneCopyUnlessAnswerLost` | `UnsentYet`: unless an answer was lost, nobody has a copy of the text in the composer or of the one being sent; texts are begun in order and only begun ones are sent (`BegunInOrder`, `SentOnceWritten`) |
| `RequestsAreRepeatedForCause` | `TwiceOnlyIfAnswerLost` | a subject's earlier requests have been answered by a refusal or not at all before a new one is made, and what was told done disables the button or empties the text |
| `TranscriptsAreWhole` | `TranscriptsAreComplete` | `ReportRead`: the attempts that were read are in order, and every row of a transcript is of one of them; the lemmas on `SortedBy` (each element at one place, in order) |
| `ListsAreTrue` | `ListIsTrue` | `RowsAreTold`: for each row the list shows it as it is, or an answer under way will; `InvitesAreFresh`, `RolesApart` and `ChangesStay` say of each answer under way that the row is still what it says |
| `SavedIsTrue` | `SavedIsStored` | `SentIsShown`, `WrittenIsSent`, `SavedIsShown`: what is shown, sent and written are equal, one after the other, until a load that changes something, an edit while saving or another's save breaks the chain; a save made after that mends it |
| `SubmissionsFit` | `SubmittedFits` | `WeightsTold`: the message is there just when the sum is wrong; `NoneTwice` |
| `WritesAreMeant` | `ChangesAreMeant` | `EditKnown`, `WriteKnown`: what a form, or a write under way, says of the row differs from the row its page had only where its user changed it (of a row changed meanwhile, and of the status buttons, nothing is claimed); `ReopenAhead`: a date being written was ahead when it was clicked |
| `QuietListIsCurrent` | `JobListIsCurrent` | `ReadIsCurrent`: with no change unheard, coming or waiting for a refresh, what was read last is the tab as it is, in the rendering under way or on the page; `RefreshWaits`: a refresh waits only for a rendering |
| `TemplatesKept` | `TemplatesAreListed` | an answer carries its template's id, new ids are above those in use, and a template in use cannot be deleted (foreign key) |
| `PagesKeepTheirSpecs` | `WebSpec` implies every page's specification | a step of one page leaves the variables of the others alone.  With it each theorem above holds of the composition the run explores |
| `PagesKeepTheirPromises` | every property of `pages`, of `WebSpec` | `PagesKeepTheirSpecs` and the theorems above |
| `PagesTypes` | `WebTypeOK` | each page's types, from its invariant; `AccessBounded` (what is new has an id of the table) and `LobbyInv` (rooms created and starts that may still create one are at most the clicks) where the invariants above do not need the bounds |

No theorem of a page assumes anything but the named `ASSUME`s of its module, and
none the fairness of anybody.  What a list is after it was filtered or sorted is
proved from `Lists`, which defines the result by the places of its elements: the
community modules' `SelectSeq` and `SortSeq` compute the same but are recursive,
and no prover installed here reasons about them.

Only model-checked: liveness (`CompletedIsEvaluated`, `CandidateHearsBack`, `TerminatedIsSettled`,
`InterviewEnds`, `NobodyIsForgotten`), which is outside TLAPS' reach.  Every
invariant and every action property of a passing run has its theorem.
`SettledIsFinal` is proved with its two provisos in its statement: no older
reading is in flight, and `finish()` can re-read the row.

## 6 Divergences between code and documents

With a run that shows it (`PROJECT.json`, findings):

1. `reset_live` — my-session resets a session "stuck before the interview ever
   started", recognised by `questions_asked = 0`; only `finish()` writes that
   column, so a second lobby resets a live interview (`api/interview.py:183`).
2. `silent_q1` — the words said during the greeting count as the answer to the
   first question (`entrypoint.py:728`).
3. `freeze` — if generation fails after an answer, no question is active and
   only the duration watchdog ends the interview (`entrypoint.py:487`).
4. `link` — an invited candidate without an account passes the lobby and is
   refused by create-room, which requires a header the lobby sends only for a
   signed-in candidate (`api/interview.py:247`).

Met while modelling, without a run of their own:

*Interview*

- Re-running an evaluation that succeeded fails at the report's UNIQUE
  constraint, and the failure path sets the application back to `interviewed`
  (`tasks/evaluate_interview.py:76`).
- The confirmation sleep cannot be cancelled and may advance the question while
  the agent speaks (`entrypoint.py:631`).
- A template with a NULL ratio makes every generated question raise
  (`question_gen.py:242`).
- A candidate who leaves during the greeting is not noticed: the close and
  disconnect handlers are installed after it (`entrypoint.py:912`).
- A tab switch before the first answer is settled only if its task marks the row
  before `finish()` looks: the other way round `finish()` resets the row
  (`agent.py:182`), the task marks it `terminated_tab_switch` after that, and its own
  call of `finish()` returns at `ended` (`agent.py:139`).  The application stays
  invited, against spec 001 line 485 (`TerminatedIsSettled` excepts it).
- my-session's reset clears `consent_given_at` (`api/interview.py:192`), so the
  record of a consent does not last (spec 001 FR-023).
- `finish()` writes the status it decided on after re-reading the row
  (`agent.py:164`), so a termination committed in between is overwritten, against
  the comment on terminal statuses (`agent.py:26`).  Hence the proviso of
  `SettledIsFinal`.
- An interview completed through end-session is not evaluated by that call
  (`session_manager.py:258`), and `finish()` then finds a terminal status; the
  route's docstring says otherwise (`api/interview.py:300`).  `live` therefore
  leaves that request out of its `Outside`.
- The countdown is armed when the agent stops, even if the candidate is already
  speaking (`entrypoint.py:574`; `specs/001-…/spec.md:408`), so `SilenceCounted`
  needs a candidate who waits.
- A timeout that finds nothing to do leaves its finished task in the cell, and
  `_arm_timer` takes it for a running one (`entrypoint.py:325`): with a candidate
  who talks over the next question the interview can stop until the watchdog.
- The lowest tier of `_SILENCE_TIERS` starts at 11 words; spec 001
  (lines 414–419) starts it at 6.
- If the watchdog fires while a question is being generated, that question is
  spoken after the farewell.
- `evaluate_interview.py:24-25` and `:28` describe `evaluation_error` and the mail on
  failure more broadly than the early failures allow.
- Specification 002 FR-012 names one call site of the evaluation task; the
  staff endpoint is a second.
- Specification 002 FR-011 names the screening task as the one creator of
  sessions; migration 022 accordingly drops the trigger of migration 008, but
  my-session inserts a missing session too (`InsertSession`).
- The grade bands in the top README (70 and 60) are not those of `evaluator.py`
  (80 and 55); nor is its default `foundational_ratio` (0.4) that of the code (0.6).

*Screening and alerts*

- A worker killed between `screened` and the decision, or unable to write at all,
  leaves the application `screened`: no check lists it and no button retries it,
  against FR-033 of specification 001 (`LeftScreened`, the exception in
  **NobodyIsForgotten**).
- The task does not look at the status it overwrites: a Re-screen or Retry on an
  old page screens a decided application again; its second session insert fails
  on UNIQUE, and the second invitation goes out without a token
  (`screen_resume.py:174-189`).
- `pipeline_health.py:20-21` says that restarts and replicas "neither repeat nor
  drop alerts"; a restart between the mail and the record repeats it, as does a
  check that outlives its lock (`mishap` in **AlertsAreExact**).

*Pages*

- The override of a grade and the request for a summary are sent without the
  token their endpoints require, and the endpoint of the manual screening that
  `docs/archive/2026-05-status-reports/SYSTEM_STATUS.md:18` announces is not there.
- The proxy answers a 204 with a body, which fails: revoking an API key always
  shows an error.
- `settings/page.tsx:590` reads `user_profiles`, which no migration creates: the
  retention period is neither loaded nor saved.
- The defaults for new jobs are replaced as a whole (two administrators lose each
  other's changes) and are read by nobody; writes that row-level security drops
  are reported as saved.
- The invited member of a team has a password-less account, while the page they
  are sent to asks for a password (`api/team.py:80`).
- Saving the job form with the publish switch on publishes a job that was closed
  or archived meanwhile; switching it off does not unpublish.  The schedule
  inputs are not saved, and a failure after the post was written is shown as one
  of the whole.
- A second resume chosen while the first is uploaded may leave the first's path
  under the second's name.
- A cloned template opens an edit dialog which, if one is open already, keeps the
  other template's values (`templates-client.tsx:198`).
- A candidate terminated for leaving sees the violation screen replaced by the
  ordinary end.
- The header of the interview's pages links to the home page
  (`(interview)/layout.tsx:35`), and Sign Out goes there too, by the router: no
  unload handler runs, `interview_room` stays in the storage, and Back shows the
  room again with the same token, while spec 001 line 492 wants no re-entry "under
  no circumstances".  **NoReentry** counts these leavings (`strayed`).
- The `application_id` of a session is UNIQUE (migration 001, line 151), so
  `CandidateReport`, which groups by attempt as the page does, is more general than
  the schema where it has several.

## 7 What is not modelled

Of the pages: the score details, the analytics, the comparison, the dashboard,
the shared report and the portal, which read and draw.  Of the workers: a
rescore, which writes scores and nothing else, and the status-change webhook,
which no migration registers.  Of the pipeline's issues: missing evaluations,
which join the list of the alerts and are told in the same way.

Row-level security, authentication and tokens; the wording of prompts, questions
and mails; floating-point scoring; layout and rendering; LiveKit, Redis,
Postgres and the model provider beyond the calls made to them.  A task is
acknowledged when a worker takes it (Celery's default, which `worker.py` keeps),
so the broker delivers at most once and a killed task is gone.
Starting LiveKit and the greeting are before the conductor's `Init`: what a
candidate's leaving during the greeting leads to is not checked.

## 8 Plan

Done: `InterviewSession`, `InterviewProtocol`, `InterviewConductor`,
`QuestionGenerator`, `Screening`, `PipelineAlerts` and the fourteen pages.  Next:

1. Missing evaluations in `PipelineAlerts`, composed with `InterviewSession`
   through the session row, and several organisations in one check.
2. The rescore against a screening of the same application, and the scores the
   table shows in between.
3. Grades and weights as functions over bounded scores.
4. Theorems for the modules of 1 and 2 as they come.
