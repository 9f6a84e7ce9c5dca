--------------------------- MODULE CandidateReport --------------------------
(***************************************************************************)
(* A candidate's page: the attempts at the interview with their            *)
(* transcripts and grades, the summary, and the two decisions a recruiter  *)
(* can take there - the override of a grade, the manual screening.         *)
(*                                                                         *)
(* The server reads the attempts, then their transcripts, then their       *)
(* reports, each as it is by then; the page is never refreshed.            *)
(*                                                                         *)
(* Neither decision reaches the database: the override is sent without the *)
(* token its endpoint requires, as is the request for the summary, and the *)
(* endpoint of the manual screening is not there.                          *)
(***************************************************************************)
EXTENDS Lists, SequencesExt

CONSTANTS
    MaxAttempts,   \* bound: interview sessions of the application
    MaxQuestions,  \* bound: questions of a session
    MaxAsked    \* bound: requests of the page

ASSUME ReportAssumption == MaxAttempts \in Nat /\ MaxQuestions \in Nat /\ MaxAsked \in Nat

Attempts == 1 .. MaxAttempts   \* in the order of their creation
Terminal == {"completed", "terminated_tab_switch", "terminated_abandoned"}
QA == [session : Attempts, number : 1 .. MaxQuestions]

VARIABLES
    status,     \* status of each session, "none" before it is created
    qa,         \* rows of interview_qa
    reported,   \* sessions in the order their reports were created
    decision,   \* the application's recruiter_override, and was it screened by hand?
    got,        \* what the page was given, part after part
    detail      \* what the page keeps

candidate == <<status, qa, reported, decision>>
reportVars == <<candidate, got, detail>>

-----------------------------------------------------------------------------
(* The rest of the system: interviews are begun, recorded, ended, graded.   *)

NewAttempt(s) ==
    /\ status[s] = "none"
    /\ \A r \in Attempts : r < s => status[r] # "none"
    /\ status' = [status EXCEPT ![s] = "in_progress"]
    /\ UNCHANGED <<qa, reported, decision, got, detail>>

Recorded(s) ==
    /\ status[s] = "in_progress"
    /\ LET n == Cardinality({q \in qa : q.session = s}) IN
       /\ n < MaxQuestions
       /\ qa' = qa \union {[session |-> s, number |-> n + 1]}
    /\ UNCHANGED <<status, reported, decision, got, detail>>

Ended(s) ==
    /\ status[s] = "in_progress"
    /\ \E t \in Terminal : status' = [status EXCEPT ![s] = t]
    /\ UNCHANGED <<qa, reported, decision, got, detail>>

\* Evaluations of two sessions may finish in any order.
Evaluated(s) ==
    /\ status[s] \in Terminal /\ s \notin ToSet(reported)
    /\ reported' = Append(reported, s)
    /\ UNCHANGED <<status, qa, decision, got, detail>>

-----------------------------------------------------------------------------
(* The server's three reads, newest first for sessions and reports.         *)

NewestFirst(S) == SortedBy(S, {p \in S \X S : p[1] > p[2]})

ReadSessions ==
    /\ got.at = "sessions"
    /\ got' = [got EXCEPT !.at = "qa", !.status = status,
                          !.sessions = NewestFirst({s \in Attempts : status[s] # "none"})]
    /\ detail' = [detail EXCEPT !.currentOverride = decision.override]
    /\ UNCHANGED candidate

ReadQa ==
    /\ got.at = "qa"
    /\ got' = [got EXCEPT !.at = "reports", !.qa = {q \in qa : q.session \in ToSet(got.sessions)}]
    /\ UNCHANGED <<candidate, detail>>

ReadReports ==
    /\ got.at = "reports"
    /\ got' = [got EXCEPT !.at = "page",
                          !.reports = Reverse(Filter(reported, ToSet(got.sessions)))]
    /\ UNCHANGED <<candidate, detail>>

OnPage == got.at = "page"

-----------------------------------------------------------------------------
(* What the page shows.                                                     *)

latestReport == IF got.reports = <<>> THEN 0 ELSE Head(got.reports)
latestSession == IF got.sessions = <<>> THEN 0 ELSE Head(got.sessions)
audioUrl == latestSession

InterviewTab == latestReport # 0 \/ got.qa # {}

\* The first listed session that is over: its summary is asked for.
completedSession ==
    LET over == Filter(got.sessions, {s \in Attempts : got.status[s] \in Terminal})
    IN IF over = <<>> THEN 0 ELSE Head(over)

qaBySession(s) == {q \in got.qa : q.session = s}

(* Mutant: an attempt is listed once it is over.                             *)
populatedSessionsMutant == Filter(got.sessions, {s \in Attempts : got.status[s] \in Terminal})

populatedSessions ==
    Filter(got.sessions,
           {s \in Attempts : qaBySession(s) # {} \/ got.status[s] \in Terminal \ {"completed"}})

\* The rows of one session by their question_number.
InOrder(rows) == SortedBy(rows, Ascending(rows, [q \in rows |-> q.number]))

\* The block of the i-th listed attempt.
SessionBlock(i) ==
    LET listed == populatedSessions
        s == listed[i]
    IN  [session |-> s,
         attemptNumber |-> Len(listed) + 1 - i,
         isLatest |-> i = 1,
         isTerminated |-> got.status[s] \in Terminal \ {"completed"},
         sortedQa |-> InOrder(qaBySession(s))]

\* The summary card: a note, the bars of a load, an error, or nothing.
SummaryCard ==
    IF completedSession = 0 THEN "not_yet"
    ELSE IF detail.isSummaryLoading THEN "loading"
    ELSE IF detail.summaryError THEN "error" ELSE "empty"

\* The blue card of the manual screening, and the green one after it.
ManualScreeningOffered == OnPage /\ decision.first \in {"applied", "screened"} /\ detail.manualScreenDone = "none"

-----------------------------------------------------------------------------
(* The summary is asked for as the Interview tab appears, and on Retry.     *)

fetchSummary ==
    /\ OnPage /\ InterviewTab /\ completedSession # 0
    /\ ~detail.isSummaryLoading /\ (detail.summaryAsked => detail.summaryError)
    /\ detail.requests < MaxAsked
    /\ detail' = [detail EXCEPT !.summaryAsked = TRUE, !.isSummaryLoading = TRUE, !.summaryError = FALSE,
                                !.requests = @ + 1]
    /\ UNCHANGED <<candidate, got>>

SummaryRefused ==
    /\ detail.isSummaryLoading
    /\ detail' = [detail EXCEPT !.isSummaryLoading = FALSE, !.summaryError = TRUE]
    /\ UNCHANGED <<candidate, got>>

-----------------------------------------------------------------------------
(* The override of a grade; the button is never disabled.                   *)

setOverrideRec(v) ==
    /\ OnPage /\ InterviewTab /\ v # detail.overrideRec
    /\ detail' = [detail EXCEPT !.overrideRec = v]
    /\ UNCHANGED <<candidate, got>>

\* Without a report there is no id to send to, which is passed over too.
handleOverride ==
    /\ OnPage /\ InterviewTab /\ latestReport # 0
    /\ detail.requests < MaxAsked
    /\ detail' = [detail EXCEPT !.overriding = @ \union {detail.overrideRec}, !.requests = @ + 1]
    /\ UNCHANGED <<candidate, got>>

OverrideRefused(v) ==
    /\ v \in detail.overriding
    /\ detail' = [detail EXCEPT !.overriding = @ \ {v}]
    /\ UNCHANGED <<candidate, got>>

\* Meanwhile the override is set with a token, by another client of the API.
OverriddenElsewhere(v) ==
    /\ decision.override = "none" /\ reported # <<>>
    /\ decision' = [decision EXCEPT !.override = v]
    /\ UNCHANGED <<status, qa, reported, got, detail>>

-----------------------------------------------------------------------------
(* The manual screening.                                                    *)

setManualScreenOpen(open) ==
    /\ open => ManualScreeningOffered
    /\ detail.manualScreenOpen # open
    /\ detail' = [detail EXCEPT !.manualScreenOpen = open]
    /\ UNCHANGED <<candidate, got>>

setManualDecision(d) ==
    /\ detail.manualScreenOpen /\ d # detail.manualDecision
    /\ detail' = [detail EXCEPT !.manualDecision = d]
    /\ UNCHANGED <<candidate, got>>

handleManualScreen ==
    /\ detail.manualScreenOpen /\ ~detail.manualScreening
    /\ detail.requests < MaxAsked
    /\ detail' = [detail EXCEPT !.manualScreening = TRUE, !.requests = @ + 1]
    /\ UNCHANGED <<candidate, got>>

ManualScreenRefused ==
    /\ detail.manualScreening
    /\ detail' = [detail EXCEPT !.manualScreening = FALSE]
    /\ UNCHANGED <<candidate, got>>

-----------------------------------------------------------------------------
ReportInit ==
    /\ status = [s \in Attempts |-> "none"]
    /\ qa = {}
    /\ reported = <<>>
    /\ decision \in [override : {"none"}, first : {"applied", "interview_sent"}]
    /\ got = [at |-> "sessions", sessions |-> <<>>, status |-> [s \in Attempts |-> "none"], qa |-> {}, reports |-> <<>>]
    /\ detail = [overrideRec |-> "no_override", currentOverride |-> "none", overriding |-> {},
                 summaryAsked |-> FALSE, isSummaryLoading |-> FALSE, summaryError |-> FALSE,
                 manualScreenOpen |-> FALSE, manualDecision |-> "pass", manualScreening |-> FALSE,
                 manualScreenDone |-> "none", requests |-> 0]

Interviews == \E s \in Attempts : NewAttempt(s) \/ Recorded(s) \/ Ended(s) \/ Evaluated(s)

PageSteps ==
    \/ ReadSessions \/ ReadQa \/ ReadReports
    \/ fetchSummary \/ SummaryRefused
    \/ \E v \in {"no_override", "advance"} : setOverrideRec(v) \/ OverrideRefused(v)
    \/ handleOverride
    \/ \E open \in BOOLEAN : setManualScreenOpen(open)
    \/ \E d \in {"pass", "reject"} : setManualDecision(d)
    \/ handleManualScreen \/ ManualScreenRefused

\* Nothing on the page depends on what happens after the last read.
ReportNext == (~OnPage /\ Interviews) \/ PageSteps \/ OverriddenElsewhere("advance")

ReportSpec == ReportInit /\ [][ReportNext]_reportVars

-----------------------------------------------------------------------------
(* Properties.                                                              *)

ReportTypeOK ==
    /\ status \in [Attempts -> Terminal \union {"none", "in_progress"}]
    /\ qa \subseteq QA /\ got.qa \subseteq QA
    /\ ToSet(reported) \union ToSet(got.reports) \union ToSet(got.sessions) \subseteq Attempts
    /\ got.at \in {"sessions", "qa", "reports", "page"}
    /\ detail.overriding \subseteq {"no_override", "advance"}

Blocks == {SessionBlock(i) : i \in DOMAIN populatedSessions}

\* Everything the page was given of a transcript is in the block of its own
\* attempt, in the order of the questions, although the transcripts are read
\* after the attempts and some may have been written in between.
TranscriptsAreComplete ==
    OnPage =>
        /\ UNION {ToSet(b.sortedQa) : b \in Blocks} = got.qa
        /\ \A b \in Blocks, q \in got.qa : q \in ToSet(b.sortedQa) <=> q.session = b.session
        /\ \A b \in Blocks : \A i, j \in DOMAIN b.sortedQa : i < j => b.sortedQa[i].number < b.sortedQa[j].number
        /\ \A b, c \in Blocks : b.session < c.session => b.attemptNumber < c.attemptNumber

=============================================================================
