--------------------------- MODULE CandidateTable ---------------------------
(***************************************************************************)
(* The recruiter's candidate table: the server's load of the page, the     *)
(* realtime feed that refreshes its rows, the filters, the tick boxes, the  *)
(* bulk actions that write statuses from the browser.  One browser tab *)
(* shows one such page; meanwhile the rest of the system moves             *)
(* applications along.  (The buttons in each row: StaffWidgets.)           *)
(*                                                                         *)
(* A refetch reads the row where its event is handled; its answer may come *)
(* at any later time, in any order.  A database or mail call of the        *)
(* browser may fail; no failure stops a bulk action, because the database  *)
(* client returns its errors and every mail is tried apart.                *)
(*                                                                         *)
(* Abstracted: sorting, the text of the search (the set of applications    *)
(* whose name or email contains it), every column but the status, and what  *)
(* an invitation or a rejection does besides: the session and the mail.     *)
(***************************************************************************)
EXTENDS Naturals, Sequences, FiniteSets

CONSTANTS
    Apps,       \* applications
    JobIds,
    JobOf,      \* hiring_post_id of an application
    Searches,   \* the sets of applications a search may match
    Filters,    \* values of the status filter that are tried
    FirstRows,      \* the applications when the page is first opened
    MaxMoves,   \* bound: writes by the rest of the system
    MaxBulk,    \* bound: bulk actions
    NoRow       \* no such row

Statuses == {"applied", "screened", "interview_sent", "interviewed",
             "shortlisted", "resume_rejected", "interview_rejected"}
BulkActions == {"send_interview", "reject", "shortlist", "rescore"}

ASSUME JobOfAssumption == IsFiniteSet(Apps) /\ JobOf \in [Apps -> JobIds]
ASSUME SearchesAssumption == Searches \subseteq SUBSET Apps /\ Apps \in Searches
ASSUME FiltersAssumption == Filters \subseteq Statuses \union {"all"} /\ "all" \in Filters
ASSUME TableBoundsAssumption == MaxMoves \in Nat /\ MaxBulk \in Nat
ASSUME PagesAssumption == {"all", "none"} \intersect JobIds = {}
ASSUME StartAssumption == FirstRows \in [Apps -> [status : Statuses, ver : {0}] \union {NoRow}]
ASSUME NoRowAssumption == NoRow \notin [status : Statuses, ver : Nat]

VARIABLES
    db,           \* the applications table; ver counts the updates of a row
    tablePage,         \* a job (its candidates), "all", or "none": no page open
    readOnly,     \* is it the client's view of the job?
    data,         \* the rows the page holds
    live,         \* has the realtime subscription been made?
    feed,         \* events on their way to the page
    fetches,      \* refetches not answered yet
    jobFilter, statusFilter, globalFilter,
    rowSelection, \* ids of ticked rows
    bulk,         \* the bulk action under way (bulkLoading)
    raced,        \* history: rows whose refresh was missed or overtaken
    moves, bulks  \* counters for the bounds

applicationsTable == <<db, moves>>
tableFilters == <<jobFilter, statusFilter, globalFilter>>
realtime == <<data, live, feed, fetches, raced>>
tableVars == <<applicationsTable, tablePage, readOnly, realtime, tableFilters, rowSelection, bulk, bulks>>

TableRow == [status : Statuses, ver : Nat]
NoBulk == [action |-> "none", todo |-> {}, rows |-> [a \in Apps |-> NoRow], at |-> "next"]

POST_INTERVIEW_STATUSES == {"interviewed", "shortlisted", "interview_rejected"}

-----------------------------------------------------------------------------
(* What the page shows.                                                     *)

\* Does this page list application a?
InScope(p, a) == p = "all" \/ p = JobOf[a]

\* The rows the page hands to the table: all of them, or those of one job.
TableData(a) == IF tablePage = "all" /\ jobFilter # "all" /\ jobFilter # JobOf[a] THEN NoRow ELSE data[a]

\* The rows that pass both of the table's filters.
Visible == {a \in globalFilter : /\ TableData(a) # NoRow
                                 /\ statusFilter \in {"all", TableData(a).status}}

\* Is a bulk button shown and enabled?
BulkBar == ~readOnly /\ rowSelection # {} /\ bulk.action = "none"

canSendInterview ==
    \E a \in rowSelection : TableData(a) # NoRow /\ TableData(a).status \notin POST_INTERVIEW_STATUSES

-----------------------------------------------------------------------------
(* A page is loaded: the server reads the rows, the browser starts afresh   *)
(* and subscribes some time later.                                          *)

Fresh(p) ==
    /\ tablePage' = p
    /\ data' = [a \in Apps |-> IF InScope(p, a) THEN db[a] ELSE NoRow]
    /\ live' = FALSE
    /\ feed' = <<>>
    /\ fetches' = {}
    /\ raced' = {}
    /\ jobFilter' = "all"
    /\ statusFilter' = "all"
    /\ globalFilter' = Apps
    /\ rowSelection' = {}
    /\ bulk' = NoBulk

OpenJob(j) ==
    /\ tablePage = "none"
    /\ readOnly' = FALSE
    /\ Fresh(j)
    /\ UNCHANGED <<applicationsTable, bulks>>

OpenAll ==
    /\ tablePage = "none"
    /\ readOnly' = FALSE
    /\ Fresh("all")
    /\ UNCHANGED <<applicationsTable, bulks>>

\* A client's read-only view of a job has no realtime feed.
OpenClient(j) ==
    /\ tablePage = "none"
    /\ readOnly' = TRUE
    /\ Fresh(j)
    /\ UNCHANGED <<applicationsTable, bulks>>

\* The tab is closed: whatever its code was doing stops there.
CloseTab ==
    /\ tablePage # "none"
    /\ readOnly' = FALSE
    /\ Fresh("none")
    /\ UNCHANGED <<applicationsTable, bulks>>

-----------------------------------------------------------------------------
(* Writes to the applications table, and the event each sends to the page.  *)

Notified(a, kind) ==
    IF tablePage # "none" /\ ~readOnly /\ InScope(tablePage, a)
      THEN IF live THEN feed' = Append(feed, [kind |-> kind, app |-> a]) /\ UNCHANGED raced
                   ELSE raced' = raced \union {a} /\ UNCHANGED feed
      ELSE UNCHANGED <<feed, raced>>

StatusUpdated(a, status) == db' = [db EXCEPT ![a].status = status, ![a].ver = @ + 1]

NextStatuses(s) == CASE s = "applied"        -> {"screened"}
                     [] s = "screened"       -> {"interview_sent", "resume_rejected"}
                     [] s = "interview_sent" -> {"interviewed"}
                     [] s = "interviewed"    -> {"shortlisted", "interview_rejected"}
                     [] OTHER                -> {}

\* A candidate applies.
Submitted(a) ==
    /\ db[a] = NoRow
    /\ moves < MaxMoves
    /\ moves' = moves + 1
    /\ db' = [db EXCEPT ![a] = [status |-> "applied", ver |-> 0]]
    /\ Notified(a, "INSERT")
    /\ UNCHANGED <<tablePage, readOnly, data, live, fetches, tableFilters, rowSelection, bulk, bulks>>

\* Screening, the interview or a decision elsewhere moves an application on.
Moved(a) ==
    /\ db[a] # NoRow
    /\ moves < MaxMoves
    /\ moves' = moves + 1
    /\ \E s \in NextStatuses(db[a].status) :
          db' = [db EXCEPT ![a] = [status |-> s, ver |-> @.ver + 1]]
    /\ Notified(a, "UPDATE")
    /\ UNCHANGED <<tablePage, readOnly, data, live, fetches, tableFilters, rowSelection, bulk, bulks>>

-----------------------------------------------------------------------------
(* The realtime feed.                                                       *)

Subscribe ==
    /\ tablePage # "none" /\ ~readOnly /\ ~live
    /\ live' = TRUE
    /\ UNCHANGED <<applicationsTable, tablePage, readOnly, data, feed, fetches, raced, tableFilters, rowSelection, bulk, bulks>>

\* An event arrives: its handler asks for the full row.
Event ==
    /\ feed # <<>>
    /\ feed' = Tail(feed)
    /\ fetches' = fetches \union {[kind |-> Head(feed).kind, app |-> Head(feed).app, row |-> db[Head(feed).app]]}
    /\ UNCHANGED <<applicationsTable, tablePage, readOnly, data, live, raced, tableFilters, rowSelection, bulk, bulks>>

\* An answer to an UPDATE replaces the row, if the page has it by now.
AnswerUpdate(f) ==
    /\ f \in fetches /\ f.kind = "UPDATE"
    /\ fetches' = fetches \ {f}
    /\ data' = IF data[f.app] = NoRow THEN data ELSE [data EXCEPT ![f.app] = f.row]
    /\ raced' = IF data[f.app] = NoRow \/ data[f.app].ver > f.row.ver THEN raced \union {f.app} ELSE raced
    /\ UNCHANGED <<applicationsTable, tablePage, readOnly, live, feed, tableFilters, rowSelection, bulk, bulks>>

(* Mutant: the INSERT handler maps over the rows the page has.               *)
AnswerInsertMutant(f) ==
    /\ f \in fetches /\ f.kind = "INSERT"
    /\ fetches' = fetches \ {f}
    /\ data' = IF data[f.app] = NoRow THEN data ELSE [data EXCEPT ![f.app] = f.row]
    /\ UNCHANGED <<applicationsTable, tablePage, readOnly, live, feed, raced, tableFilters, rowSelection, bulk, bulks>>

\* An answer to an INSERT puts the row on top.
AnswerInsert(f) ==
    /\ f \in fetches /\ f.kind = "INSERT"
    /\ fetches' = fetches \ {f}
    /\ data' = [data EXCEPT ![f.app] = f.row]
    /\ UNCHANGED <<applicationsTable, tablePage, readOnly, live, feed, raced, tableFilters, rowSelection, bulk, bulks>>

\* A refetch fails: the event is lost.
AnswerError(f) ==
    /\ f \in fetches
    /\ fetches' = fetches \ {f}
    /\ raced' = raced \union {f.app}
    /\ UNCHANGED <<applicationsTable, tablePage, readOnly, data, live, feed, tableFilters, rowSelection, bulk, bulks>>

-----------------------------------------------------------------------------
(* Filters and tick boxes.                                                  *)

SetJobFilter(j) ==
    /\ tablePage = "all"
    /\ jobFilter' = j
    /\ UNCHANGED <<applicationsTable, tablePage, readOnly, realtime, statusFilter, globalFilter, rowSelection, bulk, bulks>>

SetStatusFilter(s) ==
    /\ tablePage # "none"
    /\ statusFilter' = s
    /\ UNCHANGED <<applicationsTable, tablePage, readOnly, realtime, jobFilter, globalFilter, rowSelection, bulk, bulks>>

SetGlobalFilter(found) ==
    /\ tablePage # "none"
    /\ globalFilter' = found
    /\ UNCHANGED <<applicationsTable, tablePage, readOnly, realtime, jobFilter, statusFilter, rowSelection, bulk, bulks>>

\* Ticks survive a change of the filters: rowSelection is keyed by id.
ToggleRow(a) ==
    /\ ~readOnly /\ a \in Visible
    /\ rowSelection' = IF a \in rowSelection THEN rowSelection \ {a} ELSE rowSelection \union {a}
    /\ UNCHANGED <<applicationsTable, tablePage, readOnly, realtime, tableFilters, bulk, bulks>>

ToggleAllRows ==
    /\ ~readOnly /\ Visible # {}
    /\ rowSelection' = IF Visible \subseteq rowSelection THEN rowSelection \ Visible ELSE rowSelection \union Visible
    /\ UNCHANGED <<applicationsTable, tablePage, readOnly, realtime, tableFilters, bulk, bulks>>

-----------------------------------------------------------------------------
(* Bulk actions: handleBulkAction and handleBulkRescore.  The rows they     *)
(* look at are those of the render in which the button was clicked.         *)

StartBulk(action) ==
    /\ BulkBar
    /\ action = "send_interview" => canSendInterview
    /\ bulks < MaxBulk
    /\ bulks' = bulks + 1
    /\ bulk' = [action |-> action, todo |-> rowSelection, rows |-> [a \in Apps |-> TableData(a)], at |-> "next"]
    /\ UNCHANGED <<applicationsTable, tablePage, readOnly, realtime, tableFilters, rowSelection>>

(* Mutant: nobody is passed over.                                            *)
InvitableMutant(a) == bulk.rows[a] # NoRow

Invitable(a) == bulk.rows[a] # NoRow /\ bulk.rows[a].status \notin POST_INTERVIEW_STATUSES

\* send_interview passes over rows not shown, or past their interview.
SendSkip(a) ==
    /\ bulk.action = "send_interview" /\ bulk.at = "next" /\ a \in bulk.todo
    /\ ~Invitable(a)
    /\ bulk' = [bulk EXCEPT !.todo = @ \ {a}]
    /\ UNCHANGED <<applicationsTable, tablePage, readOnly, realtime, tableFilters, rowSelection, bulks>>

\* The status is written whatever it is by now; an error is not looked at.
SendUpdate(a) ==
    /\ bulk.action = "send_interview" /\ bulk.at = "next" /\ a \in bulk.todo
    /\ Invitable(a)
    /\ bulk' = [bulk EXCEPT !.at = a]
    /\ \/ StatusUpdated(a, "interview_sent") /\ Notified(a, "UPDATE")
       \/ UNCHANGED <<db, feed, raced>>
    /\ UNCHANGED <<moves, tablePage, readOnly, data, live, fetches, tableFilters, rowSelection, bulks>>

\* Then a session, if the job has a template and there is none, and a mail;
\* either may fail.
SendRest(a) ==
    /\ bulk.action = "send_interview" /\ bulk.at = a
    /\ bulk' = [bulk EXCEPT !.at = "next", !.todo = @ \ {a}]
    /\ UNCHANGED <<db, moves, tablePage, readOnly, realtime, tableFilters, rowSelection, bulks>>

\* Which updates of one statement are seen by the page's feed.
NotifiedAll(as) ==
    LET seen == {a \in as : InScope(tablePage, a)} IN
    IF live THEN /\ \E order \in [1 .. Cardinality(seen) -> seen] :
                       /\ \A a \in seen : \E i \in DOMAIN order : order[i] = a
                       /\ feed' = feed \o [i \in DOMAIN order |-> [kind |-> "UPDATE", app |-> order[i]]]
                 /\ UNCHANGED raced
            ELSE raced' = raced \union seen /\ UNCHANGED feed

\* reject and shortlist write every ticked application in one statement.
BulkUpdate ==
    /\ bulk.action \in {"reject", "shortlist"} /\ bulk.at = "next"
    /\ \/ /\ db' = [a \in Apps |-> IF a \in bulk.todo
                       THEN [db[a] EXCEPT !.ver = @ + 1,
                                          !.status = IF bulk.action = "reject" THEN "resume_rejected" ELSE "shortlisted"]
                       ELSE db[a]]
          /\ NotifiedAll(bulk.todo)
       \/ UNCHANGED <<db, feed, raced>>
    /\ bulk' = [bulk EXCEPT !.at = "mail",
                            !.todo = IF bulk.action = "reject" THEN {a \in @ : bulk.rows[a] # NoRow} ELSE {}]
    /\ UNCHANGED <<moves, tablePage, readOnly, data, live, fetches, tableFilters, rowSelection, bulks>>

RejectMail(a) ==
    /\ bulk.action = "reject" /\ bulk.at = "mail" /\ a \in bulk.todo
    /\ bulk' = [bulk EXCEPT !.todo = @ \ {a}]
    /\ UNCHANGED <<db, moves, tablePage, readOnly, realtime, tableFilters, rowSelection, bulks>>

\* The page is reloaded once every application has been dealt with.
FinishBulk ==
    /\ bulk.action \in {"send_interview", "reject", "shortlist"}
    /\ bulk.todo = {} /\ bulk.at = (IF bulk.action = "send_interview" THEN "next" ELSE "mail")
    /\ Fresh(tablePage)
    /\ UNCHANGED <<applicationsTable, readOnly, bulks>>

\* A rescore is one request; ticks are removed when it is accepted.
BulkRescored(ok) ==
    /\ bulk.action = "rescore"
    /\ bulk' = NoBulk
    /\ rowSelection' = IF ok THEN {} ELSE rowSelection
    /\ UNCHANGED <<applicationsTable, tablePage, readOnly, realtime, tableFilters, bulks>>

-----------------------------------------------------------------------------
TableInit ==
    /\ db = FirstRows
    /\ moves = 0
    /\ tablePage = "none"
    /\ readOnly = FALSE
    /\ data = [a \in Apps |-> NoRow]
    /\ live = FALSE
    /\ feed = <<>>
    /\ fetches = {}
    /\ raced = {}
    /\ jobFilter = "all"
    /\ statusFilter = "all"
    /\ globalFilter = Apps
    /\ rowSelection = {}
    /\ bulk = NoBulk
    /\ bulks = 0

Pages ==
    \/ \E j \in JobIds : OpenJob(j) \/ OpenClient(j)
    \/ OpenAll \/ CloseTab

World == \E a \in Apps : Submitted(a) \/ Moved(a)

Feed ==
    \/ Subscribe \/ Event
    \/ \E f \in fetches : AnswerUpdate(f) \/ AnswerInsert(f) \/ AnswerError(f)

Controls ==
    \/ \E j \in JobIds \union {"all"} : SetJobFilter(j)
    \/ \E s \in Filters : SetStatusFilter(s)
    \/ \E found \in Searches : SetGlobalFilter(found)
    \/ \E a \in Apps : ToggleRow(a)
    \/ ToggleAllRows

BulkStep ==
    \/ \E a \in Apps : SendSkip(a) \/ SendUpdate(a) \/ SendRest(a) \/ RejectMail(a)
    \/ BulkUpdate \/ FinishBulk
    \/ \E ok \in BOOLEAN : BulkRescored(ok)

TableNext ==
    \/ Pages \/ World \/ Feed \/ Controls
    \/ \E action \in BulkActions : StartBulk(action)
    \/ BulkStep

TableSpec == TableInit /\ [][TableNext]_tableVars

-----------------------------------------------------------------------------
(* Properties.                                                              *)

TableTypeOK ==
    /\ db \in [Apps -> TableRow \union {NoRow}]
    /\ tablePage \in JobIds \union {"all", "none"}
    /\ readOnly \in BOOLEAN /\ live \in BOOLEAN
    /\ data \in [Apps -> TableRow \union {NoRow}]
    /\ feed \in Seq([kind : {"INSERT", "UPDATE"}, app : Apps])
    /\ fetches \subseteq [kind : {"INSERT", "UPDATE"}, app : Apps, row : TableRow]
    /\ raced \subseteq Apps
    /\ jobFilter \in JobIds \union {"all"}
    /\ statusFilter \in Filters
    /\ globalFilter \in Searches
    /\ rowSelection \subseteq Apps
    /\ bulk \in [action : BulkActions \union {"none"}, todo : SUBSET Apps,
                 rows : [Apps -> TableRow \union {NoRow}], at : Apps \union {"next", "mail"}]
    /\ moves \in Nat /\ bulks \in Nat

\* A page with a feed never shows a stale row for good: when no event and no
\* refetch of a row is outstanding, the page shows the row as it is, or the
\* refresh was missed before the subscription, failed, or was overtaken.
Outstanding(a) ==
    \/ \E i \in DOMAIN feed : feed[i].app = a
    \/ \E f \in fetches : f.app = a

ShownIsTrueUnlessRaced ==
    \A a \in Apps : tablePage # "none" /\ ~readOnly /\ InScope(tablePage, a) /\ a \notin raced /\ ~Outstanding(a)
                       => data[a] = db[a]

\* Nobody who has been interviewed is invited again, unless the recruiter's
\* page showed an older row when the bulk action was started.
PushedBackOnlyByStaleRow ==
    [][\A a \in Apps : db[a] # NoRow /\ db[a].status \in POST_INTERVIEW_STATUSES /\ db'[a].status = "interview_sent"
           => bulk.rows[a].ver < db[a].ver]_tableVars
=============================================================================
