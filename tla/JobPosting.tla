----------------------------- MODULE JobPosting -----------------------------
(***************************************************************************)
(* A job's status and closing date, and the page it is managed from:       *)
(* publish, close and archive, the edit form, the dialog that reopens a    *)
(* closed job.  The database closes a published job past its date, every   *)
(* fifteen minutes; other members and the MCP tools change it, too, and    *)
(* nothing tells the page, which has the job as it was when last rendered. *)
(*                                                                         *)
(* Abstracted: of the form's fields, the closing date and the publish      *)
(* switch; the others are written with them and decide nothing.            *)
(***************************************************************************)
EXTENDS Naturals

CONSTANTS
    Dates,       \* closing dates; 0: none
    MaxTime,     \* bound: the clock
    MaxWrites    \* bound: requests of the page, changes made elsewhere

ASSUME PostingAssumption == Dates \subseteq Nat /\ 0 \in Dates /\ MaxTime \in Nat /\ MaxWrites \in Nat

JobStatuses == {"draft", "published", "closed", "archived"}
Posts == [status : JobStatuses, closes : Dates]

VARIABLES
    now,       \* the time
    job,       \* the job in the database
    post,      \* the job as the page has it
    editing,   \* the edit form: is it open, what is in it, what did its user change?
    writing,   \* the edit under way: which of its writes is next, and what it writes
    changing,  \* the status a button's request is to write
    reopen,    \* the reopen dialog, and its request
    writes,    \* counter for the bound
    lastWriter \* history: who wrote the job last

postingVars == <<now, job, post, editing, writing, changing, reopen, writes, lastWriter>>

JobIsOpen == job.status = "published" /\ (job.closes = 0 \/ job.closes >= now)
NotEditing == [open |-> FALSE, publish_now |-> FALSE, closes |-> 0, base |-> {}, touched |-> {}]
NotWriting == [at |-> "idle", closes |-> 0, base |-> {}, touched |-> {}, status |-> "draft"]
NotReopening == [open |-> FALSE, date |-> 0, noClosingDate |-> FALSE, enabled |-> FALSE,
                 saving |-> "no", closes |-> 0, clicked |-> 0]
loading == changing # "none" \/ writing.at # "idle"
Written(by) == lastWriter' = by
Refreshed == post' = job'

Tick ==
    /\ now < MaxTime
    /\ now' = now + 1
    /\ UNCHANGED <<job, post, editing, writing, changing, reopen, writes, lastWriter>>

-----------------------------------------------------------------------------
(* Elsewhere.                                                               *)

\* auto_close_expired_posts()
AutoClose ==
    /\ job.status = "published" /\ job.closes # 0 /\ job.closes < now
    /\ job' = [job EXCEPT !.status = "closed"]
    /\ Written("cron")
    /\ UNCHANGED <<now, post, editing, writing, changing, reopen, writes>>

\* The MCP tool sets any status but draft.
update_job_status(s) ==
    /\ writes < MaxWrites /\ writes' = writes + 1
    /\ s # job.status
    /\ job' = [job EXCEPT !.status = s]
    /\ Written("elsewhere")
    /\ UNCHANGED <<now, post, editing, writing, changing, reopen>>

-----------------------------------------------------------------------------
(* The buttons of the page's header.                                        *)

HeaderShown == ~editing.open /\ ~reopen.open

\* The button that the status has: Publish, Close or Archive.
Offered(s) == <<post.status, s>> \in
    {<<"draft", "published">>, <<"published", "closed">>, <<"closed", "archived">>}

updateStatus(s) ==
    /\ HeaderShown /\ ~loading /\ Offered(s)
    /\ writes < MaxWrites /\ writes' = writes + 1
    /\ changing' = s
    /\ UNCHANGED <<now, job, post, editing, writing, reopen, lastWriter>>

\* The write names the job, not the status it had.
StatusWritten ==
    /\ changing # "none"
    /\ job' = [job EXCEPT !.status = changing]
    /\ changing' = "none"
    /\ Refreshed
    /\ Written("button")
    /\ UNCHANGED <<now, editing, writing, reopen, writes>>

\* A failure is only logged.
StatusNotWritten ==
    /\ changing # "none"
    /\ changing' = "none"
    /\ UNCHANGED <<now, job, post, editing, writing, reopen, writes, lastWriter>>

-----------------------------------------------------------------------------
(* The edit form.                                                           *)

(* Mutant: the switch is on whatever the job's status is.                    *)
setEditingMutant ==
    /\ HeaderShown
    /\ editing' = [open |-> TRUE, publish_now |-> TRUE, closes |-> post.closes, base |-> {post}, touched |-> {}]
    /\ UNCHANGED <<now, job, post, writing, changing, reopen, writes, lastWriter>>

\* Opened with what the page has; the switch stands for "is published".
setEditing ==
    /\ HeaderShown
    /\ editing' = [open |-> TRUE, publish_now |-> post.status = "published", closes |-> post.closes,
                   base |-> {post}, touched |-> {}]
    /\ UNCHANGED <<now, job, post, writing, changing, reopen, writes, lastWriter>>

CancelEdit ==
    /\ editing.open
    /\ editing' = NotEditing
    /\ UNCHANGED <<now, job, post, writing, changing, reopen, writes, lastWriter>>

EditDeadline(d) ==
    /\ editing.open /\ d # editing.closes
    /\ editing' = [editing EXCEPT !.closes = d, !.touched = @ \union {"closes"}]
    /\ UNCHANGED <<now, job, post, writing, changing, reopen, writes, lastWriter>>

EditPublish ==
    /\ editing.open
    /\ editing' = [editing EXCEPT !.publish_now = ~@, !.touched = @ \union {"status"}]
    /\ UNCHANGED <<now, job, post, writing, changing, reopen, writes, lastWriter>>

\* The template is written first, then the post, then its private row.
\* Without the switch, the post keeps the status the page has.
handleEditSubmit ==
    /\ editing.open /\ ~loading
    /\ writes < MaxWrites /\ writes' = writes + 1
    /\ writing' = [at |-> "template", closes |-> editing.closes,
                   base |-> editing.base \union {post}, touched |-> editing.touched,
                   status |-> IF editing.publish_now THEN "published" ELSE post.status]
    /\ UNCHANGED <<now, job, post, editing, changing, reopen, lastWriter>>

TemplateWritten ==
    /\ writing.at = "template"
    /\ writing' = [writing EXCEPT !.at = "post"]
    /\ UNCHANGED <<now, job, post, editing, changing, reopen, writes, lastWriter>>

PostWritten ==
    /\ writing.at = "post"
    /\ job' = [status |-> writing.status, closes |-> writing.closes]
    /\ writing' = [writing EXCEPT !.at = "private"]
    /\ Written("edit")
    /\ UNCHANGED <<now, post, editing, changing, reopen, writes>>

\* The form is closed - the one that was opened meanwhile, too.
PrivateWritten ==
    /\ writing.at = "private"
    /\ writing' = NotWriting
    /\ editing' = NotEditing
    /\ post' = job
    /\ UNCHANGED <<now, job, changing, reopen, writes, lastWriter>>

\* What was written before the failure stays; the page is not rendered anew.
EditFails ==
    /\ writing.at # "idle"
    /\ writing' = NotWriting
    /\ UNCHANGED <<now, job, post, editing, changing, reopen, writes, lastWriter>>

-----------------------------------------------------------------------------
(* The dialog that reopens a closed job.                                    *)

\* The Reopen button is enabled by the last render, not by the clock.
canConfirm(d) == d.noClosingDate \/ d.date > now
PostRendered(d) == reopen' = [d EXCEPT !.enabled = canConfirm(d)]

ReopenOpened ==
    /\ HeaderShown /\ post.status = "closed"
    /\ PostRendered([reopen EXCEPT !.open = TRUE, !.noClosingDate = FALSE,
                               !.date = IF post.closes > now THEN post.closes ELSE 0])
    /\ UNCHANGED <<now, job, post, editing, writing, changing, writes, lastWriter>>

\* Cancel is disabled while the request is under way, Escape is not.
ReopenDismissed ==
    /\ reopen.open
    /\ reopen' = [reopen EXCEPT !.open = FALSE, !.date = 0, !.noClosingDate = FALSE, !.enabled = FALSE]
    /\ UNCHANGED <<now, job, post, editing, writing, changing, writes, lastWriter>>

setDate(d) ==
    /\ reopen.open /\ ~reopen.noClosingDate /\ d # reopen.date
    /\ PostRendered([reopen EXCEPT !.date = d])
    /\ UNCHANGED <<now, job, post, editing, writing, changing, writes, lastWriter>>

setNoClosingDate ==
    /\ reopen.open
    /\ PostRendered([reopen EXCEPT !.noClosingDate = ~@])
    /\ UNCHANGED <<now, job, post, editing, writing, changing, writes, lastWriter>>

\* The date is looked at again: it may have passed since the last render.
DateIsFuture == reopen.noClosingDate \/ reopen.date > now

handleReopen ==
    /\ reopen.open /\ reopen.enabled /\ reopen.saving = "no"
    /\ IF DateIsFuture
       THEN /\ writes < MaxWrites /\ writes' = writes + 1
            /\ reopen' = [reopen EXCEPT !.saving = "sent", !.clicked = now,
                                        !.closes = IF reopen.noClosingDate THEN 0 ELSE reopen.date]
       ELSE PostRendered(reopen) /\ UNCHANGED writes
    /\ UNCHANGED <<now, job, post, editing, writing, changing, lastWriter>>

(* Mutant: the update does not ask for a closed job.                         *)
StillClosedMutant == TRUE

StillClosed == job.status = "closed"

ReopenWritten ==
    /\ reopen.saving = "sent" /\ StillClosed
    /\ job' = [status |-> "published", closes |-> reopen.closes]
    /\ reopen' = [NotReopening EXCEPT !.clicked = reopen.clicked]
    /\ Refreshed
    /\ Written("reopen")
    /\ UNCHANGED <<now, editing, writing, changing, writes>>

\* The update matched no row, or failed; the dialog says so and stays.
ReopenRefused ==
    /\ reopen.saving = "sent"
    /\ reopen' = [reopen EXCEPT !.saving = "no"]
    /\ UNCHANGED <<now, job, post, editing, writing, changing, writes, lastWriter>>

-----------------------------------------------------------------------------
\* Another visit of the page.
OpenJobPage ==
    /\ HeaderShown /\ ~loading /\ reopen.saving = "no" /\ post # job
    /\ post' = job
    /\ UNCHANGED <<now, job, editing, writing, changing, reopen, writes, lastWriter>>

PostingInit ==
    /\ now = 1
    /\ job \in [status : {"draft", "published", "closed"}, closes : Dates]
    /\ post = job
    /\ editing = NotEditing
    /\ writing = NotWriting
    /\ changing = "none"
    /\ reopen = NotReopening
    /\ writes = 0
    /\ lastWriter = "elsewhere"

PageNext ==
    \/ \E s \in JobStatuses : updateStatus(s)
    \/ StatusWritten \/ StatusNotWritten
    \/ setEditing \/ CancelEdit \/ EditPublish \/ handleEditSubmit
    \/ \E d \in Dates : EditDeadline(d) \/ setDate(d)
    \/ TemplateWritten \/ PostWritten \/ PrivateWritten \/ EditFails
    \/ ReopenOpened \/ ReopenDismissed \/ setNoClosingDate
    \/ handleReopen \/ ReopenWritten \/ ReopenRefused
    \/ OpenJobPage

PostingNext ==
    \/ Tick \/ AutoClose \/ PageNext
    \/ \E s \in JobStatuses \ {"draft"} : update_job_status(s)

PostingSpec == PostingInit /\ [][PostingNext]_postingVars

-----------------------------------------------------------------------------
(* Properties.                                                              *)

PostingTypeOK ==
    /\ now \in Nat /\ writes \in Nat
    /\ job \in Posts /\ post \in Posts
    /\ editing \in [open : BOOLEAN, publish_now : BOOLEAN, closes : Dates, base : SUBSET Posts,
                    touched : SUBSET {"closes", "status"}]
    /\ writing \in [at : {"idle", "template", "post", "private"}, closes : Dates, base : SUBSET Posts,
                    touched : SUBSET {"closes", "status"}, status : JobStatuses]
    /\ changing \in JobStatuses \union {"none"}
    /\ reopen \in [open : BOOLEAN, date : Dates, noClosingDate : BOOLEAN, enabled : BOOLEAN,
                   saving : {"no", "sent"}, closes : Dates, clicked : Nat]
    /\ lastWriter \in {"cron", "elsewhere", "button", "edit", "reopen"}

\* What the reopen dialog and the edit form write is meant.  A job archived
\* while the reopen dialog is open stays archived, and a reopened job is closed
\* by the database only when time has gone by since the click, although the
\* button may have been enabled when the date was still ahead.  Saving the form
\* changes what its user changed, if the job is still what the page had when
\* the form was opened and saved; a job that was changed meanwhile is
\* overwritten, and so it is by the status buttons, of which nothing is said.
ChangesAreMeant ==
    [][/\ lastWriter' = "reopen" /\ job' # job => job.status = "closed"
       /\ lastWriter = "reopen" /\ lastWriter' = "cron" => now > reopen.clicked
       /\ writing.at = "post" /\ writing'.at = "private" /\ writing.base = {job} =>
             /\ job'.status # job.status => "status" \in writing.touched
             /\ job'.closes # job.closes => "closes" \in writing.touched]_postingVars

=============================================================================
