--------------------------- MODULE CandidateMailer --------------------------
(***************************************************************************)
(* The candidate management section of a job's page: its list, filters,    *)
(* pages and tick boxes, and the dialog that writes to the shortlisted,    *)
(* the rejected or the ticked candidates.                                  *)
(*                                                                         *)
(* The dialog can be dismissed at any time (Escape, a click beside it),    *)
(* also while its mail is being sent or its attachments are being read;    *)
(* both then finish behind it.                                             *)
(*                                                                         *)
(* Abstracted: a text is a draft number (0: nothing typed), attachments    *)
(* are a set of file names, sorting orders nothing.                        *)
(***************************************************************************)
EXTENDS Naturals, FiniteSets

CONSTANTS
    Applicants,   \* number of applications to the job
    Undecided,    \* those of them not decided upon at first; the others are shortlisted
    Files,        \* files that may be attached
    PageSizes,    \* choices of the page size
    MaxDrafts,    \* bound: texts begun
    MaxSends      \* bound: requests to the mail endpoint

Candidates == 1 .. Applicants  \* in the order of the list
Audiences == {"shortlisted", "rejected", "selected"}
CandidateStatuses == {"interviewed", "shortlisted", "interview_rejected"}

ASSUME MailerAssumption ==
    /\ Applicants \in Nat /\ Undecided \subseteq 1 .. Applicants
    /\ PageSizes \subseteq Nat \ {0} /\ PageSizes # {}
    /\ MaxDrafts \in Nat /\ MaxSends \in Nat

VARIABLES
    standing,  \* status of each candidate, in the database
    copies,    \* copies[c][d]: mails of draft d that candidate c was sent
    written,   \* written[d]: audience whose dialog draft d was typed in
    lost,      \* history: has the answer to a request been lost?
    mailer     \* what the section keeps

mailerVars == <<standing, copies, written, lost, mailer>>

Drafts == 1 .. MaxDrafts

-----------------------------------------------------------------------------
(* What the section derives from what it keeps.                             *)

filteredCandidates ==
    {c \in mailer.rows \intersect mailer.found : mailer.statusFilter \in {"all", mailer.status[c]}}

\* Pages of the filtered list; a page number beyond the last shows the last.
totalPages == LET n == Cardinality(filteredCandidates) IN
              IF n = 0 THEN 1 ELSE (n + mailer.pageSize - 1) \div mailer.pageSize
safePage == IF mailer.page < totalPages THEN mailer.page ELSE totalPages

pagedCandidates ==
    {c \in filteredCandidates :
        Cardinality({d \in filteredCandidates : d <= c}) \in
            (safePage - 1) * mailer.pageSize + 1 .. safePage * mailer.pageSize}

recipientsByAudience(kind) ==
    CASE kind = "shortlisted" -> {c \in mailer.rows : mailer.status[c] = "shortlisted"}
      [] kind = "rejected"    -> {c \in mailer.rows : mailer.status[c] = "interview_rejected"}
      [] kind = "selected"    -> mailer.rows \intersect mailer.selectedIds

\* The table, its tick boxes and the selection bar are on the screen.
TableShown == ~mailer.loading /\ ~mailer.loadError /\ filteredCandidates # {}

-----------------------------------------------------------------------------
(* Loading.                                                                 *)

LoadSucceeds ==
    /\ mailer.loading
    /\ mailer' = [mailer EXCEPT !.loading = FALSE, !.loadError = FALSE, !.rows = Candidates, !.status = standing]
    /\ UNCHANGED <<standing, copies, written, lost>>

LoadFails ==
    /\ mailer.loading
    /\ mailer' = [mailer EXCEPT !.loading = FALSE, !.loadError = TRUE]
    /\ UNCHANGED <<standing, copies, written, lost>>

retryLoad ==
    /\ mailer.loadError /\ ~mailer.loading
    /\ mailer' = [mailer EXCEPT !.loading = TRUE, !.loadError = FALSE, !.rows = {}, !.selectedIds = {}]
    /\ UNCHANGED <<standing, copies, written, lost>>

-----------------------------------------------------------------------------
(* Search, filter, pages, ticks.                                            *)

\* Typing goes back to page 1; the list follows 300 ms later.
Search(found) ==
    /\ ~mailer.loading
    /\ mailer' = [mailer EXCEPT !.typed = found, !.page = 1]
    /\ UNCHANGED <<standing, copies, written, lost>>

Debounced ==
    /\ mailer.found # mailer.typed
    /\ mailer' = [mailer EXCEPT !.found = mailer.typed]
    /\ UNCHANGED <<standing, copies, written, lost>>

SetStatus(s) ==
    /\ ~mailer.loading
    /\ mailer' = [mailer EXCEPT !.statusFilter = s, !.page = 1]
    /\ UNCHANGED <<standing, copies, written, lost>>

SetPageSize(n) ==
    /\ TableShown
    /\ mailer' = [mailer EXCEPT !.pageSize = n, !.page = 1]
    /\ UNCHANGED <<standing, copies, written, lost>>

PreviousPage ==
    /\ TableShown /\ safePage > 1
    /\ mailer' = [mailer EXCEPT !.page = IF @ > 1 THEN @ - 1 ELSE 1]
    /\ UNCHANGED <<standing, copies, written, lost>>

NextPage ==
    /\ TableShown /\ safePage < totalPages
    /\ mailer' = [mailer EXCEPT !.page = IF @ + 1 < totalPages THEN @ + 1
                                         ELSE totalPages]
    /\ UNCHANGED <<standing, copies, written, lost>>

toggleOne(c) ==
    /\ TableShown /\ c \in pagedCandidates
    /\ mailer' = [mailer EXCEPT !.selectedIds = IF c \in @ THEN @ \ {c} ELSE @ \union {c}]
    /\ UNCHANGED <<standing, copies, written, lost>>

toggleAllOnPage ==
    /\ TableShown
    /\ mailer' = [mailer EXCEPT !.selectedIds = IF pagedCandidates \subseteq @ THEN @ \ pagedCandidates
                                                                     ELSE @ \union pagedCandidates]
    /\ UNCHANGED <<standing, copies, written, lost>>

ClearSelection ==
    /\ TableShown /\ mailer.selectedIds # {}
    /\ mailer' = [mailer EXCEPT !.selectedIds = {}]
    /\ UNCHANGED <<standing, copies, written, lost>>

-----------------------------------------------------------------------------
(* The mail dialog.                                                         *)

NoMail == [kind |-> "none", draft |-> 0, files |-> {}, to |-> {}]

resetEmailComposer(m) == [m EXCEPT !.draft = 0, !.attached = {}]

\* The dialog covers the page: it is opened from the page only.
openModal(kind) ==
    /\ mailer.audience = "none"
    /\ CASE kind = "selected" -> TableShown /\ mailer.selectedIds # {}
         [] OTHER             -> recipientsByAudience(kind) # {} /\ ~mailer.loading
    /\ mailer' = [mailer EXCEPT !.audience = kind]
    /\ UNCHANGED <<standing, copies, written, lost>>

(* Mutant: the dialog is closed and keeps its text.                          *)
closeModalMutant ==
    /\ mailer.audience # "none"
    /\ mailer' = [mailer EXCEPT !.audience = "none"]
    /\ UNCHANGED <<standing, copies, written, lost>>

closeModal ==
    /\ mailer.audience # "none"
    /\ mailer' = resetEmailComposer([mailer EXCEPT !.audience = "none"])
    /\ UNCHANGED <<standing, copies, written, lost>>

\* A new text is begun in the dialog that is open.
Type(d) ==
    /\ mailer.audience # "none" /\ mailer.draft = 0
    /\ d = 1 + Cardinality({e \in Drafts : written[e] # "none"})
    /\ written' = [written EXCEPT ![d] = mailer.audience]
    /\ mailer' = [mailer EXCEPT !.draft = d]
    /\ UNCHANGED <<standing, copies, lost>>

\* Files are read one by one; all of them are attached in the end, or none.
addAttachments(f) ==
    /\ mailer.audience # "none" /\ f \notin mailer.reading
    /\ mailer' = [mailer EXCEPT !.reading = @ \union {f}]
    /\ UNCHANGED <<standing, copies, written, lost>>

AttachmentsRead(f) ==
    /\ f \in mailer.reading
    /\ \/ mailer' = [mailer EXCEPT !.reading = @ \ {f}, !.attached = @ \union {f}]
       \/ mailer' = [mailer EXCEPT !.reading = @ \ {f}]
    /\ UNCHANGED <<standing, copies, written, lost>>

RemoveAttachment(f) ==
    /\ mailer.audience # "none" /\ f \in mailer.attached
    /\ mailer' = [mailer EXCEPT !.attached = @ \ {f}]
    /\ UNCHANGED <<standing, copies, written, lost>>

sendDisabled == mailer.draft = 0 \/ mailer.sending # NoMail

sendBulk ==
    /\ mailer.audience # "none" /\ ~sendDisabled
    /\ recipientsByAudience(mailer.audience) # {}
    /\ mailer.sends < MaxSends
    /\ mailer' = [mailer EXCEPT !.sends = @ + 1,
                                !.sending = [kind |-> mailer.audience, draft |-> mailer.draft, files |-> mailer.attached,
                                             to |-> recipientsByAudience(mailer.audience)]]
    /\ UNCHANGED <<standing, copies, written, lost>>

\* The endpoint mails the addresses one after the other and counts; which of
\* them it reached is up to the mail service.
Deliver(reached) ==
    copies' = [c \in Candidates |-> IF c \in reached THEN [copies[c] EXCEPT ![mailer.sending.draft] = @ + 1] ELSE copies[c]]

(* Mutant: after a partial success the text stays, for the others.           *)
BulkSentMutant(reached) ==
    /\ mailer.sending # NoMail
    /\ reached # {} /\ reached \subseteq mailer.sending.to
    /\ Deliver(reached)
    /\ mailer' = IF reached = mailer.sending.to
                 THEN resetEmailComposer([mailer EXCEPT !.sending = NoMail, !.audience = "none"])
                 ELSE [mailer EXCEPT !.sending = NoMail]
    /\ UNCHANGED <<standing, written, lost>>

\* Somebody was reached: whatever dialog is open closes and is emptied.
BulkSent(reached) ==
    /\ mailer.sending # NoMail
    /\ reached # {} /\ reached \subseteq mailer.sending.to
    /\ Deliver(reached)
    /\ mailer' = resetEmailComposer([mailer EXCEPT !.sending = NoMail, !.audience = "none"])
    /\ UNCHANGED <<standing, written, lost>>

\* Nobody was reached: 502, and the text stays.
BulkFailed ==
    /\ mailer.sending # NoMail
    /\ mailer' = [mailer EXCEPT !.sending = NoMail]
    /\ UNCHANGED <<standing, copies, written, lost>>

\* The endpoint did its work but the answer never came: an error to the page.
BulkAnswerLost(reached) ==
    /\ mailer.sending # NoMail
    /\ reached # {} /\ reached \subseteq mailer.sending.to
    /\ Deliver(reached)
    /\ lost' = TRUE
    /\ mailer' = [mailer EXCEPT !.sending = NoMail]
    /\ UNCHANGED <<standing, written>>

\* Meanwhile a candidate is decided upon elsewhere.
Decided(c) ==
    /\ standing[c] = "interviewed"
    /\ \E s \in CandidateStatuses \ {"interviewed"} : standing' = [standing EXCEPT ![c] = s]
    /\ UNCHANGED <<copies, written, lost, mailer>>

-----------------------------------------------------------------------------
NewMailer == [loading |-> TRUE, loadError |-> FALSE, rows |-> {}, status |-> [c \in Candidates |-> "interviewed"],
              typed |-> Candidates, found |-> Candidates, statusFilter |-> "all", page |-> 1,
              pageSize |-> CHOOSE n \in PageSizes : \A m \in PageSizes : n <= m,
              selectedIds |-> {}, audience |-> "none", draft |-> 0, reading |-> {}, attached |-> {},
              sending |-> NoMail, sends |-> 0]

MailerInit ==
    /\ standing = [c \in Candidates |-> IF c \in Undecided THEN "interviewed" ELSE "shortlisted"]
    /\ copies = [c \in Candidates |-> [d \in Drafts |-> 0]]
    /\ written = [d \in Drafts |-> "none"]
    /\ lost = FALSE
    /\ mailer = NewMailer

ListStep ==
    \/ LoadSucceeds \/ LoadFails \/ retryLoad \/ Debounced
    \/ \E found \in {Candidates, Candidates \intersect {1}} : Search(found)
    \/ \E s \in {"all", "shortlisted"} : SetStatus(s)
    \/ \E n \in PageSizes : SetPageSize(n)
    \/ PreviousPage \/ NextPage
    \/ \E c \in Candidates : toggleOne(c)
    \/ toggleAllOnPage \/ ClearSelection

DialogStep ==
    \/ \E kind \in Audiences : openModal(kind)
    \/ closeModal
    \/ \E d \in Drafts : Type(d)
    \/ \E f \in Files : addAttachments(f) \/ AttachmentsRead(f) \/ RemoveAttachment(f)
    \/ sendBulk

MailAnswer ==
    \/ \E reached \in SUBSET mailer.sending.to : BulkSent(reached) \/ BulkAnswerLost(reached)
    \/ BulkFailed

\* The dialog is modal: the list behind it cannot be used.
MailerNext ==
    \/ mailer.audience = "none" /\ ListStep
    \/ Debounced \/ DialogStep \/ MailAnswer
    \/ \E c \in Candidates : Decided(c)

MailerSpec == MailerInit /\ [][MailerNext]_mailerVars

-----------------------------------------------------------------------------
(* Properties.                                                              *)

MailerTypeOK ==
    /\ standing \in [Candidates -> CandidateStatuses]
    /\ copies \in [Candidates -> [Drafts -> Nat]]
    /\ written \in [Drafts -> Audiences \union {"none"}]
    /\ lost \in BOOLEAN
    /\ mailer \in [loading : BOOLEAN, loadError : BOOLEAN, rows : SUBSET Candidates,
                   status : [Candidates -> CandidateStatuses],
                   typed : SUBSET Candidates, found : SUBSET Candidates,
                   statusFilter : CandidateStatuses \union {"all"},
                   page : Nat \ {0}, pageSize : PageSizes, selectedIds : SUBSET Candidates,
                   audience : Audiences \union {"none"}, draft : Drafts \union {0},
                   reading : SUBSET Files, attached : SUBSET Files,
                   sending : [kind : Audiences, draft : Drafts, files : SUBSET Files, to : SUBSET Candidates]
                             \union {NoMail},
                   sends : Nat]

\* A text typed for one audience is never sent to another, however dialogs
\* are dismissed, reopened and answered meanwhile.
DraftGoesToItsAudience ==
    /\ mailer.sending # NoMail => written[mailer.sending.draft] = mailer.sending.kind
    /\ mailer.draft # 0 => written[mailer.draft] = mailer.audience

\* Nobody gets one text twice, unless the answer to a request was lost: after
\* a partial failure there is no text left to send again.
OneCopyUnlessAnswerLost ==
    \A c \in Candidates, d \in Drafts : copies[c][d] > 1 => lost

=============================================================================
