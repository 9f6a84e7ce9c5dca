------------------------------ MODULE Applying ------------------------------
(***************************************************************************)
(* A candidate applies for a job: the public page, its form with the       *)
(* upload of the resume, and the endpoint that checks the job, looks for   *)
(* an earlier application and inserts the new one.                         *)
(*                                                                         *)
(* The answer to a submission may be lost while the endpoint still works   *)
(* on it, and the form be sent again.  A second file may be chosen while   *)
(* the first is being uploaded.                                            *)
(*                                                                         *)
(* Abstracted: the vacancy is a draft, open, past its date or closed; how  *)
(* it gets there is JobPosting's.  The other fields are filled in.         *)
(***************************************************************************)
EXTENDS Naturals, FiniteSets

CONSTANTS
    Resumes,     \* files the candidate may choose
    MaxUploads,  \* bound: files chosen
    MaxSubmits,  \* bound: submissions, and changes of the vacancy
    NoFile       \* no file

ASSUME ApplyingAssumption == NoFile \notin Resumes /\ MaxUploads \in Nat /\ MaxSubmits \in Nat

Vacancies == {"draft", "open", "expired", "closed"}

VARIABLES
    vacancy,      \* the state of the job
    changes,      \* counter for the bound
    applyPage,    \* what the candidate sees, and the form's own state
    upload,       \* the upload field, with the uploads under way
    chosen,       \* what the form would send: a stored file, and a file's name
    submissions,  \* the submissions the endpoint works on
    applications, \* the candidate's applications to the job
    confirmations \* confirmation mails asked for

applyingVars == <<vacancy, changes, applyPage, upload, chosen, submissions, applications, confirmations>>

IsOpen == vacancy = "open"

VacancyChanges(v) ==
    /\ changes < MaxSubmits /\ changes' = changes + 1
    /\ v # vacancy /\ v # "draft"
    /\ vacancy' = v
    /\ UNCHANGED <<applyPage, upload, chosen, submissions, applications, confirmations>>

-----------------------------------------------------------------------------
(* The page is rendered from two reads.                                     *)

Shows(s) ==
    /\ applyPage' = [applyPage EXCEPT !.at = s]
    /\ UNCHANGED <<vacancy, changes, upload, chosen, submissions, applications, confirmations>>

\* public_job_status(): nothing for a draft, "is it open?" for the others.
StatusLookup ==
    /\ applyPage.at = "lookup"
    /\ Shows(CASE vacancy = "draft" -> "not_found"
               [] IsOpen            -> "read"
               [] OTHER             -> "closed")

\* The lookup failed: the job itself decides.
StatusLookupFails == applyPage.at = "lookup" /\ Shows("read")

JobRead == applyPage.at = "read" /\ Shows(IF IsOpen THEN "form" ELSE "closed")

-----------------------------------------------------------------------------
(* The upload field.  The name is the chosen file's at once, the stored     *)
(* file is that of the upload that ended last.                              *)

(* Mutant: the name is set, the spinner is not.                              *)
SelectFileMutant(f) ==
    /\ applyPage.at = "form"
    /\ upload.made < MaxUploads
    /\ upload' = [upload EXCEPT !.made = @ + 1, !.selected = f, !.uploaded = FALSE, !.error = FALSE,
                                !.underWay = @ \union {f}, !.overlapped = @ \/ upload.underWay # {}]
    /\ chosen' = [chosen EXCEPT !.resumeFilename = f]
    /\ UNCHANGED <<vacancy, changes, applyPage, submissions, applications, confirmations>>

SelectFile(f) ==
    /\ applyPage.at = "form"
    /\ upload.made < MaxUploads
    /\ upload' = [upload EXCEPT !.made = @ + 1, !.selected = f, !.uploading = TRUE, !.uploaded = FALSE,
                                !.error = FALSE, !.underWay = @ \union {f},
                                !.overlapped = @ \/ upload.underWay # {}]
    /\ chosen' = [chosen EXCEPT !.resumeFilename = f]
    /\ UNCHANGED <<vacancy, changes, applyPage, submissions, applications, confirmations>>

\* A file of another type or too large is not taken; what was stored stays.
SelectInvalid ==
    /\ applyPage.at = "form"
    /\ upload' = [upload EXCEPT !.selected = NoFile, !.uploaded = FALSE, !.error = TRUE]
    /\ UNCHANGED <<vacancy, changes, applyPage, chosen, submissions, applications, confirmations>>

UploadDone(f) ==
    /\ f \in upload.underWay
    /\ upload' = [upload EXCEPT !.uploading = FALSE, !.uploaded = TRUE, !.underWay = @ \ {f}]
    /\ chosen' = [chosen EXCEPT !.resumePath = f]
    /\ UNCHANGED <<vacancy, changes, applyPage, submissions, applications, confirmations>>

UploadFails(f) ==
    /\ f \in upload.underWay
    /\ upload' = [upload EXCEPT !.uploading = FALSE, !.error = TRUE, !.underWay = @ \ {f}]
    /\ UNCHANGED <<vacancy, changes, applyPage, chosen, submissions, applications, confirmations>>

-----------------------------------------------------------------------------
(* Submitting.                                                              *)

isValid == chosen.resumePath # NoFile

\* Is the file of the field the only one, and stored?
Settled == ~upload.overlapped /\ ~upload.uploading /\ ~upload.error

handleSubmit ==
    /\ applyPage.at = "form" /\ isValid /\ ~applyPage.submitting
    /\ applyPage.sent < MaxSubmits
    /\ applyPage' = [applyPage EXCEPT !.submitting = TRUE, !.error = FALSE, !.sent = @ + 1]
    /\ submissions' = submissions \union
           {[nr |-> applyPage.sent + 1, at |-> "check", answer |-> 0, settled |-> Settled,
             resume |-> chosen.resumePath, name |-> chosen.resumeFilename]}
    /\ UNCHANGED <<vacancy, changes, upload, chosen, applications, confirmations>>

Works(s, at, answer) ==
    /\ submissions' = (submissions \ {s}) \union {[s EXCEPT !.at = at, !.answer = answer]}
    /\ UNCHANGED <<vacancy, changes, applyPage, upload, chosen, confirmations>>

\* The job is looked at before anything is written, and the candidate's row
\* is written before the applications are looked at.
VerifyPost(s) ==
    /\ s.at = "check"
    /\ IF IsOpen THEN Works(s, "duplicate", 0) ELSE Works(s, "answer", 403)
    /\ UNCHANGED applications

CheckDuplicate(s) ==
    /\ s.at = "duplicate"
    /\ IF applications = {} THEN Works(s, "insert", 0) ELSE Works(s, "answer", 409)
    /\ UNCHANGED applications

(* Mutant: a table without the constraint.                                   *)
IsDuplicateMutant == FALSE

\* UNIQUE (hiring_post_id, candidate_id)
IsDuplicate == applications # {}

InsertApplication(s) ==
    /\ s.at = "insert"
    /\ IF IsDuplicate
       THEN Works(s, "answer", 500) /\ UNCHANGED applications
       ELSE Works(s, "answer", 201) /\ applications' = applications \union {s}

SubmissionFails(s) ==
    /\ s.at \in {"check", "duplicate", "insert"}
    /\ Works(s, "answer", 500)
    /\ UNCHANGED applications

IsAwaited(s) == applyPage.submitting /\ s.nr = applyPage.sent

\* The confirmation is asked for by the page, once it is told of a success.
SubmitAnswer(s) ==
    /\ s.at = "answer"
    /\ submissions' = submissions \ {s}
    /\ IF IsAwaited(s)
       THEN /\ applyPage' = [applyPage EXCEPT !.submitting = FALSE, !.error = s.answer \in {403, 500},
                                 !.at = CASE s.answer = 201 -> "thanked"
                                          [] s.answer = 409 -> "already_applied"
                                          [] OTHER          -> "form"]
            /\ confirmations' = IF s.answer = 201 THEN confirmations + 1 ELSE confirmations
       ELSE UNCHANGED <<applyPage, confirmations>>
    /\ UNCHANGED <<vacancy, changes, upload, chosen, applications>>

\* The connection breaks; the endpoint does not notice.
SubmitAnswerLost ==
    /\ applyPage.submitting
    /\ applyPage' = [applyPage EXCEPT !.submitting = FALSE, !.error = TRUE]
    /\ UNCHANGED <<vacancy, changes, upload, chosen, submissions, applications, confirmations>>

-----------------------------------------------------------------------------
ApplyingInit ==
    /\ vacancy \in Vacancies
    /\ changes = 0
    /\ applyPage = [at |-> "lookup", submitting |-> FALSE, error |-> FALSE, sent |-> 0]
    /\ upload = [made |-> 0, selected |-> NoFile, uploading |-> FALSE, uploaded |-> FALSE, error |-> FALSE,
                 underWay |-> {}, overlapped |-> FALSE]
    /\ chosen = [resumePath |-> NoFile, resumeFilename |-> NoFile]
    /\ submissions = {}
    /\ applications = {}
    /\ confirmations = 0

ApplyingNext ==
    \/ \E v \in Vacancies : VacancyChanges(v)
    \/ StatusLookup \/ StatusLookupFails \/ JobRead
    \/ \E f \in Resumes : SelectFile(f) \/ UploadDone(f) \/ UploadFails(f)
    \/ SelectInvalid
    \/ handleSubmit \/ SubmitAnswerLost
    \/ \E s \in submissions : \/ VerifyPost(s) \/ CheckDuplicate(s) \/ InsertApplication(s)
                              \/ SubmissionFails(s) \/ SubmitAnswer(s)

ApplyingSpec == ApplyingInit /\ [][ApplyingNext]_applyingVars

-----------------------------------------------------------------------------
(* Properties.                                                              *)

ApplyingTypeOK ==
    /\ vacancy \in Vacancies
    /\ applyPage \in [at : {"lookup", "read", "not_found", "closed", "form", "thanked", "already_applied"},
                      submitting : BOOLEAN, error : BOOLEAN, sent : Nat]
    /\ upload \in [made : Nat, selected : Resumes \union {NoFile}, uploading : BOOLEAN, uploaded : BOOLEAN,
                   error : BOOLEAN, underWay : SUBSET Resumes, overlapped : BOOLEAN]
    /\ chosen \in [resumePath : Resumes \union {NoFile}, resumeFilename : Resumes \union {NoFile}]
    /\ changes \in Nat /\ confirmations \in Nat

\* A candidate who is thanked, or told to have applied already, has exactly
\* one application, whichever of the submissions under way was answered; and
\* never more than one mail confirms it.
AnswersAreTrue ==
    /\ applyPage.at \in {"thanked", "already_applied"} => Cardinality(applications) = 1
    /\ Cardinality(applications) <= 1 /\ confirmations <= Cardinality(applications)

\* An application has the resume it names, if the form was sent when its
\* field had stored the file, and no second one was chosen while one was
\* being uploaded.  Otherwise it may have one file and the other's name.
ResumeIsTheOneNamed == \A a \in applications : a.settled => a.resume = a.name

=============================================================================
