------------------------------ MODULE JobForms ------------------------------
(***************************************************************************)
(* The form of a job and the form of an interview template, and the page   *)
(* that creates a job from the first: a template, the job, and its private *)
(* row, in three requests, any of which may fail.                          *)
(*                                                                         *)
(* Abstracted: one numeric field and one list of tags stand for those of   *)
(* their kind, two weights for the four; text is not looked at.            *)
(***************************************************************************)
EXTENDS Lists, SequencesExt

CONSTANTS
    Numbers,     \* numbers that are typed
    Lists,       \* texts typed into the tag field: the tags between their commas
    MaxCreates   \* bound: submissions of the form

ASSUME FormsAssumption ==
    /\ Numbers \subseteq Int /\ MaxCreates \in Nat
    /\ \A l \in Lists : l \in Seq(STRING)

VARIABLES
    formKind,   \* "job" or "template"
    jobForm,    \* what the form holds
    submitted,  \* what onSubmit was last called with
    creating,   \* the next request of the page that creates the job
    created     \* rows created so far, and submissions

formsVars == <<formKind, jobForm, submitted, creating, created>>

Tags == UNION {ToSet(l) : l \in Lists}
Clamped(n, low, high) == IF n < low THEN low ELSE IF n > high THEN high ELSE n
Total(f) == f.technical + f.rest

Editing(f) ==
    /\ jobForm' = f
    /\ UNCHANGED <<formKind, submitted, creating, created>>

-----------------------------------------------------------------------------
(* The fields.                                                              *)

TypeNumber(n) == n # jobForm.number /\ Editing([jobForm EXCEPT !.number = n])

\* The job's form brings a number into its range when the field is left.
BlurNumber ==
    /\ formKind = "job"
    /\ Editing([jobForm EXCEPT !.number = Clamped(@, 1, 30)])

updateWeight(key, n) ==
    /\ formKind = "template"
    /\ LET f == [jobForm EXCEPT ![key] = Clamped(n, 0, 100)] IN
       Editing([f EXCEPT !.weightsError = (Total(f) # 100)])

(* Mutant: every tag is new.                                                 *)
NewTagsMutant(l) == l

\* Tags that the list has are left out; a list typed at once is not compared
\* with itself.
NewTags(l) == Filter(l, Tags \ ToSet(jobForm.tags))

addTag(l) ==
    /\ Len(jobForm.tags) < 3
    /\ Editing([jobForm EXCEPT !.tags = @ \o NewTags(l), !.pasted = @ \/ ~IsInjective(l)])

removeTag(t) ==
    /\ t \in ToSet(jobForm.tags)
    /\ Editing([jobForm EXCEPT !.tags = Filter(@, Tags \ {t})])

addQuestion(q) ==
    /\ formKind = "job" /\ q \notin ToSet(jobForm.questions)
    /\ Editing([jobForm EXCEPT !.questions = Append(@, q)])

removeQuestion(i) ==
    /\ formKind = "job" /\ i \in DOMAIN jobForm.questions
    /\ Editing([jobForm EXCEPT !.questions = RemoveAt(@, i)])

\* A preset replaces the fields; "none" and "custom" leave them alone.
handlePresetChange(l) ==
    /\ formKind = "template" /\ IsInjective(l)
    /\ Editing([jobForm EXCEPT !.number = 10, !.technical = 35, !.rest = 65, !.tags = l, !.weightsError = FALSE,
                               !.pasted = FALSE])

-----------------------------------------------------------------------------
(* Submitting.  The browser refuses a form whose number is out of range.    *)

BrowserAccepts == jobForm.number \in 1 .. 30

handleFormSubmit ==
    /\ BrowserAccepts /\ creating = "idle" /\ created.clicks < MaxCreates
    /\ IF formKind = "template" /\ Total(jobForm) # 100
       THEN Editing([jobForm EXCEPT !.weightsError = TRUE])
       ELSE /\ submitted' = <<jobForm>>
            /\ creating' = IF formKind = "job" THEN "template" ELSE "idle"
            /\ created' = [created EXCEPT !.clicks = @ + 1]
            /\ UNCHANGED <<formKind, jobForm>>

-----------------------------------------------------------------------------
(* The page that creates a job.                                             *)

Creates(at, next, what) ==
    /\ creating = at
    /\ creating' = next
    /\ created' = what
    /\ UNCHANGED <<formKind, jobForm, submitted>>

TemplateInserted == Creates("template", "post", [created EXCEPT !.templates = @ + 1])

\* Without a culture expectation there is no private row to insert.
PostInserted ==
    \E next \in {"private", "gone"} : Creates("post", next, [created EXCEPT !.posts = @ + 1])

PrivateInserted == Creates("private", "gone", created)

\* An alert; the form is as it was, and may be sent again.
CreateFails ==
    \E at \in {"template", "post", "private"} : Creates(at, "idle", created)

-----------------------------------------------------------------------------
FormsInit ==
    /\ formKind \in {"job", "template"}
    /\ jobForm = [number |-> 10, technical |-> 50, rest |-> 50, weightsError |-> FALSE,
                  tags |-> <<>>, questions |-> <<>>, pasted |-> FALSE]
    /\ submitted = <<>>
    /\ creating = "idle"
    /\ created = [templates |-> 0, posts |-> 0, clicks |-> 0]

FormOpen == creating # "gone"

FormsNext ==
    \/ FormOpen /\ \/ \E n \in Numbers : TypeNumber(n) \/ updateWeight("technical", n) \/ updateWeight("rest", n)
                   \/ BlurNumber
                   \/ \E l \in Lists : addTag(l) \/ handlePresetChange(l)
                   \/ \E t \in Tags : removeTag(t) \/ addQuestion(t)
                   \/ \E i \in 1 .. 2 : removeQuestion(i)
                   \/ handleFormSubmit
    \/ TemplateInserted \/ PostInserted \/ PrivateInserted \/ CreateFails

FormsSpec == FormsInit /\ [][FormsNext]_formsVars

-----------------------------------------------------------------------------
(* Properties.                                                              *)

FormsTypeOK ==
    /\ formKind \in {"job", "template"}
    /\ jobForm.number \in Int /\ jobForm.technical \in 0 .. 100 /\ jobForm.rest \in 0 .. 100
    /\ jobForm.weightsError \in BOOLEAN
    /\ ToSet(jobForm.tags) \union ToSet(jobForm.questions) \subseteq Tags
    /\ creating \in {"idle", "template", "post", "private", "gone"}
    /\ created.templates \in Nat /\ created.posts \in Nat

\* What is submitted is in range, its weights sum up to 100, and it has no
\* tag or question twice, unless one was pasted twice at once.  The message
\* about the weights is there just when they do not.
SubmittedFits ==
    /\ jobForm.weightsError <=> Total(jobForm) # 100
    /\ \A f \in ToSet(submitted) :
          /\ f.number \in 1 .. 30 /\ Total(f) = 100
          /\ f.pasted \/ IsInjective(f.tags)
          /\ IsInjective(f.questions)

=============================================================================
