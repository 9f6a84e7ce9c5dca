-------------------------- MODULE QuestionGenerator --------------------------
(***************************************************************************)
(* Which question comes next (question_gen.py): the recruiter's custom     *)
(* questions first, then questions on the projects of the resume, spread   *)
(* evenly through the remaining slots in the template's proportion, and    *)
(* questions of the model in all the others.  The conductor asks for one   *)
(* question per slot; a call of the model may fail.                        *)
(*                                                                         *)
(* Ratios are in hundredths, as the template form sets them.  Abstracted:  *)
(* the texts, the topics and the prompts.                                  *)
(***************************************************************************)
EXTENDS Integers

CONSTANTS
    Limits,     \* values of max_questions
    Customs,    \* numbers of custom questions
    Projects,   \* numbers of named projects
    Ratios,     \* values of foundational_ratio
    Null,       \* a template without one
    Faults      \* which generations may fail

ASSUME LimitsAssumption == Limits \subseteq Nat \ {0}
ASSUME CustomsAssumption == Customs \subseteq Nat
ASSUME ProjectsAssumption == Projects \subseteq Nat
ASSUME RatiosAssumption == Ratios \subseteq Int \union {Null}
ASSUME GeneratorFaultsAssumption == Faults \subseteq {"anchored", "generated"}

VARIABLES
    max_questions,       \* of the template
    foundational_ratio,  \* of the template
    custom,              \* length of _custom_questions_remaining
    projects,            \* length of _projects_to_probe
    open_slots,          \* _open_slots
    used,                \* _open_slots_used
    anchored,            \* _anchored_asked
    calls,               \* history: slots the conductor asked for
    missed,              \* history: project questions that failed
    raised               \* history: calls that raised

template == <<max_questions, foundational_ratio, open_slots>>
vars == <<template, custom, projects, used, anchored, calls, missed, raised>>

-----------------------------------------------------------------------------
Ratio == IF foundational_ratio = Null THEN 60 ELSE foundational_ratio

(* 1 - ratio, clamped, in hundredths.                                      *)
Share == IF Ratio > 100 THEN 0 ELSE IF Ratio < 0 THEN 100 ELSE 100 - Ratio

(* The share of n slots, rounded half up.                                  *)
Rounded(n) == (2 * n * Share + 100) \div 200

cap == Rounded(open_slots)

(* Mutant: counts the slots already used, without this one.                *)
DueMutant == Rounded(used)
Due == Rounded(used + 1)

(* Mutant: one too many.                                                   *)
ProjectDueMutant == projects > 0 /\ anchored <= cap /\ anchored <= Due

(* _anchored_project_due.                                                  *)
ProjectDue == projects > 0 /\ anchored < cap /\ anchored < Due

Init ==
    /\ max_questions \in Limits
    /\ foundational_ratio \in Ratios
    /\ custom \in Customs
    /\ projects \in Projects
    /\ open_slots = IF max_questions > custom THEN max_questions - custom ELSE 0
    /\ used = 0
    /\ anchored = 0
    /\ calls = 0
    /\ missed = 0
    /\ raised = 0

-----------------------------------------------------------------------------
(* The conductor asks for one question per slot.                           *)
NextSlot == calls < max_questions /\ calls' = calls + 1

(* Mutant: a custom question takes one of the open slots.                  *)
AskCustomMutant ==
    /\ NextSlot
    /\ custom > 0
    /\ custom' = custom - 1
    /\ used' = used + 1
    /\ UNCHANGED <<template, projects, anchored, missed, raised>>

AskCustom ==
    /\ NextSlot
    /\ custom > 0
    /\ custom' = custom - 1
    /\ UNCHANGED <<template, projects, used, anchored, missed, raised>>

AskProject ==
    /\ NextSlot
    /\ custom = 0
    /\ ProjectDue
    /\ projects' = projects - 1
    /\ anchored' = anchored + 1
    /\ used' = used + 1
    /\ UNCHANGED <<template, custom, missed, raised>>

(* No project is due, or its question failed and it was put back.          *)
NoProject ==
    \/ ~ProjectDue /\ UNCHANGED missed
    \/ ProjectDue /\ "anchored" \in Faults /\ missed' = missed + 1

(* The prompt needs a number for the ratio.                                *)
CanGenerate == foundational_ratio # Null

AskGenerated ==
    /\ NextSlot
    /\ custom = 0
    /\ NoProject
    /\ CanGenerate
    /\ used' = used + 1
    /\ UNCHANGED <<template, custom, projects, anchored, raised>>

Raise ==
    /\ NextSlot
    /\ custom = 0
    /\ NoProject
    /\ ~CanGenerate \/ "generated" \in Faults
    /\ raised' = raised + 1
    /\ UNCHANGED <<template, custom, projects, used, anchored>>

Next == AskCustom \/ AskProject \/ AskGenerated \/ Raise
Spec == Init /\ [][Next]_vars

-----------------------------------------------------------------------------
TypeOK ==
    /\ max_questions \in Limits
    /\ foundational_ratio \in Ratios
    /\ custom \in Nat
    /\ projects \in Nat
    /\ open_slots \in 0 .. max_questions
    /\ used \in 0 .. open_slots
    /\ anchored \in Nat
    /\ calls \in 0 .. max_questions
    /\ missed \in Nat
    /\ raised \in Nat

(* Project questions never run ahead of the template's share: neither of   *)
(* all slots nor, at any moment, of the slots used so far.                 *)
WithinShare == anchored <= cap /\ anchored <= Rounded(used)

(* Unless one failed they do not fall behind either: while projects are    *)
(* left, as many have been asked as the slots used so far call for.  With  *)
(* WithinShare, the project questions are spread evenly.                   *)
OnSchedule == missed = 0 /\ projects > 0 => anchored \in {cap, Rounded(used)}

(* An interview without failures asks its whole share of project questions *)
(* by its last slot, if the resume names that many projects.               *)
FullShare ==
    calls = max_questions /\ missed = 0 /\ raised = 0 /\ projects > 0
        => anchored = cap

=============================================================================
