----------------------- MODULE QuestionGeneratorProofs -----------------------
(***************************************************************************)
(* Theorems about QuestionGenerator, for every template, every number of   *)
(* custom questions and projects, and whichever generations fail.          *)
(***************************************************************************)
EXTENDS QuestionGenerator, TLAPS

USE LimitsAssumption, CustomsAssumption, ProjectsAssumption, RatiosAssumption

(* One slot more raises the rounded share by one at most: a product with   *)
(* the share is kept opaque, and the rounding is linear.                   *)
LEMMA RoundingStep ==
  ASSUME NEW m \in Nat, NEW s \in 0 .. 100
  PROVE  /\ (m + 100) \div 200 \in Nat
         /\ (m + 100) \div 200 <= (m + 2 * s + 100) \div 200
         /\ (m + 2 * s + 100) \div 200 <= (m + 100) \div 200 + 1
  OBVIOUS

LEMMA ShareType ==
  ASSUME foundational_ratio \in Ratios
  PROVE  Share \in 0 .. 100
  BY DEF Share, Ratio

LEMMA RoundedStep ==
  ASSUME Share \in 0 .. 100, NEW n \in Nat
  PROVE  /\ Rounded(n) \in Nat
         /\ Rounded(n) <= Rounded(n + 1)
         /\ Rounded(n + 1) <= Rounded(n) + 1
<1>1. 2 * n * Share \in Nat
  OBVIOUS
<1>2. 2 * (n + 1) * Share = 2 * n * Share + 2 * Share
  OBVIOUS
<1>3. PICK s \in 0 .. 100 : s = Share
  OBVIOUS
<1>4. PICK m \in Nat : m = 2 * n * Share
  BY <1>1
<1> QED
  BY <1>2, <1>3, <1>4, RoundingStep DEF Rounded

-----------------------------------------------------------------------------
(* Slots: what the custom questions and the failures leave is used.        *)
Slots ==
    /\ max_questions \in Limits
    /\ foundational_ratio \in Ratios
    /\ custom \in Nat /\ projects \in Nat
    /\ open_slots \in 0 .. max_questions
    /\ used \in Nat /\ anchored \in Nat /\ missed \in Nat /\ raised \in Nat
    /\ calls \in 0 .. max_questions
    /\ calls - used + custom >= max_questions - open_slots
    /\ raised = 0 => open_slots = 0 \/ calls - used + custom = max_questions - open_slots
    /\ used <= open_slots

LEMMA SlotsInductive == Spec => []Slots
<1>1. Init => Slots
  BY DEF Init, Slots
<1>2. Slots /\ [Next]_vars => Slots'
  <2> SUFFICES ASSUME Slots, [Next]_vars PROVE Slots'
    OBVIOUS
  <2> max_questions \in Nat
    BY DEF Slots
  <2> USE DEF Slots, template, NextSlot
  <2>1. CASE AskCustom
    BY <2>1 DEF AskCustom
  <2>2. CASE AskProject
    BY <2>2 DEF AskProject, ProjectDue
  <2>3. ASSUME NoProject PROVE missed' \in Nat
    BY <2>3 DEF NoProject
  <2>4. CASE AskGenerated
    BY <2>3, <2>4 DEF AskGenerated
  <2>5. CASE Raise
    BY <2>3, <2>5 DEF Raise
  <2>6. CASE UNCHANGED vars
    BY <2>6 DEF vars
  <2> QED
    BY <2>1, <2>2, <2>4, <2>5, <2>6 DEF Next
<1> QED
  BY <1>1, <1>2, PTL DEF Spec

(* Type correctness: the questions asked in the open slots are never more  *)
(* than there are, whatever fails and however many questions the recruiter *)
(* wrote.                                                                  *)
THEOREM GeneratorTypes == Spec => []TypeOK
<1>1. Slots => TypeOK
  BY DEF Slots, TypeOK
<1> QED
  BY <1>1, SlotsInductive, PTL

-----------------------------------------------------------------------------
Schedule == WithinShare /\ OnSchedule

LEMMA ScheduleInductive == Spec => []Schedule
<1>1. Init => Schedule
  <2> SUFFICES ASSUME Init PROVE Schedule
    OBVIOUS
  <2>1. Rounded(0) = 0
    BY ShareType DEF Init, Rounded
  <2>2. cap \in Nat
    BY ShareType, RoundedStep DEF Init, cap
  <2> QED
    BY <2>1, <2>2 DEF Init, Schedule, WithinShare, OnSchedule
<1>2. Slots /\ Schedule /\ [Next]_vars => Schedule'
  <2> SUFFICES ASSUME Slots, Schedule, [Next]_vars PROVE Schedule'
    OBVIOUS
  <2> USE DEF Schedule, WithinShare, OnSchedule
  <2>1. /\ used \in Nat /\ used + 1 \in Nat /\ anchored \in Nat /\ cap \in Nat
        /\ Rounded(used) \in Nat /\ Due \in Nat
        /\ Rounded(used) <= Due /\ Due <= Rounded(used) + 1
    BY ShareType, RoundedStep DEF Slots, cap, Due
  <2>2. ASSUME UNCHANGED template
        PROVE  cap' = cap /\ Rounded(used)' = (2 * used' * Share + 100) \div 200
    BY <2>2 DEF template, cap, Rounded, Share, Ratio
  <2>3. ASSUME UNCHANGED template, used' = used + 1
        PROVE  Rounded(used)' = Due
    BY <2>2, <2>3 DEF Due, Rounded
  <2>4. ASSUME UNCHANGED template, used' = used
        PROVE  Rounded(used)' = Rounded(used)
    BY <2>2, <2>4 DEF Rounded
  <2>5. CASE AskProject
    BY <2>1, <2>2, <2>3, <2>5 DEF AskProject, ProjectDue, Slots
  <2>6. ASSUME NoProject, missed' = 0
        PROVE  missed = 0 /\ ~ProjectDue
    BY <2>6 DEF NoProject, Slots
  <2>7. CASE AskGenerated
    <3>1. anchored' = anchored /\ projects' = projects /\ cap' = cap /\ Rounded(used)' = Due
      BY <2>2, <2>3, <2>7 DEF AskGenerated
    <3>2. WithinShare'
      BY <2>1, <3>1
    <3>3. ASSUME missed' = 0, projects' > 0 PROVE anchored' \in {cap', Rounded(used)'}
      <4>1. projects > 0 /\ ~ProjectDue
        BY <2>6, <2>7, <3>1, <3>3 DEF AskGenerated
      <4> QED
        BY <2>1, <3>1, <4>1 DEF ProjectDue
    <3> QED
      BY <3>2, <3>3
  <2>8. CASE AskCustom \/ Raise \/ UNCHANGED vars
    <3>1. /\ anchored' = anchored /\ projects' = projects /\ cap' = cap
          /\ Rounded(used)' = Rounded(used)
      BY <2>2, <2>4, <2>8 DEF AskCustom, Raise, vars
    <3>2. missed' = 0 => missed = 0
      BY <2>6, <2>8 DEF AskCustom, Raise, vars
    <3> QED
      BY <3>1, <3>2
  <2> QED
    BY <2>5, <2>7, <2>8 DEF Next
<1> QED
  BY <1>1, <1>2, SlotsInductive, PTL DEF Spec

(* Project questions never exceed the template's share, of all the slots   *)
(* or of those used so far, whatever fails.                                *)
THEOREM ShareKept == Spec => []WithinShare
<1>1. Schedule => WithinShare
  BY DEF Schedule
<1> QED
  BY <1>1, ScheduleInductive, PTL

(* And unless one failed they are on schedule: the rounding never asks for *)
(* two in one slot, so none is ever skipped.                               *)
THEOREM ProjectsOnSchedule == Spec => []OnSchedule
<1>1. Schedule => OnSchedule
  BY DEF Schedule
<1> QED
  BY <1>1, ScheduleInductive, PTL

(* An interview without failures asks its whole share by its last slot.    *)
THEOREM ShareCompleted == Spec => []FullShare
<1>1. Slots /\ Schedule => FullShare
  <2> SUFFICES ASSUME Slots, Schedule, calls = max_questions, missed = 0, raised = 0,
                      projects > 0
               PROVE  anchored = cap
    BY DEF FullShare
  <2>1. used = open_slots
    BY DEF Slots
  <2> QED
    BY <2>1 DEF Schedule, OnSchedule, cap
<1> QED
  BY <1>1, SlotsInductive, ScheduleInductive, PTL
=============================================================================
