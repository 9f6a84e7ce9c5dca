--------------------------- MODULE StaffPagesProofs --------------------------
(***************************************************************************)
(* Of the pages an organisation is run with, for any number of rows and    *)
(* requests: the list of templates, the forms of jobs and templates, the   *)
(* settings, a job and the list of jobs, the lists of those who may get in.*)
(***************************************************************************)
EXTENDS Templates, JobForms, StaffSettings, JobPosting, JobList, AccessLists, CandidateDeskProofs

-----------------------------------------------------------------------------
(* Templates.  Every answer carries the id it is about in the request, not  *)
(* in the dialogs: DoneKeeps.  A new id is above those in use, and only the *)
(* foreign key keeps a deletion off them.                                   *)

Dialogs == [create : BOOLEAN, edit : TemplateIds \union {0}, from : TemplateIds \union {0},
            delete : TemplateIds \union {0}]

Errands == [kind : {"none", "create", "edit", "clone", "delete"},
            id : TemplateIds \union {0}, from : TemplateIds \union {0}]

\* A request about a template names one; the ids in use were given out before.
Named == errand.kind \in {"edit", "clone", "delete"} => errand.id \in TemplateIds
OldInUse == inUse \subseteq {1} /\ counts.ids >= 2

TemplatesInv == TemplatesTypeOK /\ Named /\ OldInUse /\ TemplatesAreListed

LEMMA TemplatesInitially == TemplatesInit => TemplatesInv
<1> SUFFICES ASSUME TemplatesInit PROVE TemplatesInv
  OBVIOUS
<1>0. 1 \in TemplateIds
  BY TemplatesAssumption DEF TemplateIds
<1>1. TemplatesTypeOK
  <2>1. stored \in [TemplateIds -> Nat] /\ listed \in [TemplateIds -> Nat]
    BY DEF TemplatesInit, TemplateIds
  <2>2. inUse \subseteq TemplateIds /\ elsewhere \subseteq TemplateIds
    BY <1>0 DEF TemplatesInit
  <2> QED BY <2>1, <2>2 DEF TemplatesInit, TemplatesTypeOK, NoDialogs, NoErrand
<1>2. Named /\ OldInUse
  BY DEF TemplatesInit, Named, OldInUse, NoErrand
<1>3. TemplatesAreListed
  BY <1>0 DEF TemplatesInit, TemplatesAreListed
<1> QED BY <1>1, <1>2, <1>3 DEF TemplatesInv

-----------------------------------------------------------------------------
(* Counters.                                                                *)

LEMMA NextCount == ASSUME NEW n \in Nat PROVE n + 1 \in Nat /\ n + 1 # 0
  OBVIOUS

LEMMA NextId == ASSUME NEW n \in Nat, n >= 2 PROVE n + 1 # 1
  OBVIOUS

LEMMA IdsGrow ==
    ASSUME NEW n \in Nat, n >= 2, NEW t \in Nat
    PROVE  (IF t > n THEN t ELSE n) \in Nat /\ (IF t > n THEN t ELSE n) >= 2
  OBVIOUS

-----------------------------------------------------------------------------
(* An answer: the template it names changes in the database, and in the     *)
(* list or in what the page was not told.                                   *)

LEMMA DoneKeeps ==
    ASSUME TemplatesInv, NEW t \in TemplateIds, NEW v \in Nat, NEW d \in Dialogs,
           Done(t, v, d), t \in inUse => v # 0
    PROVE  TemplatesInv'
<1>1. stored' = [stored EXCEPT ![t] = v] /\ inUse' = inUse /\ errand' = NoErrand
  BY DEF Done
<1>2. \/ listed' = [listed EXCEPT ![t] = v] /\ elsewhere' = elsewhere /\ dialogs' = d
      \/ listed' = listed /\ elsewhere' = elsewhere \union {t} /\ dialogs' = dialogs
  BY DEF Done
<1>3. stored \in [TemplateIds -> Nat] /\ listed \in [TemplateIds -> Nat]
  BY DEF TemplatesInv, TemplatesTypeOK
<1>4. counts' \in [ids : Nat, values : Nat, writes : Nat] /\ counts'.ids >= 2
  <2> DEFINE w == counts.values + 1
             m == IF t > counts.ids THEN t ELSE counts.ids
  <2>1. counts \in [ids : Nat, values : Nat, writes : Nat] /\ counts.ids >= 2 /\ t \in Nat
    BY DEF TemplatesInv, TemplatesTypeOK, OldInUse, TemplateIds
  <2>2. w \in Nat /\ m \in Nat /\ m >= 2
    BY <2>1, NextCount, IdsGrow
  <2>3. counts' = [counts EXCEPT !.ids = m, !.values = w]
    BY DEF Done
  <2> HIDE DEF w, m
  <2> QED BY <2>1, <2>2, <2>3
<1>5. TemplatesTypeOK'
  <2>1. stored' \in [TemplateIds -> Nat] /\ listed' \in [TemplateIds -> Nat]
    BY <1>1, <1>2, <1>3
  <2>2. inUse' \subseteq TemplateIds /\ elsewhere' \subseteq TemplateIds /\ dialogs' \in Dialogs
    BY <1>1, <1>2 DEF TemplatesInv, TemplatesTypeOK, Dialogs
  <2> QED BY <1>1, <1>4, <2>1, <2>2 DEF TemplatesTypeOK, Dialogs, NoErrand
<1>6. Named' /\ OldInUse'
  BY <1>1, <1>4 DEF TemplatesInv, Named, OldInUse, NoErrand
<1>7. ASSUME NEW s \in TemplateIds \ elsewhere' PROVE listed'[s] = stored'[s]
  BY <1>1, <1>2, <1>3, <1>7 DEF TemplatesInv, TemplatesAreListed
<1>8. ASSUME NEW s \in inUse' PROVE stored'[s] # 0
  BY <1>1, <1>3, <1>8 DEF TemplatesInv, TemplatesTypeOK, TemplatesAreListed
<1> QED BY <1>5, <1>6, <1>7, <1>8 DEF TemplatesInv, TemplatesAreListed

\* A step that changes neither the database nor the list, nor what is counted
\* but the writes.
LEMMA QuietKeeps ==
    ASSUME TemplatesInv, UNCHANGED <<stored, inUse, listed, elsewhere>>,
           counts' = counts \/ counts' = [counts EXCEPT !.writes = @ + 1],
           dialogs' \in Dialogs, Named',
           errand' \in Errands
    PROVE  TemplatesInv'
<1>1. counts' \in [ids : Nat, values : Nat, writes : Nat] /\ counts'.ids = counts.ids
  <2>1. counts \in [ids : Nat, values : Nat, writes : Nat] /\ counts.writes + 1 \in Nat
    BY NextCount DEF TemplatesInv, TemplatesTypeOK
  <2> QED BY <2>1
<1>2. TemplatesTypeOK'
  BY <1>1 DEF TemplatesInv, TemplatesTypeOK, Dialogs, Errands
<1> QED BY <1>1, <1>2 DEF TemplatesInv, OldInUse, TemplatesAreListed

-----------------------------------------------------------------------------
LEMMA TemplatesStep == TemplatesInv /\ [TemplatesNext]_templatesVars => TemplatesInv'
<1> SUFFICES ASSUME TemplatesInv, [TemplatesNext]_templatesVars PROVE TemplatesInv'
  OBVIOUS
<1>types. /\ dialogs \in Dialogs
          /\ errand \in Errands
          /\ counts \in [ids : Nat, values : Nat, writes : Nat] /\ counts.ids >= 2
          /\ listed \in [TemplateIds -> Nat] /\ stored \in [TemplateIds -> Nat]
          /\ inUse \subseteq {1} /\ Named
  BY DEF TemplatesInv, TemplatesTypeOK, Dialogs, Errands, OldInUse
<1>new. NewValues \in Nat /\ NewValues # 0 /\ NewId \notin inUse
  BY <1>types, NextCount, NextId DEF NewValues, NewId
<1>set. ASSUME NEW d \in Dialogs, SetDialogs(d) PROVE TemplatesInv'
  BY <1>set, <1>types, QuietKeeps DEF SetDialogs, Named
<1>asks. ASSUME NEW e \in Errands,
                Asks(e), e.kind \in {"edit", "clone", "delete"} => e.id \in TemplateIds
         PROVE  TemplatesInv'
  BY <1>asks, <1>types, QuietKeeps DEF Asks, Named
<1>1. CASE setTemplateCreateOpen
  BY <1>1, <1>set, NoDialogs \in Dialogs, [NoDialogs EXCEPT !.create = TRUE] \in Dialogs
     DEF setTemplateCreateOpen, NoDialogs, Dialogs
<1>2. CASE Dismiss
  <2>1. (IF dialogs.edit = 0 THEN NoDialogs ELSE [dialogs EXCEPT !.edit = 0, !.from = 0]) \in Dialogs
    BY <1>types DEF NoDialogs, Dialogs
  <2> QED BY <1>2, <2>1, <1>set DEF Dismiss
<1>3. ASSUME NEW t \in TemplateIds,
             setEditTemplate(t) \/ setDeleteTemplate(t) \/ CloneTemplate(t) \/ ChangedElsewhere(t)
      PROVE  TemplatesInv'
  <2>1. CASE setEditTemplate(t)
    <3>1. [NoDialogs EXCEPT !.edit = t, !.from = t] \in Dialogs
      BY DEF NoDialogs, Dialogs
    <3> QED BY <2>1, <3>1, <1>set DEF setEditTemplate
  <2>2. CASE setDeleteTemplate(t)
    <3>1. [NoDialogs EXCEPT !.delete = t] \in Dialogs
      BY DEF NoDialogs, Dialogs
    <3> QED BY <2>2, <3>1, <1>set DEF setDeleteTemplate
  <2>3. CASE CloneTemplate(t)
    <3> DEFINE e == [NoErrand EXCEPT !.kind = "clone", !.id = t]
    <3>1. e.kind = "clone" /\ e.id = t /\ e \in Errands
      BY DEF NoErrand, Errands
    <3>2. Asks(e)
      BY <2>3 DEF CloneTemplate
    <3> HIDE DEF e
    <3> QED BY <3>1, <3>2, <1>asks DEF Errands
  <2>4. CASE ChangedElsewhere(t)
    <3>1. counts' \in [ids : Nat, values : Nat, writes : Nat] /\ counts'.ids >= 2
      <4>1. counts.writes + 1 \in Nat /\ counts.values + 1 \in Nat
        BY <1>types, NextCount
      <4> QED BY <2>4, <1>types, <4>1 DEF ChangedElsewhere
    <3>2. PICK v \in Nat : stored' = [stored EXCEPT ![t] = v] /\ (t \in inUse => v # 0)
      BY <2>4, <1>new DEF ChangedElsewhere
    <3>3. /\ elsewhere' = elsewhere \union {t}
          /\ UNCHANGED <<inUse, listed, dialogs, errand>>
      BY <2>4 DEF ChangedElsewhere
    <3>4. TemplatesTypeOK'
      BY <3>1, <3>2, <3>3 DEF TemplatesInv, TemplatesTypeOK
    <3>5. Named' /\ OldInUse'
      BY <3>1, <3>3 DEF TemplatesInv, Named, OldInUse
    <3>6. TemplatesAreListed'
      BY <1>types, <3>2, <3>3 DEF TemplatesInv, TemplatesTypeOK, TemplatesAreListed
    <3> QED BY <3>4, <3>5, <3>6 DEF TemplatesInv
  <2> QED BY <1>3, <2>1, <2>2, <2>3, <2>4
<1>4. CASE CreateTemplate
  <2> DEFINE e == [NoErrand EXCEPT !.kind = "create"]
  <2>1. e = [kind |-> "create", id |-> 0, from |-> 0]
    BY DEF NoErrand
  <2>2. Asks(e)
    BY <1>4 DEF CreateTemplate
  <2> HIDE DEF e
  <2> QED BY <2>1, <2>2, <1>asks DEF Errands
<1>5. CASE EditTemplate
  <2> DEFINE e == [kind |-> "edit", id |-> dialogs.edit, from |-> dialogs.from]
  <2>1. dialogs.edit \in TemplateIds /\ dialogs.from \in TemplateIds \union {0}
    BY <1>5, <1>types DEF EditTemplate, Dialogs
  <2>2. Asks(e)
    BY <1>5 DEF EditTemplate
  <2>3. e.kind = "edit" /\ e.id = dialogs.edit
    OBVIOUS
  <2>4. e \in Errands
    BY <2>1 DEF Errands
  <2> HIDE DEF e
  <2> QED BY <2>1, <2>2, <2>3, <2>4, <1>asks
<1>6. CASE DeleteTemplate
  <2> DEFINE e == [NoErrand EXCEPT !.kind = "delete", !.id = dialogs.delete]
  <2>1. dialogs.delete \in TemplateIds
    BY <1>6, <1>types DEF DeleteTemplate, Dialogs
  <2>2. e.kind = "delete" /\ e.id = dialogs.delete /\ e \in Errands
    BY <2>1 DEF NoErrand, Errands
  <2>3. Asks(e)
    BY <1>6 DEF DeleteTemplate
  <2> HIDE DEF e
  <2> QED BY <2>1, <2>2, <2>3, <1>asks DEF Errands
<1>7. CASE TemplateCreated
  <2>1. [dialogs EXCEPT !.create = FALSE] \in Dialogs
    BY <1>types DEF Dialogs
  <2> QED BY <1>7, <2>1, <1>new, DoneKeeps DEF TemplateCreated
<1>8. CASE TemplateEdited
  <2>1. [dialogs EXCEPT !.edit = 0, !.from = 0] \in Dialogs
    BY <1>types DEF Dialogs
  <2>2. errand.id \in TemplateIds
    BY <1>8, <1>types DEF TemplateEdited, Named
  <2> QED BY <1>8, <2>1, <2>2, <1>new, DoneKeeps DEF TemplateEdited
<1>9. CASE TemplateCloned
  <2>1. NewId \in TemplateIds /\ NewId \notin inUse /\ Done(NewId, listed[errand.id], EditsClone(NewId))
    BY <1>9, <1>new DEF TemplateCloned
  <2>2. listed[errand.id] \in Nat
    BY <1>9, <1>types DEF TemplateCloned, Named
  <2>3. EditsClone(NewId) \in Dialogs
    <3>1. ASSUME NEW f \in TemplateIds \union {0}
          PROVE  [dialogs EXCEPT !.edit = NewId, !.from = f] \in Dialogs
      BY <1>types, <2>1 DEF Dialogs
    <3>2. (IF dialogs.edit = 0 THEN NewId ELSE dialogs.from) \in TemplateIds \union {0}
      BY <1>types, <2>1 DEF Dialogs
    <3> QED BY <3>1, <3>2 DEF EditsClone
  <2> QED BY <2>1, <2>2, <2>3, DoneKeeps
<1>10. CASE TemplateDeleted
  <2>1. [dialogs EXCEPT !.delete = 0] \in Dialogs
    BY <1>types DEF Dialogs
  <2>2. errand.id \in TemplateIds
    BY <1>10, <1>types DEF TemplateDeleted, Named
  <2> QED BY <1>10, <2>1, <2>2, DoneKeeps DEF TemplateDeleted
<1>11. CASE ErrandFails
  BY <1>11, <1>types, QuietKeeps DEF ErrandFails, Named, NoErrand, Errands
<1>12. CASE UNCHANGED templatesVars
  BY <1>12, <1>types, QuietKeeps DEF templatesVars, Named
<1> QED
  BY <1>1, <1>2, <1>3, <1>4, <1>5, <1>6, <1>7, <1>8, <1>9, <1>10, <1>11, <1>12 DEF TemplatesNext

(* Whichever dialog is open by the time an answer comes, the list of        *)
(* templates-client has what the database has, but for what it was not      *)
(* told; and a template that a job is linked to is never lost.              *)
THEOREM TemplatesKept == TemplatesSpec => []TemplatesAreListed
<1>1. TemplatesInv => TemplatesAreListed
  BY DEF TemplatesInv
<1> QED BY TemplatesInitially, TemplatesStep, <1>1, PTL DEF TemplatesSpec

-----------------------------------------------------------------------------
(* JobForms.  Two weights are typed one after the other, and the message    *)
(* follows their sum; a job's form has no weights to type.                  *)

TypedForm ==
    jobForm \in [number : Int, technical : 0 .. 100, rest : 0 .. 100, weightsError : BOOLEAN,
                 tags : Seq(Tags), questions : Seq(Tags), pasted : BOOLEAN]

WeightsTold == (jobForm.weightsError <=> Total(jobForm) # 100) /\ (formKind = "job" => Total(jobForm) = 100)

NoneTwice == (jobForm.pasted \/ IsInjective(jobForm.tags)) /\ IsInjective(jobForm.questions)

Fits(f) ==
    /\ f.number \in 1 .. 30 /\ Total(f) = 100
    /\ f.pasted \/ IsInjective(f.tags)
    /\ IsInjective(f.questions)

FormsInv ==
    /\ formKind \in {"job", "template"}
    /\ TypedForm /\ WeightsTold /\ NoneTwice
    /\ \A n \in DOMAIN submitted : Fits(submitted[n])

LEMMA ListsTyped == \A l \in Lists : l \in Seq(Tags)
<1> SUFFICES ASSUME NEW l \in Lists PROVE l \in Seq(Tags)
  OBVIOUS
<1>1. l \in Seq(STRING)
  BY FormsAssumption
<1>2. \A i \in DOMAIN l : l[i] \in Tags
  BY DEF Tags, ToSet
<1> QED BY <1>1, <1>2

LEMMA NoneYet == <<>> \in Seq(Tags) /\ IsInjective(<<>>)
BY DEF IsInjective

LEMMA FormsInitially == FormsInit => FormsInv
<1> SUFFICES ASSUME FormsInit PROVE FormsInv
  OBVIOUS
<1>1. TypedForm
  BY NoneYet DEF FormsInit, TypedForm
<1>2. WeightsTold /\ NoneTwice
  BY NoneYet DEF FormsInit, WeightsTold, NoneTwice, Total
<1> QED BY <1>1, <1>2 DEF FormsInit, FormsInv

LEMMA WithoutOne ==
    ASSUME NEW A, NEW s \in Seq(A), IsInjective(s), NEW i \in DOMAIN s
    PROVE  RemoveAt(s, i) \in Seq(A) /\ IsInjective(RemoveAt(s, i))
<1> DEFINE r == RemoveAt(s, i)
<1>1. r = SubSeq(s, 1, i - 1) \o SubSeq(s, i + 1, Len(s))
  BY DEF RemoveAt
<1>2. r \in Seq(A)
  BY <1>1
<1>3. /\ DOMAIN r = 1 .. Len(s) - 1
      /\ \A n \in DOMAIN r : r[n] = IF n < i THEN s[n] ELSE s[n + 1]
  <2> DEFINE a == SubSeq(s, 1, i - 1)
             b == SubSeq(s, i + 1, Len(s))
  <2>1. a \in Seq(A) /\ Len(a) = i - 1 /\ \A n \in 1 .. i - 1 : a[n] = s[n]
    OBVIOUS
  <2>2. b \in Seq(A) /\ Len(b) = Len(s) - i /\ \A n \in 1 .. Len(s) - i : b[n] = s[i + n]
    OBVIOUS
  <2>3. i \in 1 .. Len(s) /\ Len(s) \in Nat
    OBVIOUS
  <2> HIDE DEF a, b
  <2>4. r = a \o b
    BY <1>1 DEF a, b
  <2> HIDE DEF r
  <2>5. DOMAIN r = 1 .. Len(s) - 1
    BY <2>1, <2>2, <2>3, <2>4
  <2>6. ASSUME NEW n \in 1 .. Len(s) - 1 PROVE r[n] = IF n < i THEN s[n] ELSE s[n + 1]
    <3>1. CASE n < i
      <4>1. r[n] = a[n]
        BY <2>1, <2>2, <2>3, <2>4, <3>1
      <4> QED BY <2>1, <2>3, <3>1, <4>1
    <3>2. CASE ~(n < i)
      <4>1. r[n] = b[n - (i - 1)]
        BY <2>1, <2>2, <2>3, <2>4, <3>2
      <4>2. n - (i - 1) \in 1 .. Len(s) - i /\ i + (n - (i - 1)) = n + 1
        BY <2>3, <3>2
      <4> QED BY <2>2, <3>2, <4>1, <4>2
    <3> QED BY <3>1, <3>2
  <2> QED BY <2>5, <2>6
<1>4. Len(s) \in Nat /\ DOMAIN s = 1 .. Len(s)
  OBVIOUS
<1> HIDE DEF r
<1>5. ASSUME NEW m \in DOMAIN r, NEW n \in DOMAIN r, r[m] = r[n] PROVE m = n
  BY <1>3, <1>4, <1>5 DEF IsInjective
<1> QED BY <1>2, <1>5 DEF IsInjective, r

(* A step that leaves what was submitted alone has to fit the form alone.   *)
LEMMA EditingKeeps ==
    ASSUME FormsInv, NEW f, Editing(f), TypedForm', WeightsTold', NoneTwice'
    PROVE  FormsInv'
BY DEF FormsInv, Editing

LEMMA FormsStep == FormsInv /\ [FormsNext]_formsVars => FormsInv'
<1> SUFFICES ASSUME FormsInv, [FormsNext]_formsVars PROVE FormsInv'
  OBVIOUS
<1> USE DEF FormsInv
<1>0. /\ jobForm.number \in Int /\ jobForm.technical \in 0 .. 100 /\ jobForm.rest \in 0 .. 100
      /\ jobForm.tags \in Seq(Tags) /\ jobForm.questions \in Seq(Tags)
  BY DEF TypedForm
<1>1. ASSUME NEW n \in Numbers, TypeNumber(n) PROVE FormsInv'
  BY <1>1, EditingKeeps, FormsAssumption DEF TypeNumber, Editing, TypedForm, WeightsTold, NoneTwice, Total
<1>2. ASSUME BlurNumber PROVE FormsInv'
  <2>1. Clamped(jobForm.number, 1, 30) \in Int
    BY <1>0 DEF Clamped
  <2> QED BY <1>2, <2>1, EditingKeeps DEF BlurNumber, Editing, TypedForm, WeightsTold, NoneTwice, Total
<1>3. ASSUME NEW n \in Numbers, NEW key \in {"technical", "rest"}, updateWeight(key, n) PROVE FormsInv'
  <2>1. Clamped(n, 0, 100) \in 0 .. 100
    BY FormsAssumption DEF Clamped
  <2> DEFINE f == [jobForm EXCEPT ![key] = Clamped(n, 0, 100)]
  <2>2. /\ formKind = "template" /\ Editing([f EXCEPT !.weightsError = (Total(f) # 100)])
    BY <1>3 DEF updateWeight
  <2>3. TypedForm' /\ NoneTwice'
    BY <2>1, <2>2 DEF Editing, TypedForm, NoneTwice
  <2>4. WeightsTold'
    BY <2>1, <2>2 DEF Editing, TypedForm, WeightsTold, Total
  <2> QED BY <2>2, <2>3, <2>4, EditingKeeps
<1>4. ASSUME NEW l \in Lists, addTag(l) PROVE FormsInv'
  <2> DEFINE more == NewTags(l)
  <2>1. more \in Seq(Tags) /\ \A n \in DOMAIN more : more[n] \in Tags \ ToSet(jobForm.tags)
    BY ListsTyped, FilterKeeps DEF NewTags
  <2>2. IsInjective(l) => IsInjective(more)
    BY ListsTyped, FilterInjective DEF NewTags
  <2>3. Editing([jobForm EXCEPT !.tags = jobForm.tags \o more, !.pasted = jobForm.pasted \/ ~IsInjective(l)])
    BY <1>4 DEF addTag
  <2> HIDE DEF more
  <2>4. \A i \in DOMAIN jobForm.tags, k \in DOMAIN more : jobForm.tags[i] # more[k]
    BY <2>1 DEF ToSet
  <2>5. IsInjective(jobForm.tags) /\ IsInjective(l) => IsInjective(jobForm.tags \o more)
    BY <1>0, <2>1, <2>2, <2>4, ConcatInjective
  <2>6. jobForm.tags \o more \in Seq(Tags)
    BY <1>0, <2>1
  <2>7. TypedForm' /\ WeightsTold'
    BY <2>3, <2>6 DEF Editing, TypedForm, WeightsTold, Total
  <2>8. NoneTwice'
    BY <2>3, <2>5 DEF Editing, TypedForm, NoneTwice
  <2> QED BY <2>3, <2>7, <2>8, EditingKeeps
<1>5. ASSUME NEW t, removeTag(t) PROVE FormsInv'
  <2> DEFINE rest == Filter(jobForm.tags, Tags \ {t})
  <2>1. rest \in Seq(Tags) /\ (IsInjective(jobForm.tags) => IsInjective(rest))
    BY <1>0, FilterKeeps, FilterInjective
  <2>2. Editing([jobForm EXCEPT !.tags = rest])
    BY <1>5 DEF removeTag
  <2> HIDE DEF rest
  <2> QED BY <2>1, <2>2, EditingKeeps DEF Editing, TypedForm, WeightsTold, NoneTwice, Total
<1>6. ASSUME NEW q \in Tags, addQuestion(q) PROVE FormsInv'
  <2> DEFINE more == Append(jobForm.questions, q)
  <2>1. Editing([jobForm EXCEPT !.questions = more]) /\ q \notin ToSet(jobForm.questions)
    BY <1>6 DEF addQuestion
  <2>2. more \in Seq(Tags) /\ DOMAIN more = 1 .. Len(jobForm.questions) + 1
    BY <1>0
  <2>3. \A i \in DOMAIN jobForm.questions : jobForm.questions[i] # q
    BY <2>1 DEF ToSet
  <2>4. IsInjective(more)
    BY <1>0, <2>2, <2>3 DEF IsInjective, NoneTwice
  <2> HIDE DEF more
  <2> QED BY <2>1, <2>2, <2>4, EditingKeeps DEF Editing, TypedForm, WeightsTold, NoneTwice, Total
<1>7. ASSUME NEW i, removeQuestion(i) PROVE FormsInv'
  <2> DEFINE rest == RemoveAt(jobForm.questions, i)
  <2>1. Editing([jobForm EXCEPT !.questions = rest]) /\ i \in DOMAIN jobForm.questions
    BY <1>7 DEF removeQuestion
  <2>2. rest \in Seq(Tags) /\ IsInjective(rest)
    BY <1>0, <2>1, WithoutOne DEF NoneTwice
  <2> HIDE DEF rest
  <2> QED BY <2>1, <2>2, EditingKeeps DEF Editing, TypedForm, WeightsTold, NoneTwice, Total
<1>8. ASSUME NEW l \in Lists, handlePresetChange(l) PROVE FormsInv'
  <2>1. l \in Seq(Tags) /\ IsInjective(l)
    BY <1>8, ListsTyped DEF handlePresetChange
  <2> DEFINE f == [jobForm EXCEPT !.number = 10, !.technical = 35, !.rest = 65, !.tags = l, !.weightsError = FALSE,
                                  !.pasted = FALSE]
  <2>2. Editing(f) /\ formKind = "template"
    BY <1>8 DEF handlePresetChange
  <2>3. TypedForm'
    <3>1. 10 \in Int /\ 35 \in 0 .. 100 /\ 65 \in 0 .. 100 /\ FALSE \in BOOLEAN
      OBVIOUS
    <3>2. jobForm' = f
      BY <2>2 DEF Editing
    <3> QED BY <2>1, <3>1, <3>2 DEF TypedForm
  <2>4. NoneTwice'
    BY <2>1, <2>2 DEF Editing, TypedForm, NoneTwice
  <2>5. ~f.weightsError /\ f.technical + f.rest = 100
    BY DEF TypedForm
  <2>6. WeightsTold'
    BY <2>2, <2>5 DEF Editing, WeightsTold, Total
  <2> QED BY <2>2, <2>3, <2>4, <2>6, EditingKeeps
<1>9. ASSUME handleFormSubmit PROVE FormsInv'
  <2>1. CASE formKind = "template" /\ Total(jobForm) # 100
    <3>1. Editing([jobForm EXCEPT !.weightsError = TRUE])
      BY <1>9, <2>1 DEF handleFormSubmit
    <3> QED BY <2>1, <3>1, EditingKeeps DEF Editing, TypedForm, WeightsTold, NoneTwice, Total
  <2>2. CASE ~(formKind = "template" /\ Total(jobForm) # 100)
    <3>1. submitted' = <<jobForm>> /\ UNCHANGED <<formKind, jobForm>> /\ jobForm.number \in 1 .. 30
      BY <1>9, <2>2 DEF handleFormSubmit, BrowserAccepts
    <3>2. Fits(jobForm)
      BY <2>2, <3>1 DEF Fits, WeightsTold, NoneTwice
    <3>3. \A n \in DOMAIN submitted' : submitted'[n] = jobForm
      BY <3>1
    <3>4. TypedForm' /\ WeightsTold' /\ NoneTwice'
      BY <3>1 DEF TypedForm, WeightsTold, NoneTwice, Total
    <3> QED BY <3>1, <3>2, <3>3, <3>4
  <2> QED BY <2>1, <2>2
<1>10. ASSUME UNCHANGED <<formKind, jobForm, submitted>> PROVE FormsInv'
  BY <1>10 DEF TypedForm, WeightsTold, NoneTwice, Total
<1>11. ASSUME TemplateInserted \/ PostInserted \/ PrivateInserted \/ CreateFails PROVE FormsInv'
  BY <1>10, <1>11 DEF TemplateInserted, PostInserted, PrivateInserted, CreateFails, Creates
<1> QED BY <1>1, <1>2, <1>3, <1>4, <1>5, <1>6, <1>7, <1>8, <1>9, <1>10, <1>11 DEF FormsNext, formsVars

(* What a form submits is in range, with weights that sum up to 100 and no  *)
(* tag or question twice but those pasted twice, for any numbers and lists  *)
(* that are typed in any order (job-form.tsx, template-form.tsx).           *)
THEOREM SubmissionsFit == FormsSpec => []SubmittedFits
<1>1. FormsSpec => []FormsInv
  BY FormsInitially, FormsStep, PTL DEF FormsSpec
<1>2. FormsInv => SubmittedFits
  <2> SUFFICES ASSUME FormsInv PROVE SubmittedFits
    OBVIOUS
  <2>1. \A f \in ToSet(submitted) : Fits(f)
    BY DEF FormsInv, ToSet
  <2> QED BY <2>1 DEF FormsInv, WeightsTold, SubmittedFits, Fits
<1> QED BY <1>1, <1>2, PTL

-----------------------------------------------------------------------------
(* StaffSettings.  While nothing has overtaken a save, what is under way,   *)
(* and then what is stored, is what is shown.                               *)

Orgs == [threshold : Thresholds \union {Unset}, template : Templates \union {Unset}, days : {365}]

SettingsTyped ==
    /\ SettingsTypeOK
    /\ load \in [at : {"asked", "read", "done"}, threshold : Thresholds \union {Unset},
                 template : Templates \union {Unset}]
    /\ saving \in [at : {"idle", "sent", "written"}, threshold : Thresholds \union {Unset},
                   template : Templates \union {Unset}]

Same(a, b) == a.threshold = b.threshold /\ a.template = b.template

OnlyDefaultsSave == form # "defaults" => ~saved
SentIsShown == form = "defaults" /\ ~overtaken /\ saving.at # "idle" => Same(saving, values)
WrittenIsSent == form = "defaults" /\ ~overtaken /\ saving.at = "written" /\ isAdmin => Same(org, saving)
SavedIsShown == form = "defaults" /\ ~overtaken /\ saved /\ isAdmin => Same(org, values)

SettingsInv ==
    /\ SettingsTyped /\ OnlyDefaultsSave /\ SentIsShown /\ WrittenIsSent /\ SavedIsShown

LEMMA SettingsInitially == SettingsInit => SettingsInv
<1> SUFFICES ASSUME SettingsInit PROVE SettingsInv
  OBVIOUS
<1>1. form \in {"defaults", "retention", "usage"} /\ isAdmin \in BOOLEAN /\ org \in Orgs
  BY DEF SettingsInit, Orgs
<1>2. saved \in BOOLEAN /\ overtaken \in BOOLEAN /\ ~saved /\ ~overtaken
  BY Zenon DEF SettingsInit
<1>3. values \in [threshold : Thresholds, template : Templates \union {Unset}, days : {30, 90}]
  BY SettingsAssumption DEF SettingsInit
<1>4. saving.at = "idle" /\ load.at = "asked" /\ saves = 0
  BY DEF SettingsInit, NotSaving
<1>5. /\ load \in [at : {"asked", "read", "done"}, threshold : Thresholds \union {Unset},
                   template : Templates \union {Unset}]
      /\ saving \in [at : {"idle", "sent", "written"}, threshold : Thresholds \union {Unset},
                     template : Templates \union {Unset}]
  BY DEF SettingsInit, NotSaving
<1> QED BY <1>1, <1>2, <1>3, <1>4, <1>5
        DEF Orgs, SettingsInv, SettingsTyped, SettingsTypeOK, OnlyDefaultsSave,
            SentIsShown, WrittenIsSent, SavedIsShown

LEMMA SettingsTypes ==
    ASSUME SettingsTyped, [SettingsNext]_settingsVars
    PROVE  SettingsTyped'
<1> DEFINE Loads == [at : {"asked", "read", "done"}, threshold : Thresholds \union {Unset},
                     template : Templates \union {Unset}]
           Savings == [at : {"idle", "sent", "written"}, threshold : Thresholds \union {Unset},
                       template : Templates \union {Unset}]
           Values == [threshold : Thresholds, template : Templates \union {Unset}, days : {30, 90}]
<1>0. /\ org \in Orgs /\ values \in Values /\ load \in Loads /\ saving \in Savings /\ saves \in Nat
      /\ form \in {"defaults", "retention", "usage"} /\ isAdmin \in BOOLEAN
      /\ saved \in BOOLEAN /\ overtaken \in BOOLEAN
  BY DEF SettingsTyped, SettingsTypeOK, Orgs
<1>1. form' \in {"defaults", "retention", "usage"} /\ isAdmin' \in BOOLEAN
  BY <1>0 DEF SettingsNext, SettingsRead, SettingsLoaded, SettingsNotLoaded, setThreshold, setTemplateId, Edit,
     handleSaveDefaults, SettingsUpdated, SettingsSaved, SettingsNotSaved, SavedElsewhere, RetentionNotLoaded,
     handleSaveRetention, RetentionNotSaved, setRetentionDays, setDays, UsageAnswer, UsageError, settingsVars, formState
<1>2. saved' \in BOOLEAN
  BY <1>0, Zenon DEF SettingsNext, SettingsRead, SettingsLoaded, SettingsNotLoaded, setThreshold, setTemplateId, Edit,
     handleSaveDefaults, SettingsUpdated, SettingsSaved, SettingsNotSaved, SavedElsewhere, RetentionNotLoaded,
     handleSaveRetention, RetentionNotSaved, setRetentionDays, setDays, UsageAnswer, UsageError, settingsVars, formState
<1>3. overtaken' \in BOOLEAN
  <2>1. \/ overtaken' = overtaken
        \/ overtaken' = (overtaken \/ (values' # values /\ (saved \/ saving.at # "idle")))
        \/ overtaken' = (saving.at # "idle")
        \/ overtaken' = (overtaken /\ saved)
        \/ overtaken' = (overtaken \/ saved \/ saving.at = "written")
    BY Zenon DEF SettingsNext, SettingsRead, SettingsLoaded, SettingsNotLoaded, setThreshold, setTemplateId,
     Edit, handleSaveDefaults, SettingsUpdated, SettingsSaved, SettingsNotSaved, SavedElsewhere, RetentionNotLoaded,
     handleSaveRetention, RetentionNotSaved, setRetentionDays, setDays, UsageAnswer, UsageError, settingsVars, formState
  <2> QED BY <1>0, <2>1
<1>4. saves' \in Nat
  <2>1. saves' = saves \/ saves' = saves + 1
    BY Zenon DEF SettingsNext, SettingsRead, SettingsLoaded, SettingsNotLoaded, setThreshold, setTemplateId,
     Edit, handleSaveDefaults, SettingsUpdated, SettingsSaved, SettingsNotSaved, SavedElsewhere, RetentionNotLoaded,
     handleSaveRetention, RetentionNotSaved, setRetentionDays, setDays, UsageAnswer, UsageError, settingsVars, formState
  <2> QED BY <1>0, <2>1
<1>5. org' \in Orgs
  <2>1. CASE SettingsUpdated
    BY <1>0, <2>1 DEF SettingsUpdated, Orgs
  <2>2. CASE \E v \in Thresholds, u \in Templates : SavedElsewhere(v, u)
    <3>1. PICK v \in Thresholds, u \in Templates : SavedElsewhere(v, u)
      BY <2>2
    <3>2. org' = [org EXCEPT !.threshold = v, !.template = u]
      BY <3>1 DEF SavedElsewhere
    <3> QED BY <1>0, <3>2 DEF Orgs
  <2>3. CASE UNCHANGED org
    BY <1>0, <2>3
  <2> QED BY <2>1, <2>2, <2>3, Zenon DEF SettingsNext, SettingsRead, SettingsLoaded, SettingsNotLoaded, setThreshold, setTemplateId,
     Edit, handleSaveDefaults, SettingsSaved, SettingsNotSaved, RetentionNotLoaded,
     handleSaveRetention, RetentionNotSaved, setRetentionDays, setDays, UsageAnswer, UsageError, settingsVars, formState
<1>6. values' \in Values
  <2>1. CASE \E v \in Thresholds : setThreshold(v)
    BY <1>0, <2>1 DEF setThreshold, Edit
  <2>2. CASE \E v \in Templates : setTemplateId(v)
    BY <1>0, <2>2 DEF setTemplateId, Edit
  <2>3. CASE \E v \in {30, 90} : setRetentionDays(v)
    BY <1>0, <2>3 DEF setRetentionDays, Edit
  <2>4. CASE SettingsLoaded
    BY <1>0, <2>4 DEF SettingsLoaded
  <2>5. CASE UNCHANGED values
    BY <1>0, <2>5
  <2> QED BY <2>1, <2>2, <2>3, <2>4, <2>5 DEF SettingsNext, SettingsRead, SettingsNotLoaded, handleSaveDefaults,
     SettingsUpdated, SettingsSaved, SettingsNotSaved, SavedElsewhere, RetentionNotLoaded, handleSaveRetention,
     RetentionNotSaved, setDays, UsageAnswer, UsageError, settingsVars, formState
<1>7. load' \in Loads
  <2>1. CASE SettingsRead
    BY <1>0, <2>1 DEF SettingsRead, Orgs
  <2>2. CASE load' = [load EXCEPT !.at = "done"]
    BY <1>0, <2>2
  <2>3. CASE UNCHANGED load
    BY <1>0, <2>3
  <2> QED BY <2>1, <2>2, <2>3 DEF SettingsNext, SettingsLoaded, SettingsNotLoaded, setThreshold, setTemplateId, Edit,
     handleSaveDefaults, SettingsUpdated, SettingsSaved, SettingsNotSaved, SavedElsewhere, RetentionNotLoaded,
     handleSaveRetention, RetentionNotSaved, setRetentionDays, setDays, UsageAnswer, UsageError, settingsVars, formState
<1>8. saving' \in Savings
  <2>1. CASE handleSaveDefaults
    BY <1>0, <2>1 DEF handleSaveDefaults
  <2>2. CASE SettingsUpdated
    BY <1>0, <2>2 DEF SettingsUpdated
  <2>3. CASE saving' = NotSaving \/ saving' = [NotSaving EXCEPT !.at = "sent"]
    BY <2>3 DEF NotSaving
  <2>4. CASE UNCHANGED saving
    BY <1>0, <2>4
  <2> QED BY <2>1, <2>2, <2>3, <2>4 DEF SettingsNext, SettingsRead, SettingsLoaded, SettingsNotLoaded, setThreshold,
     setTemplateId, Edit, SettingsSaved, SettingsNotSaved, SavedElsewhere, RetentionNotLoaded, handleSaveRetention,
     RetentionNotSaved, setRetentionDays, setDays, UsageAnswer, UsageError, settingsVars, formState
<1> QED BY <1>1, <1>2, <1>3, <1>4, <1>5, <1>6, <1>7, <1>8 DEF SettingsTyped, SettingsTypeOK, Orgs

(* Nothing of a save is touched.                                            *)
LEMMA SettingsKept ==
    ASSUME SettingsInv, SettingsTyped', UNCHANGED <<form, isAdmin, org, formState>>,
           overtaken' <=> overtaken
    PROVE  SettingsInv'
BY DEF SettingsInv, formState, OnlyDefaultsSave, SentIsShown, WrittenIsSent, SavedIsShown, Same

(* An edit takes the notice from the page, and overtakes a save.            *)
LEMMA EditKeeps ==
    ASSUME SettingsInv, SettingsTyped', NEW f, NEW v, Edit(f, v)
    PROVE  SettingsInv'
<1>1. ~saved'
  BY Zenon DEF Edit
<1>2. saving.at = "idle" \/ overtaken'
  BY Zenon DEF Edit
<1>3. UNCHANGED <<form, isAdmin, org, saving>>
  BY Zenon DEF Edit
<1> QED BY <1>1, <1>2, <1>3 DEF SettingsInv, OnlyDefaultsSave, SentIsShown, WrittenIsSent,
                                SavedIsShown, Same

LEMMA SettingsStep == SettingsInv /\ [SettingsNext]_settingsVars => SettingsInv'
<1> SUFFICES ASSUME SettingsInv, [SettingsNext]_settingsVars PROVE SettingsInv'
  OBVIOUS
<1>0. /\ SettingsTyped /\ SettingsTyped' /\ saves \in Nat
      /\ form \in {"defaults", "retention", "usage"}
  BY SettingsTypes DEF SettingsInv, SettingsTyped, SettingsTypeOK
<1> USE DEF OnlyDefaultsSave, SentIsShown, WrittenIsSent, SavedIsShown, Same
<1>1. CASE SettingsRead
  <2>1. load'.at = "read" /\ load.at = "asked" /\ UNCHANGED <<form, isAdmin, org, formState, overtaken, saves>>
    BY <1>1 DEF SettingsRead
  <2> QED BY <1>0, <2>1, SettingsKept
<1>2. CASE SettingsLoaded
  <2>1. /\ form = "defaults" /\ UNCHANGED <<form, isAdmin, org, saving, saved>>
        /\ overtaken' <=> (overtaken \/ (values' # values /\ (saved \/ saving.at # "idle")))
    BY <1>2, Zenon DEF SettingsLoaded
  <2> QED BY <1>0, <2>1 DEF SettingsInv
<1>3. CASE SettingsNotLoaded
  <2>1. UNCHANGED <<form, isAdmin, org, formState, overtaken, saves>>
    BY <1>3 DEF SettingsNotLoaded
  <2> QED BY <1>0, <2>1, SettingsKept
<1>4. ASSUME NEW f, NEW v, Edit(f, v) PROVE SettingsInv'
  BY <1>0, <1>4, EditKeeps
<1>5. CASE handleSaveDefaults
  <2>1. /\ form = "defaults" /\ saving.at = "idle" /\ UNCHANGED <<form, isAdmin, org, load, values, saved>>
        /\ saving' = [at |-> "sent", threshold |-> values.threshold, template |-> values.template]
        /\ overtaken' <=> (overtaken /\ saved)
    BY <1>5, Zenon DEF handleSaveDefaults
  <2>2. Same(saving', values) /\ saving'.at = "sent"
    BY <2>1
  <2> QED BY <1>0, <2>1, <2>2 DEF SettingsInv
<1>6. CASE SettingsUpdated
  <2>1. /\ form = "defaults" /\ saving.at = "sent" /\ UNCHANGED <<form, isAdmin, load, values, saved, overtaken, saves>>
        /\ saving' = [saving EXCEPT !.at = "written"]
        /\ org' = IF isAdmin THEN [org EXCEPT !.threshold = saving.threshold, !.template = saving.template] ELSE org
    BY <1>6 DEF SettingsUpdated
  <2>2. Same(saving', saving) /\ saving'.at = "written"
    BY <1>0, <2>1 DEF SettingsTyped
  <2>3. isAdmin => Same(org', saving)
    BY <1>0, <2>1 DEF SettingsTyped, SettingsTypeOK
  <2> QED BY <1>0, <2>1, <2>2, <2>3 DEF SettingsInv
<1>7. CASE SettingsSaved
  <2>1. /\ form = "defaults" /\ saving.at = "written" /\ UNCHANGED <<form, isAdmin, org, load, values, overtaken, saves>>
        /\ saving'.at = "idle"
    BY <1>7 DEF SettingsSaved, NotSaving
  <2> QED BY <1>0, <2>1 DEF SettingsInv
<1>8. CASE SettingsNotSaved
  <2>1. form = "defaults" /\ UNCHANGED <<form, isAdmin, org, load, values, saved, overtaken>>
    BY <1>8 DEF SettingsNotSaved
  <2>2. saving.at # "idle" /\ saving'.at = "idle"
    BY <1>8 DEF SettingsNotSaved, NotSaving
  <2> QED BY <1>0, <2>1, <2>2 DEF SettingsInv
<1>9. ASSUME NEW v, NEW t, SavedElsewhere(v, t) PROVE SettingsInv'
  <2>1. /\ form = "defaults" /\ UNCHANGED <<form, isAdmin, values, saving, saved>>
        /\ overtaken' <=> (overtaken \/ saved \/ saving.at = "written")
    BY <1>9, Zenon DEF SavedElsewhere, formState
  <2> QED BY <1>0, <2>1 DEF SettingsInv
<1>10. CASE RetentionNotLoaded
  <2>1. form = "retention" /\ UNCHANGED <<form, isAdmin, org, formState, overtaken, saves>>
    BY <1>10 DEF RetentionNotLoaded
  <2> QED BY <1>0, <2>1 DEF SettingsInv, formState
<1>11. CASE handleSaveRetention \/ RetentionNotSaved
  <2>1. form = "retention" /\ UNCHANGED <<form, saved>>
    BY <1>11 DEF handleSaveRetention, RetentionNotSaved
  <2> QED BY <1>0, <2>1 DEF SettingsInv
<1>12. CASE UNCHANGED settingsVars
  BY <1>0, <1>12, SettingsKept DEF settingsVars, formState
<1>13. ASSUME UNCHANGED <<form, isAdmin, org, load, formState, overtaken, saves>> PROVE SettingsInv'
  BY <1>0, <1>13, SettingsKept
<1> QED
  BY <1>1, <1>2, <1>3, <1>4, <1>5, <1>6, <1>7, <1>8, <1>9, <1>10, <1>11, <1>12, <1>13
  DEF SettingsNext, setThreshold, setTemplateId, setRetentionDays, setDays, UsageAnswer, UsageError

(* While the settings page says "saved successfully", an admin's             *)
(* organisation has what the form shows, for any settings and any number of *)
(* failed loads, edits, saves, failures and retries, unless `overtaken`: the *)
(* form was edited between the save's click and its answer, a load changed  *)
(* it then or under the notice, or somebody else saved after this page's    *)
(* write; and the retention form never says it saved (settings/page.tsx).   *)
THEOREM SavedIsTrue == SettingsSpec => []SavedIsStored
<1>1. SettingsSpec => []SettingsInv
  BY SettingsInitially, SettingsStep, PTL DEF SettingsSpec
<1>2. SettingsInv => SavedIsStored
  <2> SUFFICES ASSUME SettingsInv, saved, isAdmin, ~overtaken PROVE SavedIsStored
    BY DEF SavedIsStored
  <2>1. form = "defaults"
    BY DEF SettingsInv, OnlyDefaultsSave
  <2>2. Same(org, values)
    BY <2>1 DEF SettingsInv, SavedIsShown
  <2> QED BY <2>1, <2>2 DEF SavedIsStored, Same
<1> QED BY <1>1, <1>2, PTL

-----------------------------------------------------------------------------
(* JobPosting.  The form knows the job it was opened with, and a write      *)
(* those it was opened and sent with; a job that was reopened last is one   *)
(* whose page shows it published, so that nothing is reopened there.        *)

EditKnown == editing.open => \E b \in Posts :
    /\ editing.base = {b}
    /\ "closes" \notin editing.touched => editing.closes = b.closes
    /\ "status" \notin editing.touched => (editing.publish_now <=> b.status = "published")

WriteKnown == writing.at # "idle" => \A p \in Posts : writing.base = {p} =>
    /\ "closes" \notin writing.touched => writing.closes = p.closes
    /\ "status" \notin writing.touched => writing.status = p.status

Ahead(date) == date = 0 \/ date > reopen.clicked

ReopenAhead ==
    /\ reopen.saving = "sent" => Ahead(reopen.closes)
    /\ lastWriter = "reopen" => /\ ~reopen.open /\ reopen.saving = "no"
                                /\ post.status = "published" /\ job.status = "published"
                                /\ Ahead(job.closes)

PostingInv == PostingTypeOK /\ EditKnown /\ WriteKnown /\ ReopenAhead

Editings == [open : BOOLEAN, publish_now : BOOLEAN, closes : Dates, base : SUBSET Posts,
             touched : SUBSET {"closes", "status"}]
Writings == [at : {"idle", "template", "post", "private"}, closes : Dates, base : SUBSET Posts,
             touched : SUBSET {"closes", "status"}, status : JobStatuses]
Reopens == [open : BOOLEAN, date : Dates, noClosingDate : BOOLEAN, enabled : BOOLEAN,
            saving : {"no", "sent"}, closes : Dates, clicked : Nat]

LEMMA NothingBegun ==
    /\ NotEditing \in Editings /\ ~NotEditing.open
    /\ NotWriting \in Writings /\ NotWriting.at = "idle"
    /\ NotReopening \in Reopens /\ ~NotReopening.open /\ NotReopening.saving = "no"
<1>1. FALSE \in BOOLEAN /\ 0 \in Dates /\ {} \in SUBSET Posts /\ {} \in SUBSET {"closes", "status"} /\ 0 \in Nat
      /\ "draft" \in JobStatuses
  BY PostingAssumption DEF JobStatuses
<1>2. NotEditing \in Editings
  BY <1>1 DEF NotEditing, Editings
<1>3. NotWriting \in Writings
  BY <1>1 DEF NotWriting, Writings
<1>4. NotReopening \in Reopens
  BY <1>1 DEF NotReopening, Reopens
<1> QED BY <1>2, <1>3, <1>4 DEF NotEditing, NotWriting, NotReopening

LEMMA PostingInitially == PostingInit => PostingInv
<1> SUFFICES ASSUME PostingInit PROVE PostingInv
  OBVIOUS
<1>1. /\ job \in Posts /\ post \in Posts /\ now \in Nat /\ writes \in Nat
      /\ changing \in JobStatuses \union {"none"}
      /\ lastWriter = "elsewhere"
  BY DEF PostingInit, Posts, JobStatuses
<1>2. editing = NotEditing /\ writing = NotWriting /\ reopen = NotReopening
  BY DEF PostingInit
<1>3. PostingTypeOK
  BY <1>1, <1>2, NothingBegun DEF PostingTypeOK, Editings, Writings, Reopens
<1> QED BY <1>1, <1>2, <1>3, NothingBegun DEF PostingInv, EditKnown, WriteKnown, ReopenAhead

LEMMA PostingTypes == PostingTypeOK <=>
    /\ now \in Nat /\ writes \in Nat /\ job \in Posts /\ post \in Posts
    /\ editing \in Editings /\ writing \in Writings /\ reopen \in Reopens
    /\ changing \in JobStatuses \union {"none"}
    /\ lastWriter \in {"cron", "elsewhere", "button", "edit", "reopen"}
BY Zenon DEF PostingTypeOK, Editings, Writings, Reopens

(* A step that writes the job, by anyone but the reopen dialog.             *)
LEMMA WrittenByOther ==
    ASSUME PostingInv, PostingTypeOK', lastWriter' # "reopen", EditKnown', WriteKnown', reopen' = reopen
    PROVE  PostingInv'
BY DEF PostingInv, ReopenAhead, Ahead

(* A step of the edit form, which writes nothing.                           *)
LEMMA FormKeeps ==
    ASSUME PostingInv, editing' \in Editings, EditKnown', UNCHANGED <<now, job, post, writing, changing, reopen, writes, lastWriter>>
    PROVE  PostingInv'
<1>1. PostingTypeOK'
  BY PostingTypes DEF PostingInv, PostingTypeOK, Editings
<1> QED BY <1>1 DEF PostingInv, WriteKnown, ReopenAhead, Ahead

(* A step of the reopen dialog before its answer.                           *)
LEMMA DialogKeepsAhead ==
    ASSUME PostingInv, reopen' \in Reopens, writes' \in Nat,
           UNCHANGED <<now, job, post, editing, writing, changing, lastWriter>>,
           UNCHANGED <<reopen.saving, reopen.closes, reopen.clicked>>,
           lastWriter = "reopen" => ~reopen'.open
    PROVE  PostingInv'
<1>1. PostingTypeOK'
  BY PostingTypes DEF PostingInv, PostingTypeOK, Reopens
<1>2. reopen'.saving = reopen.saving /\ reopen'.closes = reopen.closes /\ reopen'.clicked = reopen.clicked
  OBVIOUS
<1> QED BY <1>1, <1>2 DEF PostingInv, EditKnown, WriteKnown, ReopenAhead, Ahead

LEMMA PostingStep == PostingInv /\ [PostingNext]_postingVars => PostingInv'
<1> SUFFICES ASSUME PostingInv, [PostingNext]_postingVars PROVE PostingInv'
  OBVIOUS
<1>0. /\ PostingTypeOK /\ now \in Nat /\ writes \in Nat /\ job \in Posts /\ post \in Posts
      /\ editing \in Editings /\ writing \in Writings /\ reopen \in Reopens
      /\ changing \in JobStatuses \union {"none"}
      /\ lastWriter \in {"cron", "elsewhere", "button", "edit", "reopen"}
  BY PostingTypes DEF PostingInv
<1>00. "closed" \in JobStatuses /\ "published" \in JobStatuses /\ 0 \in Dates
  BY PostingAssumption DEF JobStatuses
<1>1. CASE Tick
  <2>1. now + 1 \in Nat
    BY <1>0
  <2>2. PostingTypeOK'
    BY <1>0, <1>1, <2>1, PostingTypes DEF Tick, PostingTypeOK
  <2> QED BY <1>1, <2>2 DEF Tick, PostingInv, EditKnown, WriteKnown, ReopenAhead, Ahead
<1>2. CASE AutoClose
  <2>1. job' \in Posts /\ lastWriter' = "cron" /\ UNCHANGED <<now, post, editing, writing, changing, reopen, writes>>
    BY <1>0, <1>00, <1>2 DEF AutoClose, Written, Posts
  <2>2. PostingTypeOK' /\ EditKnown' /\ WriteKnown'
    BY <1>0, <2>1 DEF PostingTypeOK, PostingInv, EditKnown, WriteKnown
  <2> QED BY <2>1, <2>2, WrittenByOther
<1>3. ASSUME NEW s \in JobStatuses, update_job_status(s) PROVE PostingInv'
  <2>1. job' \in Posts /\ lastWriter' = "elsewhere" /\ UNCHANGED <<now, post, editing, writing, changing, reopen>>
    BY <1>0, <1>3 DEF update_job_status, Written, Posts
  <2>2. writes' \in Nat
    BY <1>0, <1>3 DEF update_job_status
  <2>3. PostingTypeOK' /\ EditKnown' /\ WriteKnown'
    BY <1>0, <2>1, <2>2 DEF PostingTypeOK, PostingInv, EditKnown, WriteKnown
  <2> QED BY <2>1, <2>3, WrittenByOther
<1>4. ASSUME NEW s \in JobStatuses, updateStatus(s) PROVE PostingInv'
  <2>1. changing' = s /\ UNCHANGED <<now, job, post, editing, writing, reopen, lastWriter>>
    BY <1>4 DEF updateStatus
  <2>2. writes' \in Nat
    BY <1>0, <1>4 DEF updateStatus
  <2>3. PostingTypeOK'
    BY <1>0, <2>1, <2>2 DEF PostingTypeOK
  <2> QED BY <2>1, <2>3 DEF PostingInv, EditKnown, WriteKnown, ReopenAhead, Ahead
<1>5. CASE StatusWritten
  <2>1. /\ changing # "none" /\ job' = [job EXCEPT !.status = changing] /\ changing' = "none" /\ post' = job'
        /\ lastWriter' = "button" /\ UNCHANGED <<now, editing, writing, reopen, writes>>
    BY <1>5 DEF StatusWritten, Written, Refreshed
  <2>2. job' \in Posts
    BY <1>0, <2>1 DEF Posts
  <2>3. PostingTypeOK' /\ EditKnown' /\ WriteKnown'
    BY <1>0, <2>1, <2>2 DEF PostingTypeOK, PostingInv, EditKnown, WriteKnown
  <2> QED BY <2>1, <2>3, WrittenByOther
<1>6. CASE StatusNotWritten
  <2>1. changing' = "none" /\ UNCHANGED <<now, job, post, editing, writing, reopen, writes, lastWriter>>
    BY <1>6 DEF StatusNotWritten
  <2>2. PostingTypeOK'
    BY <1>0, <2>1 DEF PostingTypeOK
  <2> QED BY <2>1, <2>2 DEF PostingInv, EditKnown, WriteKnown, ReopenAhead, Ahead
<1>7. CASE setEditing
  <2> DEFINE e == [open |-> TRUE, publish_now |-> post.status = "published", closes |-> post.closes,
                   base |-> {post}, touched |-> {}]
  <2>1. editing' = e /\ UNCHANGED <<now, job, post, writing, changing, reopen, writes, lastWriter>>
    BY <1>7 DEF setEditing
  <2>2. post.closes \in Dates /\ {post} \in SUBSET Posts /\ TRUE \in BOOLEAN /\ (post.status = "published") \in BOOLEAN
        /\ {} \in SUBSET {"closes", "status"}
    BY <1>0 DEF Posts
  <2>3. e \in Editings
    BY <2>2 DEF Editings
  <2>4. EditKnown'
    BY <1>0, <2>1 DEF EditKnown
  <2> QED BY <2>1, <2>3, <2>4, FormKeeps
<1>8. CASE CancelEdit
  <2>1. editing' = NotEditing /\ UNCHANGED <<now, job, post, writing, changing, reopen, writes, lastWriter>>
    BY <1>8 DEF CancelEdit
  <2> QED BY <2>1, NothingBegun, FormKeeps DEF EditKnown
<1>9. ASSUME NEW d \in Dates, EditDeadline(d) PROVE PostingInv'
  <2>1. /\ editing' = [editing EXCEPT !.closes = d, !.touched = @ \union {"closes"}]
        /\ UNCHANGED <<now, job, post, writing, changing, reopen, writes, lastWriter>>
    BY <1>9 DEF EditDeadline
  <2>2. editing' \in Editings
    BY <1>0, <2>1 DEF Editings
  <2>3. /\ editing'.open = editing.open /\ editing'.base = editing.base /\ editing'.publish_now = editing.publish_now
        /\ editing'.touched = editing.touched \union {"closes"}
    BY <1>0, <2>1 DEF Editings
  <2>4. EditKnown'
    BY <2>3 DEF PostingInv, EditKnown
  <2> QED BY <2>1, <2>2, <2>4, FormKeeps
<1>10. CASE EditPublish
  <2>1. /\ editing' = [editing EXCEPT !.publish_now = ~@, !.touched = @ \union {"status"}]
        /\ UNCHANGED <<now, job, post, writing, changing, reopen, writes, lastWriter>>
    BY <1>10 DEF EditPublish
  <2>2. editing' \in Editings
    BY <1>0, <2>1 DEF Editings
  <2>3. /\ editing'.open = editing.open /\ editing'.base = editing.base /\ editing'.closes = editing.closes
        /\ editing'.touched = editing.touched \union {"status"}
    BY <1>0, <2>1 DEF Editings
  <2>4. EditKnown'
    BY <2>3 DEF PostingInv, EditKnown
  <2> QED BY <2>1, <2>2, <2>4, FormKeeps
<1>11. CASE handleEditSubmit
  <2>1. /\ editing.open
        /\ writing' = [at |-> "template", closes |-> editing.closes, base |-> editing.base \union {post},
                       touched |-> editing.touched,
                       status |-> IF editing.publish_now THEN "published" ELSE post.status]
        /\ UNCHANGED <<now, job, post, editing, changing, reopen, lastWriter>>
    BY <1>11 DEF handleEditSubmit
  <2>2. writes' \in Nat
    BY <1>0, <1>11 DEF handleEditSubmit
  <2>3. writing' \in Writings
    <3>1. /\ editing.closes \in Dates /\ editing.base \union {post} \in SUBSET Posts
          /\ editing.touched \in SUBSET {"closes", "status"}
          /\ (IF editing.publish_now THEN "published" ELSE post.status) \in JobStatuses
      BY <1>0, <1>00 DEF Editings, Posts
    <3> QED BY <2>1, <3>1 DEF Writings
  <2>4. PostingTypeOK'
    BY <1>0, <2>1, <2>2, <2>3 DEF PostingTypeOK, Writings
  <2>5. PICK b \in Posts : /\ editing.base = {b}
                           /\ "closes" \notin editing.touched => editing.closes = b.closes
                           /\ "status" \notin editing.touched => (editing.publish_now <=> b.status = "published")
    BY <2>1 DEF PostingInv, EditKnown
  <2>6. WriteKnown'
    <3> SUFFICES ASSUME NEW p \in Posts, editing.base \union {post} = {p}
                 PROVE  /\ "closes" \notin editing.touched => editing.closes = p.closes
                        /\ "status" \notin editing.touched =>
                              (IF editing.publish_now THEN "published" ELSE post.status) = p.status
      BY <2>1 DEF WriteKnown
    <3>1. b = p /\ post = p
      BY <2>5
    <3> QED BY <2>5, <3>1
  <2> QED BY <2>1, <2>4, <2>6 DEF PostingInv, EditKnown, ReopenAhead, Ahead
<1>12. CASE TemplateWritten
  <2>1. /\ writing.at # "idle" /\ writing' = [writing EXCEPT !.at = "post"]
        /\ UNCHANGED <<now, job, post, editing, changing, reopen, writes, lastWriter>>
    BY <1>12 DEF TemplateWritten
  <2>2. /\ writing' \in Writings /\ writing'.base = writing.base /\ writing'.closes = writing.closes
        /\ writing'.touched = writing.touched /\ writing'.status = writing.status
    BY <1>0, <2>1 DEF Writings
  <2>3. PostingTypeOK'
    BY <1>0, <2>1, <2>2 DEF PostingTypeOK, Writings
  <2> QED BY <2>1, <2>2, <2>3 DEF PostingInv, EditKnown, WriteKnown, ReopenAhead, Ahead
<1>13. CASE PostWritten
  <2>1. /\ writing.at # "idle" /\ job' = [status |-> writing.status, closes |-> writing.closes]
        /\ writing' = [writing EXCEPT !.at = "private"]
        /\ lastWriter' = "edit" /\ UNCHANGED <<now, post, editing, changing, reopen, writes>>
    BY <1>13 DEF PostWritten, Written
  <2>2. /\ writing' \in Writings /\ writing'.base = writing.base /\ writing'.closes = writing.closes
        /\ writing'.touched = writing.touched /\ writing'.status = writing.status
    BY <1>0, <2>1 DEF Writings
  <2>3. job' \in Posts
    BY <1>0, <2>1 DEF Posts, Writings
  <2>4. PostingTypeOK'
    BY <1>0, <2>1, <2>2, <2>3 DEF PostingTypeOK, Writings
  <2>5. EditKnown' /\ WriteKnown'
    BY <2>1, <2>2 DEF PostingInv, EditKnown, WriteKnown
  <2> QED BY <2>1, <2>4, <2>5, WrittenByOther
<1>14. CASE PrivateWritten
  <2>1. /\ writing' = NotWriting /\ editing' = NotEditing /\ post' = job
        /\ UNCHANGED <<now, job, changing, reopen, writes, lastWriter>>
    BY <1>14 DEF PrivateWritten
  <2>2. PostingTypeOK' /\ EditKnown' /\ WriteKnown'
    BY <1>0, <2>1, NothingBegun, PostingTypes DEF PostingTypeOK, Editings, Writings, EditKnown, WriteKnown
  <2> QED BY <2>1, <2>2 DEF PostingInv, ReopenAhead, Ahead
<1>15. CASE EditFails
  <2>1. writing' = NotWriting /\ UNCHANGED <<now, job, post, editing, changing, reopen, writes, lastWriter>>
    BY <1>15 DEF EditFails
  <2>2. PostingTypeOK' /\ WriteKnown'
    BY <1>0, <2>1, NothingBegun DEF PostingTypeOK, Writings, WriteKnown
  <2> QED BY <2>1, <2>2 DEF PostingInv, EditKnown, ReopenAhead, Ahead
<1>16. ASSUME NEW d \in Reopens, reopen' = [d EXCEPT !.enabled = canConfirm(d)], d.open => lastWriter # "reopen",
              UNCHANGED <<now, job, post, editing, writing, changing, writes, lastWriter>>,
              d.saving = reopen.saving, d.closes = reopen.closes, d.clicked = reopen.clicked
       PROVE  PostingInv'
  <2>1. canConfirm(d) \in BOOLEAN
    BY DEF canConfirm, Reopens
  <2>2. /\ reopen' \in Reopens /\ reopen'.saving = d.saving /\ reopen'.closes = d.closes /\ reopen'.clicked = d.clicked
        /\ reopen'.open = d.open
    BY <1>16, <2>1 DEF Reopens
  <2> QED BY <1>0, <1>16, <2>2, DialogKeepsAhead
<1>17. CASE ReopenOpened
  <2> DEFINE d == [reopen EXCEPT !.open = TRUE, !.noClosingDate = FALSE, !.date = IF post.closes > now THEN post.closes ELSE 0]
  <2>1. /\ post.status = "closed" /\ reopen' = [d EXCEPT !.enabled = canConfirm(d)]
        /\ UNCHANGED <<now, job, post, editing, writing, changing, writes, lastWriter>>
    BY <1>17 DEF ReopenOpened, PostRendered
  <2>2. (IF post.closes > now THEN post.closes ELSE 0) \in Dates /\ TRUE \in BOOLEAN /\ FALSE \in BOOLEAN
    BY <1>0, <1>00 DEF Posts
  <2>3. d \in Reopens /\ d.saving = reopen.saving /\ d.closes = reopen.closes /\ d.clicked = reopen.clicked
    BY <1>0, <2>2 DEF Reopens
  <2>4. lastWriter # "reopen"
    BY <2>1 DEF PostingInv, ReopenAhead
  <2> HIDE DEF d
  <2> QED BY <1>16, <2>1, <2>3, <2>4
<1>18. CASE ReopenDismissed
  <2>1. /\ reopen' = [reopen EXCEPT !.open = FALSE, !.date = 0, !.noClosingDate = FALSE, !.enabled = FALSE]
        /\ UNCHANGED <<now, job, post, editing, writing, changing, writes, lastWriter>>
    BY <1>18 DEF ReopenDismissed
  <2>2. /\ reopen' \in Reopens /\ reopen'.saving = reopen.saving /\ reopen'.closes = reopen.closes
        /\ reopen'.clicked = reopen.clicked /\ ~reopen'.open
    BY <1>0, <1>00, <2>1 DEF Reopens
  <2> QED BY <1>0, <2>1, <2>2, DialogKeepsAhead
<1>19. ASSUME NEW e \in Dates, setDate(e) PROVE PostingInv'
  <2> DEFINE d == [reopen EXCEPT !.date = e]
  <2>1. /\ reopen.open /\ reopen' = [d EXCEPT !.enabled = canConfirm(d)]
        /\ UNCHANGED <<now, job, post, editing, writing, changing, writes, lastWriter>>
    BY <1>19 DEF setDate, PostRendered
  <2>2. d \in Reopens /\ d.saving = reopen.saving /\ d.closes = reopen.closes /\ d.clicked = reopen.clicked
    BY <1>0 DEF Reopens
  <2>3. lastWriter # "reopen"
    BY <2>1 DEF PostingInv, ReopenAhead
  <2> HIDE DEF d
  <2> QED BY <1>16, <2>1, <2>2, <2>3
<1>20. CASE setNoClosingDate
  <2> DEFINE d == [reopen EXCEPT !.noClosingDate = ~@]
  <2>1. /\ reopen.open /\ reopen' = [d EXCEPT !.enabled = canConfirm(d)]
        /\ UNCHANGED <<now, job, post, editing, writing, changing, writes, lastWriter>>
    BY <1>20 DEF setNoClosingDate, PostRendered
  <2>2. d \in Reopens /\ d.saving = reopen.saving /\ d.closes = reopen.closes /\ d.clicked = reopen.clicked
    BY <1>0 DEF Reopens
  <2>3. lastWriter # "reopen"
    BY <2>1 DEF PostingInv, ReopenAhead
  <2> HIDE DEF d
  <2> QED BY <1>16, <2>1, <2>2, <2>3
<1>21. CASE handleReopen
  <2>1. /\ reopen.open /\ reopen.saving = "no" /\ UNCHANGED <<now, job, post, editing, writing, changing, lastWriter>>
        /\ lastWriter # "reopen"
    BY <1>21 DEF handleReopen, PostingInv, ReopenAhead
  <2>2. CASE DateIsFuture
    <3> DEFINE c == IF reopen.noClosingDate THEN 0 ELSE reopen.date
    <3>1. reopen' = [reopen EXCEPT !.saving = "sent", !.clicked = now, !.closes = c]
      BY <1>21, <2>2 DEF handleReopen
    <3>2. writes' \in Nat
      BY <1>0, <1>21, <2>2 DEF handleReopen
    <3>3. c \in Dates /\ (c = 0 \/ c > now)
      BY <1>0, <1>00, <2>2 DEF Reopens, DateIsFuture
    <3> HIDE DEF c
    <3>4. reopen' \in Reopens /\ reopen'.closes = c /\ reopen'.clicked = now
      BY <1>0, <3>1, <3>3 DEF Reopens
    <3>5. PostingTypeOK'
      BY <1>0, <2>1, <3>2, <3>4 DEF PostingTypeOK, Reopens
    <3>6. ReopenAhead'
      BY <2>1, <3>3, <3>4 DEF ReopenAhead, Ahead
    <3> QED BY <2>1, <3>5, <3>6 DEF PostingInv, EditKnown, WriteKnown
  <2>3. CASE ~DateIsFuture
    <3>1. reopen' = [reopen EXCEPT !.enabled = canConfirm(reopen)] /\ UNCHANGED writes
      BY <1>21, <2>3 DEF handleReopen, PostRendered
    <3> QED BY <1>0, <1>16, <2>1, <3>1
  <2> QED BY <2>2, <2>3
<1>22. CASE ReopenWritten
  <2>1. /\ reopen.saving = "sent" /\ job' = [status |-> "published", closes |-> reopen.closes]
        /\ reopen' = [NotReopening EXCEPT !.clicked = reopen.clicked] /\ post' = job' /\ lastWriter' = "reopen"
        /\ UNCHANGED <<now, editing, writing, changing, writes>>
    BY <1>22 DEF ReopenWritten, Refreshed, Written
  <2>2. job' \in Posts /\ job'.status = "published" /\ job'.closes = reopen.closes
    BY <1>0, <1>00, <2>1 DEF Posts, Reopens
  <2>3. /\ reopen' \in Reopens /\ reopen'.clicked = reopen.clicked /\ ~reopen'.open /\ reopen'.saving = "no"
    BY <1>0, <2>1, NothingBegun DEF Reopens
  <2>4. PostingTypeOK'
    BY <1>0, <2>1, <2>2, <2>3 DEF PostingTypeOK, Reopens
  <2>5. ReopenAhead'
    BY <2>1, <2>2, <2>3 DEF PostingInv, ReopenAhead, Ahead
  <2> QED BY <2>1, <2>4, <2>5 DEF PostingInv, EditKnown, WriteKnown
<1>23. CASE ReopenRefused
  <2>1. /\ reopen.saving = "sent" /\ reopen' = [reopen EXCEPT !.saving = "no"]
        /\ UNCHANGED <<now, job, post, editing, writing, changing, writes, lastWriter>>
    BY <1>23 DEF ReopenRefused
  <2>2. reopen' \in Reopens /\ reopen'.saving = "no"
    BY <1>0, <2>1 DEF Reopens
  <2>3. PostingTypeOK'
    BY <1>0, <2>1, <2>2 DEF PostingTypeOK, Reopens
  <2> QED BY <2>1, <2>2, <2>3 DEF PostingInv, EditKnown, WriteKnown, ReopenAhead
<1>24. CASE OpenJobPage
  <2>1. post' = job /\ UNCHANGED <<now, job, editing, writing, changing, reopen, writes, lastWriter>>
    BY <1>24 DEF OpenJobPage
  <2>2. PostingTypeOK'
    BY <1>0, <2>1 DEF PostingTypeOK
  <2> QED BY <2>1, <2>2 DEF PostingInv, EditKnown, WriteKnown, ReopenAhead, Ahead
<1>25. CASE UNCHANGED postingVars
  BY <1>25 DEF postingVars, PostingInv, PostingTypeOK, EditKnown, WriteKnown, ReopenAhead, Ahead
<1>26. CASE PageNext
  BY <1>4, <1>5, <1>6, <1>7, <1>8, <1>9, <1>10, <1>11, <1>12, <1>13, <1>14, <1>15, <1>17, <1>18, <1>19, <1>20, <1>21,
     <1>22, <1>23, <1>24, <1>26 DEF PageNext
<1> QED BY <1>1, <1>2, <1>3, <1>25, <1>26 DEF PostingNext

(* What each step writes is meant by the one who takes it.                  *)
LEMMA StepIsMeant ==
    ASSUME PostingInv, [PostingNext]_postingVars
    PROVE  /\ lastWriter' = "reopen" /\ job' # job => job.status = "closed"
           /\ lastWriter = "reopen" /\ lastWriter' = "cron" => now > reopen.clicked
           /\ writing.at = "post" /\ writing'.at = "private" /\ writing.base = {job} =>
                 /\ job'.status # job.status => "status" \in writing.touched
                 /\ job'.closes # job.closes => "closes" \in writing.touched
<1>0. /\ now \in Nat /\ job \in Posts /\ writing \in Writings /\ reopen \in Reopens
  BY PostingTypes DEF PostingInv
<1>1. CASE AutoClose
  <2>1. /\ job.closes # 0 /\ job.closes < now /\ lastWriter' = "cron" /\ UNCHANGED writing
    BY <1>1 DEF AutoClose, Written
  <2>2. lastWriter = "reopen" => now > reopen.clicked
    <3>1. job.closes \in Nat /\ reopen.clicked \in Nat
      BY <1>0, PostingAssumption DEF Posts, Reopens
    <3> QED BY <1>0, <2>1, <3>1 DEF PostingInv, ReopenAhead, Ahead
  <2> QED BY <2>1, <2>2
<1>2. CASE ReopenWritten
  BY <1>2 DEF ReopenWritten, StillClosed, Written
<1>3. CASE PostWritten
  <2>1. /\ writing.at = "post" /\ job' = [status |-> writing.status, closes |-> writing.closes] /\ lastWriter' = "edit"
    BY <1>3 DEF PostWritten, Written
  <2> QED BY <1>0, <2>1 DEF PostingInv, WriteKnown
<1>4. CASE \/ UNCHANGED <<job, lastWriter>>
           \/ lastWriter' \in {"elsewhere", "button"} /\ UNCHANGED writing
  BY <1>4
<1> QED BY <1>1, <1>2, <1>3, <1>4 DEF PostingNext, PageNext, Tick, update_job_status, updateStatus, StatusWritten,
     StatusNotWritten, setEditing, CancelEdit, EditDeadline, EditPublish, handleEditSubmit, TemplateWritten,
     PrivateWritten, EditFails, ReopenOpened, ReopenDismissed, setDate, setNoClosingDate, handleReopen, ReopenRefused,
     OpenJobPage, postingVars, Written

(* For any dates and any number of writes: the reopen dialog writes closed  *)
(* jobs only, the database closes a reopened one only when time has gone by *)
(* since the click, and the edit form, sent for a job that is as it was     *)
(* when the form was opened, changes what its user changed.  Of the status  *)
(* buttons, and of a form sent for a job changed meanwhile, nothing is said *)
(* (job-detail-client.tsx, reopen-job-dialog.tsx).                          *)
THEOREM WritesAreMeant == PostingSpec => ChangesAreMeant
<1>1. PostingSpec => []PostingInv
  BY PostingInitially, PostingStep, PTL DEF PostingSpec
<1>2. PostingInv /\ [PostingNext]_postingVars =>
        [/\ lastWriter' = "reopen" /\ job' # job => job.status = "closed"
         /\ lastWriter = "reopen" /\ lastWriter' = "cron" => now > reopen.clicked
         /\ writing.at = "post" /\ writing'.at = "private" /\ writing.base = {job} =>
               /\ job'.status # job.status => "status" \in writing.touched
               /\ job'.closes # job.closes => "closes" \in writing.touched]_postingVars
  BY StepIsMeant
<1> QED BY <1>1, <1>2, PTL DEF PostingSpec, ChangesAreMeant

-----------------------------------------------------------------------------
(* JobList.  What is being rendered is the tab that looks active, and what  *)
(* was read is current, unless news or a waiting refresh ask for more.      *)

RowLists == UNION {[J -> JobRows] : J \in SUBSET Jobs}
Renderings == [tab : Tabs, at : {"none", "asked", "read"}, rows : RowLists]

JobListTyped ==
    /\ jobPosts \in [Jobs -> JobRows]
    /\ unheard \in BOOLEAN /\ subscribed \in BOOLEAN
    /\ tab \in Tabs /\ clicked \in Tabs \union {"none"}
    /\ rendering \in Renderings
    /\ shownRows \in RowLists
    /\ order \in [key : {"created_at", "closes_at"}, direction : {"asc", "desc"}]

NewsCounted ==
    /\ used \in [changes : Nat, clicks : Nat] /\ used.changes <= MaxChanges
    /\ news \in Nat /\ refreshes \in Nat /\ news + refreshes <= used.changes

ActiveIsRendered ==
    /\ clicked # "none" => rendering.at # "none" /\ rendering.tab = clicked
    /\ clicked = "none" /\ rendering.at # "none" => rendering.tab = tab

RefreshWaits == refreshes > 0 => rendering.at # "none"

ReadIsCurrent ==
    ~unheard /\ news = 0 /\ refreshes = 0 =>
        /\ rendering.at = "read" => rendering.rows = OfTab(rendering.tab)
        /\ rendering.at = "none" => shownRows = OfTab(tab)

JobListInv == JobListTyped /\ NewsCounted /\ ActiveIsRendered /\ RefreshWaits /\ ReadIsCurrent

LEMMA TabRows == ASSUME jobPosts \in [Jobs -> JobRows], NEW t PROVE OfTab(t) \in RowLists
<1> DEFINE J == {k \in Jobs : t = "all" \/ jobPosts[k].status = t}
<1>1. OfTab(t) = [j \in J |-> jobPosts[j]]
  BY DEF OfTab
<1>2. J \in SUBSET Jobs /\ \A j \in J : jobPosts[j] \in JobRows
  OBVIOUS
<1> HIDE DEF J
<1>3. OfTab(t) \in [J -> JobRows]
  BY <1>1, <1>2
<1> QED BY <1>2, <1>3 DEF RowLists

LEMMA NoRowsTyped == NoRows \in RowLists /\ Unread \in Renderings /\ Unread.at = "none"
<1>1. NoRows \in [{} -> JobRows] /\ {} \in SUBSET Jobs
  BY DEF NoRows
<1>2. NoRows \in RowLists
  BY <1>1 DEF RowLists
<1> QED BY <1>2 DEF Unread, Renderings, Tabs

LEMMA JobListInitially == JobListInit => JobListInv
<1> SUFFICES ASSUME JobListInit PROVE JobListInv
  OBVIOUS
<1>1. unheard \in BOOLEAN /\ subscribed \in BOOLEAN
  BY Zenon DEF JobListInit
<1>2. JobListTyped
  BY <1>1, TabRows, NoRowsTyped DEF JobListInit, JobListTyped, Tabs
<1>3. NewsCounted
  BY JobListAssumption DEF JobListInit, NewsCounted
<1>4. ActiveIsRendered /\ RefreshWaits /\ ReadIsCurrent
  BY NoRowsTyped DEF JobListInit, ActiveIsRendered, RefreshWaits, ReadIsCurrent
<1> QED BY <1>2, <1>3, <1>4 DEF JobListInv

LEMMA JobListStep == JobListInv /\ [JobListNext]_jobListVars => JobListInv'
<1> SUFFICES ASSUME JobListInv, [JobListNext]_jobListVars PROVE JobListInv'
  OBVIOUS
<1> USE DEF JobListInv
<1>0. /\ used \in [changes : Nat, clicks : Nat] /\ news \in Nat /\ refreshes \in Nat /\ news + refreshes <= used.changes
      /\ used.changes <= MaxChanges /\ MaxChanges \in Nat
  BY JobListAssumption DEF NewsCounted
<1>1. ASSUME NEW j \in Jobs, NEW row \in JobRows, PostChanges(j, row) PROVE JobListInv'
  <2> DEFINE n == used.changes + 1
  <2>1. /\ used.changes < MaxChanges /\ used' = [used EXCEPT !.changes = n]
        /\ jobPosts' = [jobPosts EXCEPT ![j] = row]
        /\ news' = IF subscribed THEN news + 1 ELSE news
        /\ UNCHANGED <<subscribed, tab, clicked, rendering, refreshes, shownRows, order>>
    BY <1>1 DEF PostChanges
  <2>2. unheard' \in BOOLEAN /\ (unheard' <=> (unheard \/ ~subscribed))
    BY <1>1, Zenon DEF PostChanges
  <2>3. n \in Nat /\ n <= MaxChanges
    BY <1>0, <2>1
  <2>4. news' \in Nat /\ news' + refreshes <= n /\ (subscribed => news' # 0)
    BY <1>0, <2>1
  <2> HIDE DEF n
  <2>5. used' \in [changes : Nat, clicks : Nat] /\ used'.changes = n
    BY <1>0, <2>1, <2>3
  <2>6. NewsCounted'
    BY <1>0, <2>1, <2>3, <2>4, <2>5 DEF NewsCounted
  <2>7. JobListTyped'
    BY <2>1, <2>2 DEF JobListTyped
  <2>8. ReadIsCurrent'
    BY <2>2, <2>4 DEF ReadIsCurrent
  <2> QED BY <2>1, <2>6, <2>7, <2>8 DEF ActiveIsRendered, RefreshWaits
<1>2. CASE ChannelJoined
  <2>1. UNCHANGED <<jobPosts, unheard, news, tab, clicked, rendering, refreshes, shownRows, order, used>>
    BY <1>2 DEF ChannelJoined
  <2>2. subscribed' \in BOOLEAN
    BY <1>2, Zenon DEF ChannelJoined
  <2> QED BY <2>1, <2>2 DEF JobListTyped, NewsCounted, ActiveIsRendered, RefreshWaits, ReadIsCurrent, OfTab
<1>3. CASE JobEvent
  <2>1. news > 0 /\ news' = news - 1 /\ UNCHANGED <<jobPosts, unheard, subscribed, tab, clicked, shownRows, order, used>>
    BY <1>3 DEF JobEvent
  <2>2. CASE rendering.at = "none"
    <3>1. rendering' = [tab |-> tab, at |-> "asked", rows |-> NoRows] /\ refreshes' = refreshes
      BY <1>3, <2>2 DEF JobEvent
    <3>2. JobListTyped'
      BY <2>1, <3>1, NoRowsTyped DEF JobListTyped, Renderings
    <3>3. NewsCounted'
      BY <1>0, <2>1, <3>1 DEF NewsCounted
    <3> QED BY <2>1, <2>2, <3>1, <3>2, <3>3 DEF ActiveIsRendered, RefreshWaits, ReadIsCurrent
  <2>3. CASE rendering.at # "none"
    <3>1. rendering' = rendering /\ refreshes' = refreshes + 1
      BY <1>3, <2>3 DEF JobEvent
    <3>2. JobListTyped'
      BY <2>1, <3>1 DEF JobListTyped
    <3>3. NewsCounted' /\ refreshes' # 0
      BY <1>0, <2>1, <3>1 DEF NewsCounted
    <3> QED BY <2>1, <2>3, <3>1, <3>2, <3>3 DEF ActiveIsRendered, RefreshWaits, ReadIsCurrent
  <2> QED BY <2>2, <2>3
<1>4. ASSUME NEW t \in Tabs, ClickTab(t) PROVE JobListInv'
  <2> DEFINE n == used.clicks + 1
  <2>1. /\ clicked = "none" /\ clicked' = t /\ used' = [used EXCEPT !.clicks = n]
        /\ rendering' = [tab |-> t, at |-> "asked", rows |-> NoRows]
        /\ UNCHANGED <<jobPosts, unheard, news, subscribed, tab, refreshes, shownRows, order>>
    BY <1>4 DEF ClickTab, isPending
  <2>2. n \in Nat
    BY <1>0
  <2> HIDE DEF n
  <2>3. used' \in [changes : Nat, clicks : Nat] /\ used'.changes = used.changes
    BY <1>0, <2>1, <2>2
  <2>4. JobListTyped' /\ NewsCounted'
    BY <1>0, <2>1, <2>3, NoRowsTyped DEF JobListTyped, Renderings, NewsCounted
  <2>5. t # "none"
    BY DEF Tabs
  <2> QED BY <2>1, <2>4, <2>5 DEF ActiveIsRendered, RefreshWaits, ReadIsCurrent
<1>5. CASE JobsPage
  <2>1. /\ rendering.at = "asked" /\ rendering' = [rendering EXCEPT !.at = "read", !.rows = OfTab(rendering.tab)]
        /\ UNCHANGED <<jobPosts, unheard, news, subscribed, tab, clicked, refreshes, shownRows, order, used>>
    BY <1>5 DEF JobsPage
  <2>2. /\ rendering' \in Renderings /\ rendering'.at = "read" /\ rendering'.tab = rendering.tab
        /\ rendering'.rows = OfTab(rendering.tab)
    BY <2>1, TabRows DEF JobListTyped, Renderings
  <2>3. OfTab(rendering.tab)' = OfTab(rendering'.tab)
    BY <2>1 DEF OfTab
  <2> QED BY <2>1, <2>2, <2>3 DEF JobListTyped, NewsCounted, ActiveIsRendered, RefreshWaits, ReadIsCurrent, OfTab
<1>6. CASE JobsShown
  <2>1. /\ rendering.at = "read" /\ shownRows' = rendering.rows /\ tab' = rendering.tab
        /\ clicked' = IF clicked = rendering.tab THEN "none" ELSE clicked
        /\ UNCHANGED <<jobPosts, unheard, news, subscribed, order, used>>
    BY <1>6 DEF JobsShown
  <2>2. clicked' = "none"
    BY <2>1 DEF ActiveIsRendered
  <2>3. shownRows' \in RowLists /\ tab' \in Tabs
    BY <2>1 DEF JobListTyped, Renderings
  <2>4. CASE refreshes > 0
    <3>1. rendering' = [tab |-> rendering.tab, at |-> "asked", rows |-> NoRows] /\ refreshes' = refreshes - 1
      BY <1>6, <2>4 DEF JobsShown
    <3>2. NewsCounted'
      BY <1>0, <2>1, <2>4, <3>1 DEF NewsCounted
    <3>3. JobListTyped'
      BY <2>1, <2>2, <2>3, <3>1, NoRowsTyped DEF JobListTyped, Renderings
    <3> QED BY <2>1, <2>2, <3>1, <3>2, <3>3 DEF ActiveIsRendered, RefreshWaits, ReadIsCurrent
  <2>5. CASE ~(refreshes > 0)
    <3>1. rendering' = Unread /\ refreshes' = refreshes /\ refreshes = 0
      BY <1>0, <1>6, <2>5 DEF JobsShown
    <3>2. NewsCounted'
      BY <1>0, <2>1, <3>1 DEF NewsCounted
    <3>3. JobListTyped'
      BY <2>1, <2>2, <2>3, <3>1, NoRowsTyped DEF JobListTyped
    <3>4. ReadIsCurrent'
      BY <2>1, <3>1, NoRowsTyped DEF ReadIsCurrent, OfTab
    <3> QED BY <1>0, <2>2, <3>1, <3>2, <3>3, <3>4, NoRowsTyped DEF ActiveIsRendered, RefreshWaits
  <2> QED BY <2>4, <2>5
<1>7. ASSUME NEW key \in {"created_at", "closes_at"}, toggleSort(key) PROVE JobListInv'
  <2> DEFINE n == used.clicks + 1
  <2>1. /\ used' = [used EXCEPT !.clicks = n]
        /\ order' = [key |-> key, direction |-> IF order.key = key /\ order.direction = "asc" THEN "desc" ELSE "asc"]
        /\ UNCHANGED <<jobPosts, unheard, news, subscribed, tab, clicked, rendering, refreshes, shownRows>>
    BY <1>7 DEF toggleSort
  <2>2. n \in Nat
    BY <1>0
  <2> HIDE DEF n
  <2>3. used' \in [changes : Nat, clicks : Nat] /\ used'.changes = used.changes
    BY <1>0, <2>1, <2>2
  <2>4. JobListTyped' /\ NewsCounted'
    BY <1>0, <2>1, <2>3 DEF JobListTyped, NewsCounted
  <2> QED BY <2>1, <2>4 DEF ActiveIsRendered, RefreshWaits, ReadIsCurrent, OfTab
<1>8. CASE UNCHANGED jobListVars
  BY <1>8 DEF jobListVars, JobListTyped, NewsCounted, ActiveIsRendered, RefreshWaits, ReadIsCurrent, OfTab
<1> QED BY <1>1, <1>2, <1>3, <1>4, <1>5, <1>6, <1>7, <1>8 DEF JobListNext

(* The table is in an order of its posts: the sort compares what it should. *)
LEMMA SortedLast ==
    ASSUME JobListInv, order.key = "closes_at"
    PROVE  \A i, k \in DOMAIN sortedJobs :
              i < k /\ shownRows[sortedJobs[i]].closes = Never => shownRows[sortedJobs[k]].closes = Never
<1> DEFINE posts == DOMAIN shownRows
           c(j) == shownRows[j].closes
           R == {p \in posts \X posts : Before(p[1], p[2]) \/ (~Before(p[2], p[1]) /\ p[1] > p[2])}
           s == SortedBy(posts, R)
<1>1. posts \subseteq Jobs /\ \A j \in posts : shownRows[j] \in JobRows
  BY DEF JobListInv, JobListTyped, RowLists
<1>2. \A j \in posts : j \in Nat /\ c(j) \in Nat
  <2>1. \A j \in posts : j \in Nat
    BY <1>1, JobListAssumption
  <2>2. \A j \in posts : shownRows[j].closes \in Closings \union {Never}
    <3> HIDE DEF posts
    <3> QED BY <1>1 DEF JobRows
  <2>3. Closings \union {Never} \subseteq Nat
    BY JobListAssumption DEF Never
  <2> QED BY <2>1, <2>2, <2>3
<1>3. IsFiniteSet(posts)
  BY <1>1, FS_Subset, JobListAssumption
<1>4. \A a, b \in posts : Before(a, b) <=> /\ c(a) # Never
                                           /\ c(b) # Never => IF order.direction = "asc" THEN c(a) < c(b) ELSE c(b) < c(a)
  <2> SUFFICES ASSUME NEW a \in posts, NEW b \in posts
               PROVE  Before(a, b) <=> /\ c(a) # Never
                                       /\ c(b) # Never => IF order.direction = "asc" THEN c(a) < c(b) ELSE c(b) < c(a)
    OBVIOUS
  <2>1. accessor(a) = c(a) /\ accessor(b) = c(b)
    BY DEF accessor
  <2> HIDE DEF c
  <2>2. CASE c(a) = Never
    BY <2>1, <2>2 DEF Before
  <2>3. CASE c(a) # Never /\ c(b) = Never
    BY <2>1, <2>3 DEF Before
  <2>4. CASE c(a) # Never /\ c(b) # Never
    BY <2>1, <2>4 DEF Before
  <2> QED BY <2>2, <2>3, <2>4
<1>5. \A a, b \in posts : <<a, b>> \in R <=> Before(a, b) \/ (~Before(b, a) /\ a > b)
  OBVIOUS
<1>6. sortedJobs = s
  BY Zenon DEF sortedJobs
<1> HIDE DEF posts, c, R
<1>7. Orders(R, posts)
  <2>1. \A x \in posts : <<x, x>> \notin R
    BY <1>2, <1>4, <1>5
  <2>2. \A x, y \in posts : x # y => <<x, y>> \in R \/ <<y, x>> \in R
    BY <1>2, <1>4, <1>5
  <2>3. \A x, y, z \in posts : <<x, y>> \in R /\ <<y, z>> \in R => <<x, z>> \in R
    BY <1>2, <1>4, <1>5
  <2> QED BY <2>1, <2>2, <2>3 DEF Orders
<1>8. s \in [1 .. Cardinality(posts) -> posts] /\ \A m, n \in 1 .. Cardinality(posts) : m < n <=> <<s[m], s[n]>> \in R
  BY <1>3, <1>7, SortedByOrders
<1> HIDE DEF s
<1>9. ASSUME NEW i \in DOMAIN s, NEW k \in DOMAIN s, i < k, c(s[i]) = Never PROVE c(s[k]) = Never
  <2>1. s[i] \in posts /\ s[k] \in posts /\ <<s[i], s[k]>> \in R
    BY <1>8, <1>9
  <2> QED BY <1>4, <1>5, <1>9, <2>1
<1> QED BY <1>6, <1>9 DEF c

(* A quiet list of jobs shows the active tab's posts as they are, and those *)
(* without a closing date last, for any number of posts, changes and clicks *)
(* (jobs/page.tsx, jobs-realtime-wrapper.tsx, sortable-table.tsx).          *)
THEOREM QuietListIsCurrent == JobListSpec => []JobListIsCurrent
<1>1. JobListSpec => []JobListInv
  BY JobListInitially, JobListStep, PTL DEF JobListSpec
<1>2. JobListInv => JobListIsCurrent
  <2> SUFFICES ASSUME JobListInv PROVE JobListIsCurrent
    OBVIOUS
  <2>1. ASSUME rendering.at = "none", news = 0, ~unheard PROVE shownRows = OfTab(activeStatus)
    <3>1. ~(refreshes > 0) /\ refreshes \in Nat
      BY <2>1 DEF JobListInv, RefreshWaits, NewsCounted
    <3>2. clicked = "none" /\ refreshes = 0
      BY <2>1, <3>1 DEF JobListInv, ActiveIsRendered
    <3> QED BY <2>1, <3>2 DEF JobListInv, ReadIsCurrent, activeStatus, isPending
  <2> QED BY <2>1, SortedLast DEF JobListIsCurrent
<1> QED BY <1>1, <1>2, PTL

-----------------------------------------------------------------------------
(* The lists of those who may get in.  A row is told as it is unless an     *)
(* answer about it is still under way (Told): that of its invitation or     *)
(* creation, or of its change.  An invitation puts its row into the list a  *)
(* second time if a load brought it before; nothing else adds one.          *)

RowRecs == [who : People \union {"none"}, role : Roles, status : {"invited", "active", "deactivated", "revoked"}]
EntryRecs == [id : Nat, who : People \union {"none"}, role : Roles,
              status : {"invited", "active", "deactivated", "revoked"}]
CallRecs == [nr : Nat, op : {"load", "invite", "elsewhere", "role", "deactivate", "revokeGrant", "revokeKey", "create"},
             id : Nat, who : People \union {"none"}, role : Roles, at : {"sent", "checked", "refused", "ok"},
             got : Seq(EntryRecs)]

AccessTyped ==
    /\ list \in {"team", "clients", "keys"} /\ viewer \in Roles
    /\ rows \in Seq(RowRecs)
    /\ shown \in Seq(EntryRecs)
    /\ loaded \in BOOLEAN
    /\ calls \in SUBSET CallRecs
    /\ dialog \in [open : {"none", "invite", "create", "deactivate", "revoke"}, id : Nat]
    /\ made \in Nat

OpsOf(l) ==
    IF l = "team" THEN {"load", "invite", "elsewhere", "role", "deactivate"}
    ELSE IF l = "clients" THEN {"load", "invite", "elsewhere", "revokeGrant"}
    ELSE {"load", "create", "revokeKey"}

Inserting == {"invite", "elsewhere", "create"}
Changing == {"role", "deactivate", "revokeGrant", "revokeKey"}

CallKnown(c) ==
    /\ c.op \in OpsOf(list)
    /\ \A n \in DOMAIN c.got : c.got[n].id \in DOMAIN rows
    /\ c.op \in Changing => c.id \in DOMAIN rows /\ c.at \in {"sent", "ok"}
    /\ c.op \in Inserting => IF c.at = "ok" THEN c.id \in DOMAIN rows ELSE c.id = 0
    /\ c.op = "load" => c.id = 0

ShownKnown == \A n \in DOMAIN shown : shown[n].id \in DOMAIN rows
CallsKnown == \A c \in calls : CallKnown(c)
DialogKnown ==
    /\ dialog.open \in {"deactivate", "revoke"} => dialog.id \in DOMAIN rows
    /\ dialog.open = "deactivate" => list = "team" /\ loaded
    /\ dialog.open = "revoke" => list = "keys"

Entry(i) == [id |-> i, who |-> rows[i].who, role |-> rows[i].role, status |-> rows[i].status]
StillListed(i) == list = "clients" => rows[i].status # "revoked"
NoCopy(s, i) == \A n \in DOMAIN s : s[n].id # i
OneCopy(s, i) == \E n \in DOMAIN s : s[n] = Entry(i) /\ \A m \in DOMAIN s : s[m].id = i => m = n
Pending(op, i) == \E c \in calls : c.op = op /\ c.id = i /\ c.at = "ok"
Loading == \E c \in calls : c.op = "load"

\* Only keys are loaded more than once: nothing changes before the first list.
OneLoad == list # "keys" => \A c, d \in calls : c.op = "load" /\ d.op = "load" => c = d
FirstLoad ==
    list # "keys" =>
        /\ Loading => ~loaded
        /\ ~loaded => \A c \in calls : c.op \notin Changing
        /\ list = "clients" => \A c \in calls : c.op = "invite" => loaded

\* Nobody has changed a row that the list never had.
Untouched(c) ==
    /\ rows[c.id] = [who |-> c.who, role |-> c.role, status |-> "invited"]
    /\ \A d \in calls : d.id = c.id => d = c

InvitesAreFresh == \A c \in calls : c.op = "invite" /\ c.at = "ok" =>
    /\ ~loaded \/ NoCopy(shown, c.id) => Untouched(c)
    /\ list = "clients" => NoCopy(shown, c.id)

DialogShown == dialog.open = "deactivate" => ~NoCopy(shown, dialog.id)

\* Two changes of one role at a time are told apart (Overtakes).
RolesApart == \A c, d \in calls : c.op = "role" /\ d.op = "role" /\ c.id = d.id => c = d \/ c.id \in astray

ChangesStay == \A c \in calls : c.at = "ok" =>
    /\ c.op = "role" /\ viewer = "admin" => rows[c.id].role = c.role \/ c.id \in astray
    /\ c.op = "deactivate" /\ viewer = "admin" => rows[c.id].status = "deactivated"
    /\ c.op = "revokeGrant" => rows[c.id].status = "revoked"

TeamTold(i) == \E n \in DOMAIN shown :
    /\ shown[n].id = i /\ \A m \in DOMAIN shown : shown[m].id = i => m = n
    /\ shown[n].who = rows[i].who
    /\ shown[n].role = rows[i].role \/ Pending("role", i)
    /\ shown[n].status = rows[i].status \/ Pending("deactivate", i)

ClientTold(i) == IF rows[i].status = "revoked" THEN NoCopy(shown, i) \/ Pending("revokeGrant", i)
                                               ELSE OneCopy(shown, i)

KeyTold(i) == Pending("create", i) \/ Pending("revokeKey", i) \/ OneCopy(shown, i)

Told(i) ==
    /\ list = "team"    => Pending("invite", i) \/ TeamTold(i)
    /\ list = "clients" => Pending("invite", i) \/ ClientTold(i)
    /\ list = "keys"    => KeyTold(i)

RowsAreTold == viewer = "admin" /\ loaded /\ ~Loading => \A i \in DOMAIN rows \ astray : Told(i)

AccessKnown == AccessTyped /\ ShownKnown /\ CallsKnown /\ DialogKnown

AccessInv == AccessKnown /\ OneLoad /\ FirstLoad /\ InvitesAreFresh /\ DialogShown
             /\ RolesApart /\ ChangesStay /\ RowsAreTold

\* What the list endpoints return tells the truth about every row.
LEMMA ListedTells ==
    ASSUME AccessTyped
    PROVE  /\ Listed(rows) \in Seq(EntryRecs)
           /\ \A n \in DOMAIN Listed(rows) : Listed(rows)[n].id \in DOMAIN rows
           /\ \A i \in DOMAIN rows : IF StillListed(i) THEN OneCopy(Listed(rows), i) ELSE NoCopy(Listed(rows), i)
<1> DEFINE all == Numbered(rows)
           K == {r \in ToSet(all) : r.status # "revoked"}
           f == Filter(all, K)
<1>0. \A i \in DOMAIN rows : /\ rows[i].who \in People \union {"none"} /\ rows[i].role \in Roles
                             /\ rows[i].status \in {"invited", "active", "deactivated", "revoked"}
  <2>1. \A i \in DOMAIN rows : rows[i] \in RowRecs
    BY DEF AccessTyped
  <2> QED BY <2>1 DEF RowRecs
<1>1. DOMAIN rows = 1 .. Len(rows) /\ Len(rows) \in Nat
  BY DEF AccessTyped
<1>2. DOMAIN all = DOMAIN rows /\ \A i \in DOMAIN rows : all[i] = Entry(i)
  BY DEF Numbered, Entry
<1>3. \A i \in DOMAIN rows : Entry(i) \in EntryRecs /\ Entry(i).id = i /\ Entry(i).status = rows[i].status
  BY <1>0, <1>1 DEF Entry, EntryRecs
<1>4. all = [i \in 1 .. Len(rows) |-> all[i]]
  BY <1>1 DEF Numbered
<1> HIDE DEF all
<1>5. all \in Seq(EntryRecs)
  BY <1>1, <1>2, <1>3, <1>4
<1>6. \A i \in DOMAIN all : all[i] \in K <=> rows[i].status # "revoked"
  <2>1. \A i \in DOMAIN all : all[i] \in ToSet(all)
    BY DEF ToSet
  <2> QED BY <1>2, <1>3, <2>1
<1>7. Listed(rows) = IF list = "clients" THEN f ELSE all
  BY DEF Listed, all
<1>8. CASE list # "clients"
  BY <1>2, <1>3, <1>5, <1>7, <1>8 DEF StillListed, OneCopy
<1>9. CASE list = "clients"
  <2> HIDE DEF K
  <2>1. /\ f \in Seq(EntryRecs)
        /\ \A n \in DOMAIN f : f[n] \in K
        /\ \A i \in DOMAIN all : all[i] \in K => \E n \in DOMAIN f : f[n] = all[i]
    BY <1>5, FilterKeeps
  <2>2. PICK at \in [DOMAIN f -> DOMAIN all] :
           /\ \A n \in DOMAIN f : f[n] = all[at[n]]
           /\ \A m, n \in DOMAIN f : m < n => at[m] < at[n]
    BY <1>5, FilterKeeps
  <2> HIDE DEF f
  <2>3. \A n \in DOMAIN f : n \in Int /\ at[n] \in DOMAIN rows /\ f[n].id = at[n]
    BY <1>2, <1>3, <2>1, <2>2
  <2>4. \A m, n \in DOMAIN f : at[m] = at[n] => m = n
    BY <1>1, <2>2, <2>3
  <2>5. ASSUME NEW i \in DOMAIN rows, StillListed(i) PROVE OneCopy(f, i)
    <3>1. all[i] \in K
      BY <1>2, <1>6, <1>9, <2>5 DEF StillListed
    <3>2. PICK n \in DOMAIN f : f[n] = all[i]
      BY <1>2, <2>1, <3>1
    <3>3. f[n] = Entry(i) /\ f[n].id = i /\ at[n] = i
      BY <1>2, <1>3, <2>3, <3>2
    <3>4. \A m \in DOMAIN f : f[m].id = i => m = n
      BY <2>3, <2>4, <3>3
    <3> QED BY <3>3, <3>4 DEF OneCopy
  <2>6. ASSUME NEW i \in DOMAIN rows, ~StillListed(i) PROVE NoCopy(f, i)
    <3>1. \A n \in DOMAIN f : rows[at[n]].status # "revoked"
      BY <1>2, <1>6, <2>1, <2>2, <2>3
    <3> QED BY <1>9, <2>3, <2>6, <3>1 DEF StillListed, NoCopy
  <2>7. \A n \in DOMAIN f : f[n].id \in DOMAIN rows
    BY <2>3
  <2>8. Listed(rows) = f
    BY <1>7, <1>9
  <2> QED BY <2>1, <2>5, <2>6, <2>7, <2>8
<1> QED BY <1>8, <1>9

LEMMA CopiesCounted ==
    ASSUME NEW s \in Seq(EntryRecs), NEW i
    PROVE  /\ Copies(s, i) = 0 <=> NoCopy(s, i)
           /\ Copies(s, i) = 1 <=> \E n \in DOMAIN s : s[n].id = i /\ \A m \in DOMAIN s : s[m].id = i => m = n
<1> DEFINE at == {n \in DOMAIN s : s[n].id = i}
<1>1. IsFiniteSet(at)
  <2>1. DOMAIN s = 1 .. Len(s) /\ Len(s) \in Nat
    OBVIOUS
  <2>2. IsFiniteSet(DOMAIN s)
    BY <2>1, OneTo
  <2> QED BY <2>2, FS_Subset
<1>2. Cardinality(at) = 0 <=> at = {}
  BY <1>1, FS_EmptySet
<1>3. Cardinality(at) = 1 <=> \E n : at = {n}
  BY <1>1, FS_Singleton
<1>4. (at = {}) <=> NoCopy(s, i)
  BY DEF NoCopy
<1>5. (\E n : at = {n}) <=> \E n \in DOMAIN s : s[n].id = i /\ \A m \in DOMAIN s : s[m].id = i => m = n
  <2>1. ASSUME NEW n, at = {n} PROVE n \in DOMAIN s /\ s[n].id = i /\ \A m \in DOMAIN s : s[m].id = i => m = n
    BY <2>1
  <2>2. ASSUME NEW n \in DOMAIN s, s[n].id = i /\ \A m \in DOMAIN s : s[m].id = i => m = n PROVE at = {n}
    BY <2>2
  <2> QED BY <2>1, <2>2
<1>6. Copies(s, i) = Cardinality(at)
  BY Zenon DEF Copies
<1> HIDE DEF at
<1> QED BY <1>2, <1>3, <1>4, <1>5, <1>6

LEMMA TruthIsPlain ==
    ASSUME AccessTyped, NEW s \in Seq(EntryRecs), NEW i \in DOMAIN rows
    PROVE  TrueOf(s, i) <=> IF StillListed(i) THEN OneCopy(s, i) ELSE NoCopy(s, i)
<1> DEFINE t == Listed(rows)
<1>1. t \in Seq(EntryRecs) /\ IF StillListed(i) THEN OneCopy(t, i) ELSE NoCopy(t, i)
  BY ListedTells
<1>2. TrueOf(s, i) <=> /\ Copies(s, i) = Copies(t, i)
                       /\ \A n \in DOMAIN s, m \in DOMAIN t : s[n].id = i /\ t[m].id = i => s[n] = t[m]
  BY Zenon DEF TrueOf
<1> HIDE DEF t
<1>3. Entry(i).id = i
  BY DEF Entry
<1>4. CASE ~StillListed(i)
  <2>1. NoCopy(t, i) /\ Copies(t, i) = 0
    BY <1>1, <1>4, CopiesCounted
  <2>2. Copies(s, i) = 0 <=> NoCopy(s, i)
    BY CopiesCounted
  <2> QED BY <1>2, <1>4, <2>1, <2>2 DEF NoCopy
<1>5. CASE StillListed(i)
  <2>1. PICK k \in DOMAIN t : t[k] = Entry(i) /\ \A m \in DOMAIN t : t[m].id = i => m = k
    BY <1>1, <1>5 DEF OneCopy
  <2>2. Copies(t, i) = 1
    BY <1>1, <1>3, <2>1, CopiesCounted
  <2>3. Copies(s, i) = 1 <=> \E n \in DOMAIN s : s[n].id = i /\ \A m \in DOMAIN s : s[m].id = i => m = n
    BY CopiesCounted
  <2>4. TrueOf(s, i) <=> Copies(s, i) = 1 /\ \A n \in DOMAIN s : s[n].id = i => s[n] = Entry(i)
    BY <1>2, <1>3, <2>1, <2>2
  <2> QED BY <1>3, <1>5, <2>3, <2>4 DEF OneCopy
<1> QED BY <1>4, <1>5


LEMMA AccessInitially == AccessInit => AccessInv
<1> SUFFICES ASSUME AccessInit PROVE AccessInv
  OBVIOUS
<1> USE DEF AccessInit
<1>1. PICK c : calls = {c} /\ c = [nr |-> 0, op |-> "load", id |-> 0, who |-> "none", role |-> "recruiter",
                                  at |-> "sent", got |-> <<>>]
  <2>1. calls = {[Call("load", 0) EXCEPT !.nr = 0]}
    BY Zenon
  <2>2. [Call("load", 0) EXCEPT !.nr = 0] = [nr |-> 0, op |-> "load", id |-> 0, who |-> "none",
                                             role |-> "recruiter", at |-> "sent", got |-> <<>>]
    BY DEF Call
  <2> QED BY <2>1, <2>2
<1>2. <<>> \in Seq(EntryRecs) /\ DOMAIN <<>> = {}
  OBVIOUS
<1>3. c \in CallRecs
  BY <1>1, <1>2 DEF CallRecs, Roles
<1>4. rows \in Seq(RowRecs)
  <2>1. PICK p \in People :
          rows = IF list = "keys" THEN <<>> ELSE <<[who |-> p, role |-> "admin", status |-> "invited"]>>
    OBVIOUS
  <2>2. [who |-> p, role |-> "admin", status |-> "invited"] \in RowRecs
    BY DEF RowRecs, Roles
  <2> QED BY <2>1, <2>2
<1>5. AccessTyped
  BY <1>1, <1>2, <1>3, <1>4 DEF AccessTyped, NoDialog
<1>6. ShownKnown /\ DialogKnown /\ DialogShown
  BY <1>2 DEF ShownKnown, DialogKnown, DialogShown, NoDialog
<1>7. CallKnown(c)
  BY <1>1, <1>2 DEF CallKnown, OpsOf, Changing, Inserting
<1>8. CallsKnown
  BY <1>1, <1>7 DEF CallsKnown
<1>9. c.op = "load" /\ c.at = "sent" /\ ~loaded
  BY <1>1
<1> HIDE DEF AccessInit
<1>10. OneLoad /\ FirstLoad /\ InvitesAreFresh /\ RolesApart /\ ChangesStay /\ RowsAreTold
  BY <1>1, <1>9 DEF OneLoad, FirstLoad, InvitesAreFresh, RolesApart, ChangesStay, RowsAreTold, Changing
<1> QED BY <1>5, <1>6, <1>8, <1>10 DEF AccessInv, AccessKnown

\* The fields of a request.
LEMMA CallFields ==
    ASSUME AccessTyped, NEW c \in calls
    PROVE  /\ c \in CallRecs
           /\ c = [nr |-> c.nr, op |-> c.op, id |-> c.id, who |-> c.who, role |-> c.role, at |-> c.at, got |-> c.got]
           /\ c.nr \in Nat /\ c.id \in Nat /\ c.who \in People \union {"none"} /\ c.role \in Roles
           /\ c.got \in Seq(EntryRecs)
<1>1. c \in CallRecs
  BY DEF AccessTyped
<1> QED BY <1>1 DEF CallRecs

\* Requests that stay are known to be about rows that stay.
LEMMA CallsStay ==
    ASSUME AccessTyped, CallsKnown, list' = list, DOMAIN rows \subseteq DOMAIN rows'
    PROVE  /\ calls' \subseteq calls => calls' \in SUBSET CallRecs /\ CallsKnown'
           /\ \A d \in CallRecs : CallKnown(d)' /\ calls' \subseteq calls \union {d} =>
                                  calls' \in SUBSET CallRecs /\ CallsKnown'
<1>1. calls \subseteq CallRecs
  BY DEF AccessTyped
<1>2. ASSUME NEW c \in calls PROVE CallKnown(c)'
  <2>1. CallKnown(c)
    BY DEF CallsKnown
  <2>2. /\ c.op \in OpsOf(list)
        /\ \A n \in DOMAIN c.got : c.got[n].id \in DOMAIN rows'
        /\ c.op \in Changing => c.id \in DOMAIN rows' /\ c.at \in {"sent", "ok"}
        /\ c.op \in Inserting => IF c.at = "ok" THEN c.id \in DOMAIN rows' ELSE c.id = 0
        /\ c.op = "load" => c.id = 0
    BY <2>1 DEF CallKnown
  <2> QED BY <2>2 DEF CallKnown
<1>3. calls' \subseteq calls => calls' \in SUBSET CallRecs /\ CallsKnown'
  <2> SUFFICES ASSUME calls' \subseteq calls PROVE calls' \in SUBSET CallRecs /\ \A c \in calls' : CallKnown(c)'
    BY DEF CallsKnown
  <2> QED BY <1>1, <1>2
<1>4. ASSUME NEW d \in CallRecs, CallKnown(d)', calls' \subseteq calls \union {d}
      PROVE  calls' \in SUBSET CallRecs /\ CallsKnown'
  <2> SUFFICES calls' \in SUBSET CallRecs /\ \A c \in calls' : CallKnown(c)'
    BY DEF CallsKnown
  <2> QED BY <1>1, <1>2, <1>4
<1> QED BY <1>3, <1>4

\* A click sends one request, which changes nothing yet.
SentNow(op, id, who, role, had) ==
    /\ made' = made + 1
    /\ calls' = calls \union {[nr |-> made + 1, op |-> op, id |-> id, who |-> who, role |-> role,
                               at |-> "sent", got |-> had]}

LEMMA SendIs ==
    ASSUME NEW op, NEW id, NEW who, NEW role, NEW had
    PROVE  /\ Send(Call(op, id)) => SentNow(op, id, "none", "recruiter", <<>>)
           /\ Send([Call(op, id) EXCEPT !.who = who]) => SentNow(op, id, who, "recruiter", <<>>)
           /\ Send([Call(op, id) EXCEPT !.got = had]) => SentNow(op, id, "none", "recruiter", had)
           /\ Send([Call(op, id) EXCEPT !.role = role, !.got = had]) => SentNow(op, id, "none", role, had)
<1> DEFINE n == made + 1
<1>1. Call(op, id) = [nr |-> n, op |-> op, id |-> id, who |-> "none", role |-> "recruiter", at |-> "sent", got |-> <<>>]
  BY Zenon DEF Call
<1> HIDE DEF n
<1>2. [Call(op, id) EXCEPT !.who = who]
        = [nr |-> n, op |-> op, id |-> id, who |-> who, role |-> "recruiter", at |-> "sent", got |-> <<>>]
  BY <1>1
<1>3. [Call(op, id) EXCEPT !.got = had]
        = [nr |-> n, op |-> op, id |-> id, who |-> "none", role |-> "recruiter", at |-> "sent", got |-> had]
  BY <1>1
<1>4. [Call(op, id) EXCEPT !.role = role, !.got = had]
        = [nr |-> n, op |-> op, id |-> id, who |-> "none", role |-> role, at |-> "sent", got |-> had]
  <2>1. PICK r : r = [Call(op, id) EXCEPT !.role = role]
    OBVIOUS
  <2>2. r = [nr |-> n, op |-> op, id |-> id, who |-> "none", role |-> role, at |-> "sent", got |-> <<>>]
    BY <1>1, <2>1
  <2>3. [r EXCEPT !.got = had]
          = [nr |-> n, op |-> op, id |-> id, who |-> "none", role |-> role, at |-> "sent", got |-> had]
    BY <2>2
  <2> QED BY <2>1, <2>3, Zenon
<1> QED BY <1>1, <1>2, <1>3, <1>4, Zenon DEF Send, SentNow, n

LEMMA SendKnows ==
    ASSUME AccessTyped, CallsKnown, list' = list, rows' = rows,
           NEW op, NEW id \in Nat, NEW who \in People \union {"none"}, NEW role \in Roles, NEW had \in Seq(EntryRecs),
           op \in OpsOf(list) \ {"load"}, IF op \in Changing THEN id \in DOMAIN rows ELSE id = 0,
           \A n \in DOMAIN had : had[n].id \in DOMAIN rows, SentNow(op, id, who, role, had)
    PROVE  /\ made' \in Nat /\ calls' \in SUBSET CallRecs /\ CallsKnown'
<1>1. PICK d : /\ d = [nr |-> made + 1, op |-> op, id |-> id, who |-> who, role |-> role, at |-> "sent", got |-> had]
               /\ calls' = calls \union {d}
  BY DEF SentNow
<1>2. made' \in Nat /\ made + 1 \in Nat
  BY DEF SentNow, AccessTyped
<1>3. d \in CallRecs
  <2>1. op \in {"load", "invite", "elsewhere", "role", "deactivate", "revokeGrant", "revokeKey", "create"}
    BY DEF OpsOf
  <2> DEFINE n == made + 1
  <2>2. n \in Nat /\ d = [nr |-> n, op |-> op, id |-> id, who |-> who, role |-> role, at |-> "sent", got |-> had]
    BY <1>1, <1>2
  <2> HIDE DEF n
  <2> QED BY <2>1, <2>2 DEF CallRecs
<1>4. d.op = op /\ d.id = id /\ d.at = "sent" /\ d.got = had
  BY <1>1
<1>5. CallKnown(d)'
  BY <1>4 DEF CallKnown, Inserting, Changing
<1> QED BY <1>1, <1>2, <1>3, <1>5, CallsStay

\* A request handled is one at another place.
LEMMA HandledKnows ==
    ASSUME AccessTyped, CallsKnown, list' = list, DOMAIN rows \subseteq DOMAIN rows', NEW c \in calls,
           NEW at \in {"sent", "checked", "refused", "ok"}, Handled(c, at),
           c.op \in Changing => at = "ok", c.op \in Inserting => c.at # "ok" /\ at # "ok"
    PROVE  calls' \in SUBSET CallRecs /\ CallsKnown'
<1>1. PICK d : d = [c EXCEPT !.at = at] /\ calls' = (calls \ {c}) \union {d}
  BY Zenon DEF Handled
<1>2. d \in CallRecs /\ d.op = c.op /\ d.id = c.id /\ d.at = at /\ d.got = c.got
  BY <1>1, CallFields DEF CallRecs
<1>3. CallKnown(c)
  BY DEF CallsKnown
<1>4. CallKnown(d)'
  BY <1>2, <1>3 DEF CallKnown
<1>5. calls' \subseteq calls \union {d}
  BY <1>1
<1> QED BY <1>2, <1>4, <1>5, CallsStay

\* Requests as the servers change them.
LEMMA CallInserted ==
    ASSUME NEW c \in CallRecs, NEW id \in Nat, NEW d, d = [c EXCEPT !.at = "ok", !.id = id]
    PROVE  /\ d \in CallRecs /\ d.op = c.op /\ d.at = "ok" /\ d.id = id /\ d.got = c.got
           /\ d.who = c.who /\ d.role = c.role
<1>1. PICK b : b = [c EXCEPT !.at = "ok"]
  OBVIOUS
<1>2. b \in CallRecs /\ b.op = c.op /\ b.at = "ok" /\ b.got = c.got /\ b.who = c.who /\ b.role = c.role
  BY <1>1 DEF CallRecs
<1>3. d = [b EXCEPT !.id = id]
  BY <1>1, Zenon
<1> QED BY <1>2, <1>3 DEF CallRecs

LEMMA CallReloads ==
    ASSUME NEW nr \in Nat, NEW d, d = [Call("load", 0) EXCEPT !.nr = nr]
    PROVE  d \in CallRecs /\ d.op = "load" /\ d.at = "sent" /\ d.id = 0 /\ DOMAIN d.got = {}
<1> DEFINE n == made + 1
<1>1. Call("load", 0) = [nr |-> n, op |-> "load", id |-> 0, who |-> "none", role |-> "recruiter",
                         at |-> "sent", got |-> <<>>]
  BY Zenon DEF Call
<1> HIDE DEF n
<1>2. d = [nr |-> nr, op |-> "load", id |-> 0, who |-> "none", role |-> "recruiter", at |-> "sent", got |-> <<>>]
  BY <1>1
<1>3. <<>> \in Seq(EntryRecs) /\ DOMAIN <<>> = {}
  OBVIOUS
<1>0. PICK none \in Seq(EntryRecs) : none = <<>> /\ DOMAIN none = {}
  BY <1>3
<1>4. d = [nr |-> nr, op |-> "load", id |-> 0, who |-> "none", role |-> "recruiter", at |-> "sent", got |-> none]
  BY <1>0, <1>2
<1>5. d \in CallRecs
  BY <1>4 DEF CallRecs, Roles
<1> QED BY <1>0, <1>4, <1>5

LEMMA ReadIs ==
    ASSUME AccessTyped, NEW c \in calls, LoadRead(c)
    PROVE  \E d \in CallRecs : /\ calls' = (calls \ {c}) \union {d}
                               /\ d.op = "load" /\ d.id = c.id /\ d.at = "ok" /\ d.got = Listed(rows)
<1>1. Listed(rows) \in Seq(EntryRecs)
  BY ListedTells
<1>2. PICK d : d = [c EXCEPT !.at = "ok", !.got = Listed(rows)] /\ calls' = (calls \ {c}) \union {d}
  BY Zenon DEF LoadRead
<1>3. d \in CallRecs /\ d.op = c.op /\ d.at = "ok" /\ d.id = c.id /\ d.got = Listed(rows)
  <2>1. PICK b : b = [c EXCEPT !.at = "ok"]
    OBVIOUS
  <2>2. b \in CallRecs /\ b.op = c.op /\ b.at = "ok" /\ b.id = c.id
    BY <2>1, CallFields DEF CallRecs
  <2>3. d = [b EXCEPT !.got = Listed(rows)]
    BY <1>2, <2>1, Zenon
  <2> QED BY <1>1, <2>2, <2>3 DEF CallRecs
<1> QED BY <1>2, <1>3 DEF LoadRead

\* The number of a new row is the length of the table with it.
LEMMA InsertIs ==
    ASSUME AccessTyped, NEW c \in calls, NEW row \in RowRecs, rows' = Append(rows, row)
    PROVE  /\ rows' \in Seq(RowRecs) /\ Len(rows) + 1 \in Nat \ {0} /\ Len(rows) + 1 \notin DOMAIN rows
           /\ DOMAIN rows' = DOMAIN rows \union {Len(rows) + 1}
           /\ rows'[Len(rows) + 1] = row /\ \A i \in DOMAIN rows : rows'[i] = rows[i]
           /\ \A d : d = [c EXCEPT !.at = "ok", !.id = Len(rows) + 1] =>
                 /\ d \in CallRecs /\ d.op = c.op /\ d.at = "ok" /\ d.id = Len(rows) + 1 /\ d.got = c.got
                 /\ d.who = c.who /\ d.role = c.role
<1>1. rows \in Seq(RowRecs)
  BY DEF AccessTyped
<1>2. /\ rows' \in Seq(RowRecs) /\ Len(rows) + 1 \in Nat \ {0} /\ Len(rows) + 1 \notin DOMAIN rows
      /\ DOMAIN rows' = DOMAIN rows \union {Len(rows) + 1}
      /\ rows'[Len(rows) + 1] = row /\ \A i \in DOMAIN rows : rows'[i] = rows[i]
  BY <1>1
<1> DEFINE id == Len(rows) + 1
<1>3. id \in Nat
  BY <1>2
<1> HIDE DEF id
<1>4. \A d : d = [c EXCEPT !.at = "ok", !.id = id] =>
         /\ d \in CallRecs /\ d.op = c.op /\ d.at = "ok" /\ d.id = id /\ d.got = c.got
         /\ d.who = c.who /\ d.role = c.role
  BY <1>3, CallFields, CallInserted
<1> QED BY <1>2, <1>4 DEF id

LEMMA KnownKept ==
    ASSUME AccessKnown, list' = list, viewer' = viewer, rows' \in Seq(RowRecs), DOMAIN rows \subseteq DOMAIN rows',
           calls' \in SUBSET CallRecs, CallsKnown', shown' \in Seq(EntryRecs),
           \A n \in DOMAIN shown' : shown'[n].id \in DOMAIN rows',
           loaded' \in BOOLEAN, loaded => loaded', dialog' \in {dialog, NoDialog}, made' \in Nat
    PROVE  AccessKnown'
<1>1. dialog' \in [open : {"none", "invite", "create", "deactivate", "revoke"}, id : Nat]
  BY DEF AccessKnown, AccessTyped, NoDialog
<1>2. AccessTyped'
  BY <1>1 DEF AccessKnown, AccessTyped
<1>3. ShownKnown'
  BY DEF ShownKnown
<1>4. DialogKnown'
  BY DEF AccessKnown, DialogKnown, NoDialog
<1> QED BY <1>2, <1>3, <1>4 DEF AccessKnown

LEMMA KnownClicks == AccessKnown /\ Clicks => AccessKnown'
<1> SUFFICES ASSUME AccessKnown, Clicks PROVE AccessKnown'
  OBVIOUS
<1> USE DEF table
<1>0. AccessTyped /\ CallsKnown /\ ShownKnown /\ DialogKnown
  BY DEF AccessKnown
<1>1. ASSUME UNCHANGED <<table, shown, loaded, calls, made>>,
             dialog' \in [open : {"none", "invite", "create", "deactivate", "revoke"}, id : Nat], DialogKnown'
      PROVE  AccessKnown'
  <2>1. AccessTyped'
    BY <1>0, <1>1 DEF AccessTyped
  <2>2. ShownKnown'
    BY <1>0, <1>1 DEF ShownKnown
  <2>3. CallsKnown'
    BY <1>0, <1>1 DEF CallsKnown, CallKnown
  <2> QED BY <1>1, <2>1, <2>2, <2>3 DEF AccessKnown
<1>2. CASE setInviteOpen \/ setCreateOpen \/ closeDialog
  <2>1. UNCHANGED <<table, shown, loaded, calls, made>>
    BY <1>2 DEF setInviteOpen, setCreateOpen, closeDialog
  <2>2. dialog'.open \in {"none", "invite", "create"} /\ dialog' \in [open : {"none", "invite", "create"}, id : Nat]
    BY <1>2 DEF setInviteOpen, setCreateOpen, closeDialog, NoDialog
  <2> QED BY <1>1, <2>1, <2>2 DEF DialogKnown
<1>3. ASSUME NEW i \in Ids, setDeactivateTarget(i) \/ setRevokeTarget(i) PROVE AccessKnown'
  <2>1. i \in DOMAIN rows
    <3>1. Copies(shown, i) > 0
      BY <1>3 DEF setDeactivateTarget, setRevokeTarget, IsShown
    <3>2. ~NoCopy(shown, i)
      BY <1>0, <3>1, CopiesCounted DEF AccessTyped
    <3> QED BY <1>0, <3>2 DEF NoCopy, ShownKnown
  <2>2. i \in Nat
    BY AccessAssumption DEF Ids
  <2>3. CASE setDeactivateTarget(i)
    BY <1>1, <2>1, <2>2, <2>3 DEF setDeactivateTarget, IsShown, DialogKnown
  <2>4. CASE setRevokeTarget(i)
    BY <1>1, <2>1, <2>2, <2>4 DEF setRevokeTarget, DialogKnown
  <2> QED BY <1>3, <2>3, <2>4
<1>4. ASSUME NEW op, NEW id \in Nat, NEW who \in People \union {"none"}, NEW role \in Roles, NEW had \in Seq(EntryRecs),
             op \in OpsOf(list) \ {"load"}, IF op \in Changing THEN id \in DOMAIN rows ELSE id = 0,
             \A n \in DOMAIN had : had[n].id \in DOMAIN rows, SentNow(op, id, who, role, had),
             UNCHANGED <<table, shown, loaded, dialog>>
      PROVE  AccessKnown'
  <2>1. made' \in Nat /\ calls' \in SUBSET CallRecs /\ CallsKnown'
    BY <1>0, <1>4, SendKnows
  <2> QED BY <1>0, <1>4, <2>1, KnownKept DEF AccessTyped, ShownKnown
<1>5. /\ <<>> \in Seq(EntryRecs) /\ DOMAIN <<>> = {} /\ 0 \in Nat
      /\ "none" \in People \union {"none"} /\ "recruiter" \in Roles
  BY DEF Roles
<1>6. ASSUME NEW p \in People, InviteMember(p) \/ InviteClient(p) PROVE AccessKnown'
  <2>1. "invite" \in OpsOf(list) \ {"load"} /\ "invite" \notin Changing
    BY <1>6 DEF InviteMember, InviteClient, OpsOf, Changing
  <2>2. SentNow("invite", 0, p, "recruiter", <<>>) /\ UNCHANGED <<table, shown, loaded, dialog>>
    BY <1>6, SendIs, Zenon DEF InviteMember, InviteClient
  <2> QED BY <1>4, <1>5, <2>1, <2>2
<1>7. ASSUME NEW p \in People, InvitedElsewhere(p) PROVE AccessKnown'
  <2>1. "elsewhere" \in OpsOf(list) \ {"load"} /\ "elsewhere" \notin Changing
    BY <1>7 DEF InvitedElsewhere, OpsOf, Changing
  <2>2. SentNow("elsewhere", 0, p, "recruiter", <<>>) /\ UNCHANGED <<table, shown, loaded, dialog>>
    BY <1>7, SendIs, Zenon DEF InvitedElsewhere
  <2> QED BY <1>4, <1>5, <2>1, <2>2
<1>8. ASSUME NEW i \in Ids, RevokeClient(i) \/ \E role \in Roles : handleRoleChange(i, role) PROVE AccessKnown'
  <2>1. i \in DOMAIN rows /\ i \in Nat
    <3>1. Copies(shown, i) > 0
      BY <1>8 DEF RevokeClient, handleRoleChange, IsShown
    <3>2. ~NoCopy(shown, i)
      BY <1>0, <3>1, CopiesCounted DEF AccessTyped
    <3> QED BY <1>0, <3>2, AccessAssumption DEF NoCopy, ShownKnown, Ids
  <2>2. CASE RevokeClient(i)
    <3>1. "revokeGrant" \in OpsOf(list) \ {"load"} /\ "revokeGrant" \in Changing
      BY <2>2 DEF RevokeClient, OpsOf, Changing
    <3>2. SentNow("revokeGrant", i, "none", "recruiter", <<>>) /\ UNCHANGED <<table, shown, loaded, dialog>>
      BY <2>2, SendIs, Zenon DEF RevokeClient
    <3> QED BY <1>4, <1>5, <2>1, <3>1, <3>2
  <2>3. ASSUME NEW role \in Roles, handleRoleChange(i, role) PROVE AccessKnown'
    <3>1. "role" \in OpsOf(list) \ {"load"} /\ "role" \in Changing
      BY <2>3 DEF handleRoleChange, OpsOf, Changing
    <3>2. SentNow("role", i, "none", role, shown) /\ UNCHANGED <<table, shown, loaded, dialog>>
      BY <2>3, SendIs, Zenon DEF handleRoleChange
    <3>3. shown \in Seq(EntryRecs) /\ \A n \in DOMAIN shown : shown[n].id \in DOMAIN rows
      BY <1>0 DEF AccessTyped, ShownKnown
    <3> QED BY <1>4, <1>5, <2>1, <3>1, <3>2, <3>3
  <2> QED BY <1>8, <2>2, <2>3
<1>9. CASE handleDeactivate
  <2>1. "deactivate" \in OpsOf(list) \ {"load"} /\ "deactivate" \in Changing
    BY <1>9 DEF handleDeactivate, OpsOf, Changing
  <2>2. SentNow("deactivate", dialog.id, "none", "recruiter", shown) /\ UNCHANGED <<table, shown, loaded, dialog>>
    BY <1>9, SendIs, Zenon DEF handleDeactivate
  <2>3. shown \in Seq(EntryRecs) /\ \A n \in DOMAIN shown : shown[n].id \in DOMAIN rows
    BY <1>0 DEF AccessTyped, ShownKnown
  <2>4. dialog.id \in DOMAIN rows /\ dialog.id \in Nat
    BY <1>0, <1>9 DEF handleDeactivate, DialogKnown, AccessTyped
  <2> QED BY <1>4, <1>5, <2>1, <2>2, <2>3, <2>4
<1>10. CASE handleCreate
  <2>1. "create" \in OpsOf(list) \ {"load"} /\ "create" \notin Changing
    BY <1>10 DEF handleCreate, OpsOf, Changing
  <2>2. SentNow("create", 0, "none", "recruiter", <<>>) /\ UNCHANGED <<table, shown, loaded, dialog>>
    BY <1>10, SendIs, Zenon DEF handleCreate
  <2> QED BY <1>4, <1>5, <2>1, <2>2
<1>11. CASE handleRevoke
  <2>1. "revokeKey" \in OpsOf(list) \ {"load"} /\ "revokeKey" \in Changing
    BY <1>11 DEF handleRevoke, OpsOf, Changing
  <2>2. SentNow("revokeKey", dialog.id, "none", "recruiter", <<>>) /\ UNCHANGED <<table, shown, loaded, dialog>>
    BY <1>11, SendIs, Zenon DEF handleRevoke
  <2>3. dialog.id \in DOMAIN rows /\ dialog.id \in Nat
    BY <1>0, <1>11 DEF handleRevoke, DialogKnown, AccessTyped
  <2> QED BY <1>4, <1>5, <2>1, <2>2, <2>3
<1> QED BY <1>2, <1>3, <1>6, <1>7, <1>8, <1>9, <1>10, <1>11, Zenon DEF Clicks

\* What the requests do to the table, and their answers to the list.
LEMMA RowChanges ==
    ASSUME NEW s \in Seq(RowRecs), NEW i \in DOMAIN s, NEW role \in Roles,
           NEW st \in {"invited", "active", "deactivated", "revoked"}
    PROVE  /\ \A t : t = [s EXCEPT ![i].role = role] =>
                 /\ t \in Seq(RowRecs) /\ DOMAIN t = DOMAIN s /\ \A k \in DOMAIN s \ {i} : t[k] = s[k]
                 /\ t[i].role = role /\ t[i].who = s[i].who /\ t[i].status = s[i].status
           /\ \A t : t = [s EXCEPT ![i].status = st] =>
                 /\ t \in Seq(RowRecs) /\ DOMAIN t = DOMAIN s /\ \A k \in DOMAIN s \ {i} : t[k] = s[k]
                 /\ t[i].status = st /\ t[i].who = s[i].who /\ t[i].role = s[i].role
<1>1. s[i] \in RowRecs
  OBVIOUS
<1>2. PICK r : r = [s[i] EXCEPT !.role = role]
  OBVIOUS
<1>3. r \in RowRecs /\ r.role = role /\ r.who = s[i].who /\ r.status = s[i].status
  BY <1>1, <1>2 DEF RowRecs
<1>4. PICK q : q = [s[i] EXCEPT !.status = st]
  OBVIOUS
<1>5. q \in RowRecs /\ q.status = st /\ q.who = s[i].who /\ q.role = s[i].role
  BY <1>1, <1>4 DEF RowRecs
<1>6. ASSUME NEW x \in RowRecs, NEW t, t = [s EXCEPT ![i] = x]
      PROVE  t \in Seq(RowRecs) /\ DOMAIN t = DOMAIN s /\ (\A k \in DOMAIN s \ {i} : t[k] = s[k]) /\ t[i] = x
  BY <1>6
<1>7. ASSUME NEW t, t = [s EXCEPT ![i].role = role] PROVE t = [s EXCEPT ![i] = r]
  BY <1>2, <1>7
<1>8. ASSUME NEW t, t = [s EXCEPT ![i].status = st] PROVE t = [s EXCEPT ![i] = q]
  BY <1>4, <1>8
<1> QED BY <1>3, <1>5, <1>6, <1>7, <1>8

LEMMA InFront ==
    ASSUME NEW s \in Seq(EntryRecs), NEW e \in EntryRecs, NEW t, t = <<e>> \o s
    PROVE  /\ t \in Seq(EntryRecs) /\ 1 \in DOMAIN t /\ t[1] = e
           /\ \A n \in DOMAIN s : n \in Nat /\ n # 0 /\ n + 1 \in DOMAIN t /\ t[n + 1] = s[n]
           /\ \A m \in DOMAIN t : m \in Nat /\ (m = 1 \/ (m - 1 \in DOMAIN s /\ t[m] = s[m - 1]))
OBVIOUS

LEMMA RoleAnswerIs ==
    ASSUME AccessTyped, NEW c \in calls, RoleAnswer(c)
    PROVE  /\ shown' \in Seq(EntryRecs) /\ DOMAIN shown' = DOMAIN shown
           /\ \A n \in DOMAIN shown : /\ shown'[n].id = shown[n].id /\ shown'[n].who = shown[n].who
                                      /\ shown'[n].status = shown[n].status
                                      /\ shown'[n].role = IF shown[n].id = c.id THEN c.role ELSE shown[n].role
<1>0. shown' = [n \in DOMAIN shown |-> IF shown[n].id = c.id THEN [shown[n] EXCEPT !.role = c.role]
                                                            ELSE shown[n]]
  BY Zenon DEF RoleAnswer
<1>1. DOMAIN shown = 1 .. Len(shown) /\ Len(shown) \in Nat /\ \A n \in DOMAIN shown : shown[n] \in EntryRecs
  BY DEF AccessTyped
<1>2. DOMAIN shown' = 1 .. Len(shown) /\ shown' = [n \in 1 .. Len(shown) |-> shown'[n]]
  BY <1>0, <1>1
<1>3. ASSUME NEW n \in DOMAIN shown
      PROVE  /\ shown'[n] \in EntryRecs /\ shown'[n].id = shown[n].id /\ shown'[n].who = shown[n].who
             /\ shown'[n].status = shown[n].status
             /\ shown'[n].role = IF shown[n].id = c.id THEN c.role ELSE shown[n].role
  <2>1. CASE shown[n].id = c.id
    <3>1. shown'[n] = [shown[n] EXCEPT !.role = c.role]
      BY <1>0, <2>1
    <3> QED BY <1>1, <2>1, <3>1, CallFields DEF EntryRecs
  <2>2. CASE shown[n].id # c.id
    <3>1. shown'[n] = shown[n]
      BY <1>0, <2>2
    <3> QED BY <1>1, <2>2, <3>1
  <2> QED BY <2>1, <2>2
<1> QED BY <1>1, <1>2, <1>3

LEMMA DeactivateAnswerIs ==
    ASSUME AccessTyped, NEW c \in calls, DeactivateAnswer(c)
    PROVE  /\ shown' \in Seq(EntryRecs) /\ DOMAIN shown' = DOMAIN shown
           /\ \A n \in DOMAIN shown : /\ shown'[n].id = shown[n].id /\ shown'[n].who = shown[n].who
                                      /\ shown'[n].role = shown[n].role
                                      /\ shown'[n].status = IF shown[n].id = c.id THEN "deactivated" ELSE shown[n].status
<1>0. shown' = [n \in DOMAIN shown |-> IF shown[n].id = c.id THEN [shown[n] EXCEPT !.status = "deactivated"]
                                                            ELSE shown[n]]
  BY Zenon DEF DeactivateAnswer
<1>1. DOMAIN shown = 1 .. Len(shown) /\ Len(shown) \in Nat /\ \A n \in DOMAIN shown : shown[n] \in EntryRecs
  BY DEF AccessTyped
<1>2. DOMAIN shown' = 1 .. Len(shown) /\ shown' = [n \in 1 .. Len(shown) |-> shown'[n]]
  BY <1>0, <1>1
<1>3. ASSUME NEW n \in DOMAIN shown
      PROVE  /\ shown'[n] \in EntryRecs /\ shown'[n].id = shown[n].id /\ shown'[n].who = shown[n].who
             /\ shown'[n].role = shown[n].role
             /\ shown'[n].status = IF shown[n].id = c.id THEN "deactivated" ELSE shown[n].status
  <2>1. CASE shown[n].id = c.id
    <3>1. shown'[n] = [shown[n] EXCEPT !.status = "deactivated"]
      BY <1>0, <2>1
    <3> QED BY <1>1, <2>1, <3>1, CallFields DEF EntryRecs
  <2>2. CASE shown[n].id # c.id
    <3>1. shown'[n] = shown[n]
      BY <1>0, <2>2
    <3> QED BY <1>1, <2>2, <3>1
  <2> QED BY <2>1, <2>2
<1> QED BY <1>1, <1>2, <1>3

LEMMA RevokeAnswerIs ==
    ASSUME AccessTyped, NEW c \in calls, RevokeAnswer(c)
    PROVE  /\ shown' \in Seq(EntryRecs)
           /\ \A n \in DOMAIN shown' : shown'[n].id # c.id /\ \E m \in DOMAIN shown : shown'[n] = shown[m]
           /\ \A k \in DOMAIN shown : shown[k].id # c.id => \E n \in DOMAIN shown' : shown'[n] = shown[k]
           /\ \A id : (\A m, n \in DOMAIN shown : shown[m].id = id /\ shown[n].id = id => m = n) =>
                      \A m, n \in DOMAIN shown' : shown'[m].id = id /\ shown'[n].id = id => m = n
<1> DEFINE K == {r \in ToSet(shown) : r.id # c.id}
           f == Filter(shown, K)
<1>0. shown' = f /\ shown \in Seq(EntryRecs)
  BY Zenon DEF RevokeAnswer, AccessTyped
<1>1. (\A n \in DOMAIN shown : shown[n] \in K <=> shown[n].id # c.id) /\ \A r \in K : r.id # c.id
  BY DEF ToSet
<1> HIDE DEF K
<1>2. /\ f \in Seq(EntryRecs)
      /\ \A n \in DOMAIN f : f[n] \in K
      /\ \A k \in DOMAIN shown : shown[k] \in K => \E n \in DOMAIN f : f[n] = shown[k]
  BY <1>0, FilterKeeps
<1>4. PICK at \in [DOMAIN f -> DOMAIN shown] :
         /\ \A n \in DOMAIN f : f[n] = shown[at[n]]
         /\ \A m, n \in DOMAIN f : m < n => at[m] < at[n]
  BY <1>0, FilterKeeps
<1> HIDE DEF f
<1>5. \A n \in DOMAIN f : n \in Int /\ at[n] \in Int /\ at[n] \in DOMAIN shown
  BY <1>0, <1>2, <1>4
<1>6. \A m, n \in DOMAIN f : at[m] = at[n] => m = n
  BY <1>4, <1>5
<1>7. ASSUME NEW id, \A m, n \in DOMAIN shown : shown[m].id = id /\ shown[n].id = id => m = n
      PROVE  \A m, n \in DOMAIN f : f[m].id = id /\ f[n].id = id => m = n
  BY <1>4, <1>5, <1>6, <1>7
<1>8. \A n \in DOMAIN f : f[n].id # c.id /\ \E m \in DOMAIN shown : f[n] = shown[m]
  BY <1>1, <1>2, <1>4, <1>5
<1>9. \A k \in DOMAIN shown : shown[k].id # c.id => \E n \in DOMAIN f : f[n] = shown[k]
  BY <1>1, <1>2
<1> QED BY <1>0, <1>2, <1>7, <1>8, <1>9

LEMMA KnownServers == AccessKnown /\ Servers => AccessKnown'
<1> SUFFICES ASSUME AccessKnown, Servers PROVE AccessKnown'
  OBVIOUS
<1> USE DEF table
<1>0. AccessTyped /\ CallsKnown /\ ShownKnown /\ DialogKnown
  BY DEF AccessKnown
<1>1. /\ list' = list /\ viewer' = viewer /\ shown' = shown /\ loaded' = loaded /\ dialog' = dialog /\ made' = made
      /\ \E c \in calls : \/ LoadRead(c) \/ InviteChecked(c) \/ InviteInserted(c)
                          \/ MemberUpdated(c) \/ Revoked(c) \/ KeyInserted(c)
  BY Zenon DEF Servers, LoadRead, InviteChecked, InviteInserted, MemberUpdated, Revoked, KeyInserted
<1>2. PICK c \in calls : \/ LoadRead(c) \/ InviteChecked(c) \/ InviteInserted(c)
                         \/ MemberUpdated(c) \/ Revoked(c) \/ KeyInserted(c)
  BY <1>1
<1>3. ASSUME rows' \in Seq(RowRecs), DOMAIN rows \subseteq DOMAIN rows', calls' \in SUBSET CallRecs, CallsKnown'
      PROVE  AccessKnown'
  BY <1>0, <1>1, <1>3, KnownKept DEF AccessTyped, ShownKnown
<1>4. /\ rows \in Seq(RowRecs) /\ c \in CallRecs /\ c.id \in Nat /\ CallKnown(c)
      /\ c.who \in People \union {"none"} /\ c.role \in Roles
  BY <1>0, CallFields DEF AccessTyped, CallsKnown
<1>5. CASE LoadRead(c)
  <2>1. PICK d \in CallRecs : /\ calls' = (calls \ {c}) \union {d}
                              /\ d.op = "load" /\ d.id = c.id /\ d.at = "ok" /\ d.got = Listed(rows)
    BY <1>0, <1>5, ReadIs
  <2>2. rows' = rows /\ c.op = "load"
    BY <1>5 DEF LoadRead
  <2>3. CallKnown(d)'
    BY <1>0, <1>1, <1>4, <2>1, <2>2, ListedTells DEF CallKnown, Changing, Inserting
  <2> QED BY <1>0, <1>1, <1>3, <1>4, <2>1, <2>2, <2>3, CallsStay
<1>6. CASE InviteChecked(c)
  <2>1. PICK at \in {"checked", "refused"} : Handled(c, at)
    BY <1>6, Zenon DEF InviteChecked
  <2>2. rows' = rows /\ c.op \in {"invite", "elsewhere"} /\ c.at = "sent"
    BY <1>6 DEF InviteChecked
  <2>3. calls' \in SUBSET CallRecs /\ CallsKnown'
    BY <1>0, <1>1, <2>1, <2>2, HandledKnows DEF Changing
  <2> QED BY <1>3, <1>4, <2>2, <2>3
<1>7. ASSUME NEW row \in RowRecs, rows' = Append(rows, row), c.op \in {"invite", "elsewhere", "create"},
             calls' \subseteq calls \/ calls' = (calls \ {c}) \union {[c EXCEPT !.at = "ok", !.id = Len(rows) + 1]}
      PROVE  AccessKnown'
  <2>1. /\ rows' \in Seq(RowRecs) /\ DOMAIN rows' = DOMAIN rows \union {Len(rows) + 1}
        /\ \A d : d = [c EXCEPT !.at = "ok", !.id = Len(rows) + 1] =>
              /\ d \in CallRecs /\ d.op = c.op /\ d.at = "ok" /\ d.id = Len(rows) + 1 /\ d.got = c.got
              /\ d.who = c.who /\ d.role = c.role
    BY <1>0, <1>7, InsertIs
  <2>2. CASE calls' \subseteq calls
    BY <1>0, <1>1, <1>3, <2>1, <2>2, CallsStay
  <2>3. CASE calls' = (calls \ {c}) \union {[c EXCEPT !.at = "ok", !.id = Len(rows) + 1]}
    <3>1. PICK d : d = [c EXCEPT !.at = "ok", !.id = Len(rows) + 1] /\ calls' = (calls \ {c}) \union {d}
      BY <2>3, Zenon
    <3>2. d \in CallRecs /\ d.op = c.op /\ d.at = "ok" /\ d.id = Len(rows) + 1 /\ d.got = c.got
      BY <2>1, <3>1
    <3>3. CallKnown(d)'
      BY <1>1, <1>4, <1>7, <2>1, <3>2 DEF CallKnown, Inserting, Changing
    <3> QED BY <1>0, <1>1, <1>3, <2>1, <3>1, <3>2, <3>3, CallsStay
  <2> QED BY <1>7, <2>2, <2>3
<1>8. CASE InviteInserted(c)
  <2>1. c.op \in {"invite", "elsewhere"} /\ c.at = "checked"
    BY <1>8 DEF InviteInserted
  <2>2. CASE HasActiveGrant(c.who)
    <3>1. Handled(c, "refused") /\ rows' = rows
      BY <1>8, <2>2 DEF InviteInserted
    <3>2. calls' \in SUBSET CallRecs /\ CallsKnown'
      BY <1>0, <1>1, <2>1, <3>1, HandledKnows DEF Changing
    <3> QED BY <1>3, <1>4, <3>1, <3>2
  <2>3. CASE ~HasActiveGrant(c.who)
    <3>1. PICK row : row = [who |-> c.who, role |-> c.role, status |-> "invited"] /\ rows' = Append(rows, row)
      BY <1>8, <2>3, Zenon DEF InviteInserted
    <3>2. row \in RowRecs
      BY <1>4, <3>1 DEF RowRecs
    <3>3. \/ calls' = (calls \ {c}) \union {}
          \/ calls' = (calls \ {c}) \union {[c EXCEPT !.at = "ok", !.id = Len(rows) + 1]}
      BY <1>8, <2>3, Zenon DEF InviteInserted
    <3>4. calls' \subseteq calls \/ calls' = (calls \ {c}) \union {[c EXCEPT !.at = "ok", !.id = Len(rows) + 1]}
      BY <3>3, Zenon
    <3> QED BY <1>7, <2>1, <3>1, <3>2, <3>4
  <2> QED BY <2>2, <2>3
<1>9. ASSUME MemberUpdated(c) \/ Revoked(c) PROVE AccessKnown'
  <2>1. c.op \in Changing /\ c.at = "sent" /\ Handled(c, "ok")
    BY <1>9 DEF MemberUpdated, Revoked, Changing
  <2>2. \/ rows' = rows \/ rows' = [rows EXCEPT ![c.id].role = c.role]
        \/ rows' = [rows EXCEPT ![c.id].status = "deactivated"] \/ rows' = [rows EXCEPT ![c.id].status = "revoked"]
    BY <1>9, Zenon DEF MemberUpdated, Revoked
  <2>3. rows' \in Seq(RowRecs) /\ DOMAIN rows' = DOMAIN rows
    <3>1. c.id \in DOMAIN rows
      BY <1>4, <2>1 DEF CallKnown
    <3> QED BY <1>4, <2>2, <3>1, RowChanges
  <2>4. calls' \in SUBSET CallRecs /\ CallsKnown'
    BY <1>0, <1>1, <2>1, <2>3, HandledKnows DEF Changing, Inserting
  <2> QED BY <1>3, <2>3, <2>4
<1>10. CASE KeyInserted(c)
  <2>1. PICK row : row = [who |-> "none", role |-> viewer, status |-> "active"] /\ rows' = Append(rows, row)
    BY <1>10, Zenon DEF KeyInserted
  <2>2. row \in RowRecs
    BY <1>0, <2>1 DEF RowRecs, AccessTyped
  <2>3. calls' = (calls \ {c}) \union {[c EXCEPT !.at = "ok", !.id = Len(rows) + 1]} /\ c.op = "create"
    BY <1>10, Zenon DEF KeyInserted
  <2> QED BY <1>7, <2>1, <2>2, <2>3
<1> QED BY <1>2, <1>5, <1>6, <1>8, <1>9, <1>10

LEMMA KnownAnswers == AccessKnown /\ Answers => AccessKnown'
<1> SUFFICES ASSUME AccessKnown, Answers PROVE AccessKnown'
  OBVIOUS
<1> USE DEF table
<1>0. AccessTyped /\ CallsKnown /\ ShownKnown /\ DialogKnown
  BY DEF AccessKnown
<1>1. PICK c \in calls : \/ LoadAnswer(c) \/ LoadError(c) \/ InviteAnswer(c) \/ InviteError(c)
                         \/ RoleAnswer(c) \/ DeactivateAnswer(c) \/ UpdateError(c)
                         \/ RevokeAnswer(c) \/ RevokeError(c) \/ CreateAnswer(c) \/ CreateError(c)
  BY Zenon DEF Answers
<1>2. list' = list /\ viewer' = viewer /\ rows' = rows /\ made' = made
  BY <1>1, Zenon DEF LoadAnswer, LoadError, InviteAnswer, InviteError, RoleAnswer, DeactivateAnswer, UpdateError,
     RevokeAnswer, RevokeError, CreateAnswer, CreateError
<1>3. loaded' \in BOOLEAN /\ (loaded => loaded')
  <2>1. loaded' = loaded \/ loaded' = TRUE \/ loaded' = (loaded \/ list # "clients")
    BY <1>1, Zenon DEF LoadAnswer, LoadError, InviteAnswer, InviteError, RoleAnswer, DeactivateAnswer, UpdateError,
       RevokeAnswer, RevokeError, CreateAnswer, CreateError
  <2>2. loaded \in BOOLEAN
    BY <1>0 DEF AccessTyped
  <2>3. CASE loaded' = (loaded \/ list # "clients")
    BY <2>2, <2>3, Zenon
  <2> QED BY <2>1, <2>2, <2>3
<1>4. dialog' \in {dialog, NoDialog}
  <2>1. dialog' = dialog \/ dialog' = NoDialog
    BY <1>1, Zenon DEF LoadAnswer, LoadError, InviteAnswer, InviteError, RoleAnswer, DeactivateAnswer, UpdateError,
       RevokeAnswer, RevokeError, CreateAnswer, CreateError
  <2> QED BY <2>1
<1>5. c \in CallRecs /\ CallKnown(c) /\ c.id \in Nat /\ c.nr \in Nat /\ rows \in Seq(RowRecs)
  BY <1>0, CallFields DEF CallsKnown, AccessTyped
<1>6. calls' \in SUBSET CallRecs /\ CallsKnown'
  <2>1. CASE calls' = calls \ {c}
    BY <1>0, <1>2, <2>1, CallsStay
  <2>2. CASE CreateAnswer(c)
    <3>1. PICK d : d = [Call("load", 0) EXCEPT !.nr = c.nr] /\ calls' = (calls \ {c}) \union {d}
      BY <2>2, Zenon DEF CreateAnswer
    <3>2. d \in CallRecs /\ d.op = "load" /\ d.id = 0 /\ DOMAIN d.got = {}
      BY <1>5, <3>1, CallReloads
    <3>3. CallKnown(d)'
      BY <3>2 DEF CallKnown, OpsOf, Inserting, Changing
    <3> QED BY <1>0, <1>2, <3>1, <3>2, <3>3, CallsStay
  <2>3. calls' = calls \ {c} \/ CreateAnswer(c)
    BY <1>1, Zenon DEF LoadAnswer, LoadError, InviteAnswer, InviteError, RoleAnswer, DeactivateAnswer, UpdateError,
       RevokeAnswer, RevokeError, CreateError
  <2> QED BY <2>1, <2>2, <2>3
<1>7. shown' \in Seq(EntryRecs) /\ \A n \in DOMAIN shown' : shown'[n].id \in DOMAIN rows
  <2>0. shown \in Seq(EntryRecs) /\ \A n \in DOMAIN shown : shown[n].id \in DOMAIN rows
    BY <1>0 DEF AccessTyped, ShownKnown
  <2>1. CASE LoadAnswer(c)
    BY <1>0, <1>5, <2>1, CallFields DEF LoadAnswer, CallKnown
  <2>2. CASE InviteAnswer(c)
    <3>1. PICK e : /\ e = [id |-> c.id, who |-> c.who, role |-> c.role, status |-> "invited"]
                   /\ shown' = <<e>> \o shown
      BY <2>2, Zenon DEF InviteAnswer
    <3>2. e \in EntryRecs /\ e.id = c.id
      BY <1>5, <3>1 DEF CallRecs, EntryRecs
    <3>3. c.id \in DOMAIN rows
      BY <1>5, <2>2 DEF InviteAnswer, CallKnown, Inserting
    <3> QED BY <2>0, <3>1, <3>2, <3>3, InFront
  <2>3. CASE RoleAnswer(c)
    BY <1>0, <2>0, <2>3, RoleAnswerIs
  <2>4. CASE DeactivateAnswer(c)
    BY <1>0, <2>0, <2>4, DeactivateAnswerIs
  <2>5. CASE RevokeAnswer(c)
    BY <1>0, <2>0, <2>5, RevokeAnswerIs
  <2>6. CASE shown' = shown
    BY <2>0, <2>6
  <2> QED BY <1>1, <2>1, <2>2, <2>3, <2>4, <2>5, <2>6
          DEF LoadError, InviteError, UpdateError, RevokeError, CreateAnswer, CreateError
<1> QED BY <1>2, <1>3, <1>4, <1>5, <1>6, <1>7, <1>0, KnownKept DEF AccessTyped

\* What is told of a row stays told while its row and its entry stay, and the
\* answers about it are still to come.
LEMMA ToldStays ==
    ASSUME NEW i, Told(i), list' = list, rows'[i] = rows[i],
           NoCopy(shown, i) => NoCopy(shown', i),
           \A n \in DOMAIN shown : shown[n].id = i /\ (\A m \in DOMAIN shown : shown[m].id = i => m = n) =>
               \E k \in DOMAIN shown' : shown'[k] = shown[n] /\ \A m \in DOMAIN shown' : shown'[m].id = i => m = k,
           \A op : op # "load" /\ Pending(op, i) => Pending(op, i)'
    PROVE  Told(i)'
<1>1. Entry(i)' = Entry(i) /\ Entry(i).id = i
  BY DEF Entry
<1>2. OneCopy(shown, i) => OneCopy(shown, i)'
  <2> SUFFICES ASSUME OneCopy(shown, i) PROVE OneCopy(shown, i)'
    OBVIOUS
  <2>1. PICK n \in DOMAIN shown : shown[n] = Entry(i) /\ \A m \in DOMAIN shown : shown[m].id = i => m = n
    BY DEF OneCopy
  <2>2. \E k \in DOMAIN shown' : shown'[k] = shown[n] /\ \A m \in DOMAIN shown' : shown'[m].id = i => m = k
    BY <1>1, <2>1
  <2> QED BY <1>1, <2>1, <2>2 DEF OneCopy
<1>3. NoCopy(shown, i) => NoCopy(shown, i)'
  BY DEF NoCopy
<1>4. list = "team" => (Pending("invite", i) \/ TeamTold(i))'
  <2>1. ASSUME TeamTold(i) PROVE TeamTold(i)'
    <3>1. PICK n \in DOMAIN shown :
             /\ shown[n].id = i /\ \A m \in DOMAIN shown : shown[m].id = i => m = n
             /\ shown[n].who = rows[i].who
             /\ shown[n].role = rows[i].role \/ Pending("role", i)
             /\ shown[n].status = rows[i].status \/ Pending("deactivate", i)
      BY <2>1, Zenon DEF TeamTold
    <3>2. PICK k \in DOMAIN shown' : shown'[k] = shown[n] /\ \A m \in DOMAIN shown' : shown'[m].id = i => m = k
      BY <3>1
    <3>3. /\ shown'[k].role = rows'[i].role \/ Pending("role", i)'
          /\ shown'[k].status = rows'[i].status \/ Pending("deactivate", i)'
      BY <3>1, <3>2
    <3> QED BY <3>1, <3>2, <3>3 DEF TeamTold
  <2> QED BY <2>1 DEF Told
<1>5. list = "clients" => (Pending("invite", i) \/ ClientTold(i))'
  BY <1>2, <1>3 DEF Told, ClientTold
<1>6. list = "keys" => KeyTold(i)'
  BY <1>2 DEF Told, KeyTold
<1> QED BY <1>4, <1>5, <1>6 DEF Told

\* A list that tells the truth about a row tells of it.
LEMMA TruthTold ==
    ASSUME NEW i, (IF StillListed(i) THEN OneCopy(shown, i) ELSE NoCopy(shown, i))'
    PROVE  Told(i)'
<1>1. Entry(i)'.id = i /\ Entry(i)'.who = rows'[i].who /\ Entry(i)'.role = rows'[i].role /\ Entry(i)'.status = rows'[i].status
  BY DEF Entry
<1>2. list' = "team" => TeamTold(i)'
  <2> SUFFICES ASSUME list' = "team" PROVE TeamTold(i)'
    OBVIOUS
  <2>1. PICK n \in DOMAIN shown' : shown'[n] = Entry(i)' /\ \A m \in DOMAIN shown' : shown'[m].id = i => m = n
    BY DEF StillListed, OneCopy
  <2> QED BY <1>1, <2>1 DEF TeamTold
<1>3. list' = "clients" => ClientTold(i)'
  BY DEF StillListed, ClientTold
<1>4. list' = "keys" => KeyTold(i)'
  BY DEF StillListed, KeyTold
<1> QED BY <1>2, <1>3, <1>4 DEF Told

\* Steps that change neither the table nor the list.
LEMMA QuietSteps ==
    ASSUME AccessInv, list' = list, viewer' = viewer, rows' = rows, shown' = shown, loaded' = loaded,
           astray \subseteq astray', Loading => Loading',
           \A d \in calls' \ calls :
              /\ d.at # "ok" \/ d.op = "load"
              /\ d.id = 0 \/ list = "keys" \/ (loaded /\ ~NoCopy(shown, d.id))
              /\ d.op = "load" => Loading
              /\ d.op \in Changing => loaded \/ list = "keys"
              /\ d.op = "invite" => loaded \/ list # "clients"
              /\ d.op = "role" => \A e \in calls' : e.op = "role" /\ e.id = d.id => e = d \/ d.id \in astray',
           \A d \in calls \ calls' : d.at = "ok" /\ d.op # "load" => d.id \in astray'
    PROVE  FirstLoad' /\ InvitesAreFresh' /\ RolesApart' /\ ChangesStay' /\ RowsAreTold'
<1>0. FirstLoad /\ InvitesAreFresh /\ RolesApart /\ ChangesStay /\ RowsAreTold /\ CallsKnown /\ AccessTyped
  BY DEF AccessInv, AccessKnown
<1>1. FirstLoad'
  <2>1. Loading' => Loading
    BY DEF Loading
  <2>2. list # "keys" /\ ~loaded => \A c \in calls' : c.op \notin Changing
    BY <1>0 DEF FirstLoad
  <2>3. list = "clients" => \A c \in calls' : c.op = "invite" => loaded
    BY <1>0 DEF FirstLoad
  <2> QED BY <1>0, <2>1, <2>2, <2>3 DEF FirstLoad
<1>2. InvitesAreFresh'
  <2> SUFFICES ASSUME NEW c \in calls', c.op = "invite", c.at = "ok"
               PROVE  /\ ~loaded \/ NoCopy(shown, c.id) => Untouched(c)'
                      /\ list = "clients" => NoCopy(shown, c.id)
    BY DEF InvitesAreFresh, NoCopy
  <2>1. c \in calls
    OBVIOUS
  <2>2. c.id \in DOMAIN rows /\ c.id # 0 /\ list # "keys"
    <3>1. CallKnown(c)
      BY <1>0, <2>1 DEF CallsKnown
    <3> QED BY <1>0, <3>1 DEF CallKnown, Inserting, OpsOf, AccessTyped
  <2>3. ASSUME ~loaded \/ NoCopy(shown, c.id) PROVE Untouched(c)'
    <3>1. Untouched(c)
      BY <1>0, <2>1, <2>3 DEF InvitesAreFresh
    <3>2. \A d \in calls' : d.id = c.id => d = c
      BY <2>2, <2>3, <3>1 DEF Untouched
    <3> QED BY <3>1, <3>2 DEF Untouched
  <2>4. list = "clients" => NoCopy(shown, c.id)
    BY <1>0, <2>1 DEF InvitesAreFresh
  <2> QED BY <2>3, <2>4
<1>3. RolesApart'
  BY <1>0 DEF RolesApart
<1>4. ChangesStay'
  BY <1>0 DEF ChangesStay
<1>5. RowsAreTold'
  <2> SUFFICES ASSUME viewer = "admin", loaded, ~Loading', NEW i \in DOMAIN rows \ astray'
               PROVE  Told(i)'
    BY DEF RowsAreTold
  <2>1. Told(i)
    BY <1>0 DEF RowsAreTold
  <2>2. ASSUME NEW op, op # "load", Pending(op, i) PROVE Pending(op, i)'
    BY <2>2 DEF Pending
  <2> QED BY <2>1, <2>2, ToldStays
<1> QED BY <1>1, <1>2, <1>3, <1>4, <1>5

LEMMA AccessClicks == AccessInv /\ Clicks => AccessInv'
<1> SUFFICES ASSUME AccessInv, Clicks PROVE AccessInv'
  OBVIOUS
<1> USE DEF table
<1>0. AccessKnown /\ AccessTyped /\ CallsKnown /\ ShownKnown /\ DialogKnown /\ OneLoad /\ RolesApart /\ DialogShown
  BY DEF AccessInv, AccessKnown
<1>1. AccessKnown'
  BY <1>0, KnownClicks
<1>2. ASSUME UNCHANGED <<table, shown, loaded, calls, astray>>, DialogShown' PROVE AccessInv'
  <2>1. FirstLoad' /\ InvitesAreFresh' /\ RolesApart' /\ ChangesStay' /\ RowsAreTold'
    <3>1. Loading => Loading'
      BY <1>2 DEF Loading
    <3> QED BY <1>2, <3>1, QuietSteps
  <2>2. OneLoad'
    BY <1>0, <1>2 DEF OneLoad
  <2> QED BY <1>1, <1>2, <2>1, <2>2 DEF AccessInv
<1>3. ASSUME NEW op, NEW id, NEW who, NEW role, NEW had, SentNow(op, id, who, role, had), op # "load",
             UNCHANGED <<table, shown, loaded, dialog>>, astray \subseteq astray',
             id = 0 \/ list = "keys" \/ (loaded /\ ~NoCopy(shown, id)),
             op \in Changing => loaded \/ list = "keys",
             op = "invite" => loaded \/ list # "clients",
             op = "role" => \A e \in calls : e.op = "role" /\ e.id = id => id \in astray'
      PROVE  AccessInv'
  <2>1. PICK d : /\ calls' = calls \union {d}
                 /\ d = [nr |-> made + 1, op |-> op, id |-> id, who |-> who, role |-> role, at |-> "sent", got |-> had]
    BY <1>3 DEF SentNow
  <2>2. d.op = op /\ d.id = id /\ d.at = "sent"
    BY <2>1
  <2>3. Loading => Loading'
    BY <2>1 DEF Loading
  <2>4. calls \ calls' = {} /\ \A e \in calls' \ calls : e = d
    BY <2>1
  <2>5. /\ op = "role" => \A e \in calls' : e.op = "role" /\ e.id = d.id => e = d \/ d.id \in astray'
        /\ d.at # "ok" \/ d.op = "load"
        /\ d.id = 0 \/ list = "keys" \/ (loaded /\ ~NoCopy(shown, d.id))
        /\ d.op = "load" => Loading
        /\ d.op \in Changing => loaded \/ list = "keys"
        /\ d.op = "invite" => loaded \/ list # "clients"
    BY <1>3, <2>1, <2>2
  <2>6. FirstLoad' /\ InvitesAreFresh' /\ RolesApart' /\ ChangesStay' /\ RowsAreTold'
    BY <1>3, <2>2, <2>3, <2>4, <2>5, QuietSteps
  <2>7. OneLoad'
    BY <1>0, <1>3, <2>1, <2>2 DEF OneLoad
  <2>8. DialogShown'
    BY <1>0, <1>3 DEF DialogShown, NoCopy
  <2> QED BY <1>1, <2>6, <2>7, <2>8 DEF AccessInv
<1>4. CASE setInviteOpen \/ setCreateOpen \/ closeDialog
  <2>1. UNCHANGED <<table, shown, loaded, calls, astray>>
    BY <1>4 DEF setInviteOpen, setCreateOpen, closeDialog
  <2>2. dialog'.open # "deactivate"
    BY <1>4 DEF setInviteOpen, setCreateOpen, closeDialog, NoDialog
  <2> QED BY <1>2, <2>1, <2>2 DEF DialogShown
<1>5. ASSUME NEW i, IsShown(i) PROVE loaded /\ ~NoCopy(shown, i)
  BY <1>0, <1>5, CopiesCounted DEF IsShown, AccessTyped
<1>6. ASSUME NEW i \in Ids, setDeactivateTarget(i) \/ setRevokeTarget(i) PROVE AccessInv'
  <2>1. UNCHANGED <<table, shown, loaded, calls, astray>>
    BY <1>6 DEF setDeactivateTarget, setRevokeTarget
  <2>2. dialog'.open = "deactivate" => ~NoCopy(shown', dialog'.id)
    <3>1. dialog'.open = "deactivate" => dialog'.id = i /\ IsShown(i)
      BY <1>6 DEF setDeactivateTarget, setRevokeTarget
    <3> QED BY <1>5, <2>1, <3>1 DEF NoCopy
  <2> QED BY <1>2, <2>1, <2>2 DEF DialogShown, NoCopy
<1>7. ASSUME NEW p \in People, InviteMember(p) \/ InviteClient(p) PROVE AccessInv'
  <2>1. SentNow("invite", 0, p, "recruiter", <<>>) /\ UNCHANGED <<table, shown, loaded, astray>>
    BY <1>7, SendIs, Zenon DEF InviteMember, InviteClient
  <2>2. (loaded \/ list # "clients") /\ dialog' = dialog /\ "invite" \notin Changing
    BY <1>7 DEF InviteMember, InviteClient, Changing
  <2> QED BY <1>3, <2>1, <2>2
<1>8. ASSUME NEW p \in People, InvitedElsewhere(p) PROVE AccessInv'
  <2>1. SentNow("elsewhere", 0, p, "recruiter", <<>>) /\ UNCHANGED <<table, shown, loaded, dialog, astray>>
    BY <1>8, SendIs, Zenon DEF InvitedElsewhere
  <2>2. "elsewhere" \notin Changing
    BY DEF Changing
  <2> QED BY <1>3, <2>1, <2>2
<1>9. ASSUME NEW i \in Ids, RevokeClient(i) PROVE AccessInv'
  <2>1. SentNow("revokeGrant", i, "none", "recruiter", <<>>) /\ UNCHANGED <<table, shown, loaded, dialog, astray>>
    BY <1>9, SendIs, Zenon DEF RevokeClient
  <2>2. loaded /\ ~NoCopy(shown, i)
    BY <1>5, <1>9 DEF RevokeClient
  <2> QED BY <1>3, <2>1, <2>2
<1>10. ASSUME NEW i \in Ids, NEW role \in Roles, handleRoleChange(i, role) PROVE AccessInv'
  <2>1. SentNow("role", i, "none", role, shown) /\ UNCHANGED <<table, shown, loaded, dialog>>
    BY <1>10, SendIs, Zenon DEF handleRoleChange
  <2>2. loaded /\ ~NoCopy(shown, i)
    BY <1>5, <1>10 DEF handleRoleChange
  <2>3. astray' = astray \union {d.id : d \in {e \in calls : e.op = "role" /\ e.id = i}}
    BY <1>10, Zenon DEF handleRoleChange, Overtakes
  <2>4. \A e \in calls : e.op = "role" /\ e.id = i => i \in astray'
    BY <2>3
  <2>5. astray \subseteq astray'
    BY <2>3
  <2> QED BY <1>3, <2>1, <2>2, <2>4, <2>5
<1>11. CASE handleDeactivate
  <2>1. SentNow("deactivate", dialog.id, "none", "recruiter", shown) /\ UNCHANGED <<table, shown, loaded, dialog, astray>>
    BY <1>11, SendIs, Zenon DEF handleDeactivate
  <2>2. loaded /\ ~NoCopy(shown, dialog.id)
    BY <1>0, <1>11 DEF handleDeactivate, DialogKnown, DialogShown
  <2> QED BY <1>3, <2>1, <2>2
<1>12. CASE handleCreate
  <2>1. SentNow("create", 0, "none", "recruiter", <<>>) /\ UNCHANGED <<table, shown, loaded, dialog, astray>>
    BY <1>12, SendIs, Zenon DEF handleCreate
  <2>2. "create" \notin Changing
    BY DEF Changing
  <2> QED BY <1>3, <2>1, <2>2
<1>13. CASE handleRevoke
  <2>1. SentNow("revokeKey", dialog.id, "none", "recruiter", <<>>) /\ UNCHANGED <<table, shown, loaded, dialog, astray>>
    BY <1>13, SendIs, Zenon DEF handleRevoke
  <2>2. list = "keys"
    BY <1>13 DEF handleRevoke
  <2> QED BY <1>3, <2>1, <2>2
<1> QED BY <1>4, <1>6, <1>7, <1>8, <1>9, <1>10, <1>11, <1>12, <1>13, Zenon DEF Clicks

LEMMA IdsKnown ==
    ASSUME CallsKnown, AccessTyped, NEW c \in calls
    PROVE  c.id \in DOMAIN rows \union {0} /\ (c.op \in Inserting /\ c.at = "ok" => c.id \in DOMAIN rows) /\ 0 \notin DOMAIN rows
<1>1. CallKnown(c)
  BY DEF CallsKnown
<1>2. c.op \in {"load"} \union Inserting \union Changing
  BY <1>1 DEF CallKnown, OpsOf, Inserting, Changing
<1>3. 0 \notin DOMAIN rows
  BY DEF AccessTyped
<1> QED BY <1>1, <1>2, <1>3 DEF CallKnown

\* A new row is told of by the answer to the request that made it.
LEMMA RowInserted ==
    ASSUME AccessInv, list' = list, viewer' = viewer, shown' = shown, loaded' = loaded, dialog' = dialog,
           NEW c \in calls, NEW row \in RowRecs, rows' = Append(rows, row), c.op \in Inserting, c.at # "ok",
           IF c.op = "elsewhere"
             THEN calls' = calls \ {c} /\ astray' = astray \union {Len(rows) + 1}
             ELSE calls' = (calls \ {c}) \union {[c EXCEPT !.at = "ok", !.id = Len(rows) + 1]} /\ astray' = astray,
           c.op = "invite" => row = [who |-> c.who, role |-> c.role, status |-> "invited"],
           AccessKnown'
    PROVE  AccessInv'
<1> DEFINE r == Len(rows) + 1
<1>0. /\ AccessTyped /\ CallsKnown /\ ShownKnown /\ OneLoad /\ FirstLoad /\ InvitesAreFresh /\ DialogShown
      /\ RolesApart /\ ChangesStay /\ RowsAreTold
  BY DEF AccessInv, AccessKnown
<1>1. /\ r \notin DOMAIN rows /\ r # 0 /\ DOMAIN rows' = DOMAIN rows \union {r}
      /\ rows'[r] = row /\ \A i \in DOMAIN rows : rows'[i] = rows[i]
  BY <1>0, InsertIs
<1>2. PICK d : /\ d.op = c.op /\ d.at = "ok" /\ d.id = r /\ d.who = c.who /\ d.role = c.role
               /\ c.op # "elsewhere" => d \in calls'
               /\ calls' \subseteq (calls \ {c}) \union {d} /\ calls \ {c} \subseteq calls'
               /\ d \in calls' => c.op # "elsewhere"
  <2>1. \A d : d = [c EXCEPT !.at = "ok", !.id = r] =>
            d \in CallRecs /\ d.op = c.op /\ d.at = "ok" /\ d.id = r /\ d.who = c.who /\ d.role = c.role
    BY <1>0, InsertIs
  <2>2. PICK d : d = [c EXCEPT !.at = "ok", !.id = r]
    OBVIOUS
  <2>3. d.op = c.op /\ d.at = "ok" /\ d.id = r /\ d.who = c.who /\ d.role = c.role
    BY <2>1, <2>2
  <2>4. d \notin calls
    BY <1>0, <1>1, <2>3, IdsKnown
  <2>5. CASE c.op = "elsewhere"
    <3>1. calls' = calls \ {c}
      BY <2>5
    <3> QED BY <2>3, <2>4, <2>5, <3>1
  <2>6. CASE c.op # "elsewhere"
    <3>1. calls' = (calls \ {c}) \union {d}
      BY <2>2, <2>6, Zenon
    <3> QED BY <2>3, <2>6, <3>1
  <2> QED BY <2>5, <2>6
<1>3. c.op = "elsewhere" => r \in astray'
  OBVIOUS
<1>4. astray \subseteq astray'
  OBVIOUS
<1> HIDE DEF r
<1>5. OneLoad' /\ FirstLoad'
  <2>1. c.op \notin {"load"} /\ c.op \notin Changing
    BY DEF Inserting, Changing
  <2>2. \A e \in calls' : e \in calls \/ e = d
    BY <1>2
  <2>3. OneLoad'
    BY <1>0, <1>2, <2>1, <2>2 DEF OneLoad
  <2>4. Loading' => Loading
    BY <1>2, <2>1, <2>2 DEF Loading
  <2> QED BY <1>0, <1>2, <2>1, <2>2, <2>3, <2>4 DEF FirstLoad
<1>6. InvitesAreFresh'
  <2> SUFFICES ASSUME NEW e \in calls', e.op = "invite", e.at = "ok"
               PROVE  /\ ~loaded \/ NoCopy(shown, e.id) => Untouched(e)'
                      /\ list = "clients" => NoCopy(shown, e.id)
    BY DEF InvitesAreFresh, NoCopy
  <2>1. CASE e = d
    <3>1. NoCopy(shown, r)
      BY <1>0, <1>1 DEF ShownKnown, NoCopy
    <3>2. \A f \in calls' : f.id = r => f = d
      BY <1>0, <1>1, <1>2, IdsKnown
    <3>3. rows'[e.id] = [who |-> e.who, role |-> e.role, status |-> "invited"]
      BY <1>1, <1>2, <2>1
    <3> QED BY <1>2, <2>1, <3>1, <3>2, <3>3 DEF Untouched
  <2>2. CASE e # d
    <3>1. e \in calls /\ e.id \in DOMAIN rows
      BY <1>0, <1>2, <2>2, IdsKnown DEF Inserting
    <3>2. ASSUME ~loaded \/ NoCopy(shown, e.id) PROVE Untouched(e)'
      <4>1. Untouched(e)
        BY <1>0, <3>1, <3>2 DEF InvitesAreFresh
      <4>2. \A f \in calls' : f.id = e.id => f = e
        BY <1>1, <1>2, <3>1, <4>1 DEF Untouched
      <4> QED BY <1>1, <3>1, <4>1, <4>2 DEF Untouched
    <3>3. list = "clients" => NoCopy(shown, e.id)
      BY <1>0, <3>1 DEF InvitesAreFresh
    <3> QED BY <3>2, <3>3
  <2> QED BY <2>1, <2>2
<1>7. DialogShown'
  BY <1>0 DEF DialogShown, NoCopy
<1>8. d.op \notin Changing
  BY <1>2 DEF Inserting, Changing
<1>9. RolesApart'
  <2>1. \A e \in calls' : e.op = "role" => e \in calls
    BY <1>2, <1>8 DEF Changing
  <2> QED BY <1>0, <1>4, <2>1 DEF RolesApart
<1>10. ChangesStay'
  <2> SUFFICES ASSUME NEW e \in calls', e.at = "ok", e.op \in Changing
               PROVE  /\ e.op = "role" /\ viewer = "admin" => rows'[e.id].role = e.role \/ e.id \in astray'
                      /\ e.op = "deactivate" /\ viewer = "admin" => rows'[e.id].status = "deactivated"
                      /\ e.op = "revokeGrant" => rows'[e.id].status = "revoked"
    BY DEF ChangesStay, Changing
  <2>1. e \in calls
    BY <1>2, <1>8
  <2>2. e.id \in DOMAIN rows
    BY <1>0, <2>1 DEF CallsKnown, CallKnown
  <2>3. rows'[e.id] = rows[e.id]
    BY <1>1, <2>2
  <2> QED BY <1>0, <1>4, <2>1, <2>3 DEF ChangesStay
<1>11. RowsAreTold'
  <2> SUFFICES ASSUME viewer = "admin", loaded, ~Loading', NEW i \in DOMAIN rows' \ astray'
               PROVE  Told(i)'
    BY DEF RowsAreTold
  <2>1. ~Loading
    BY <1>2 DEF Loading, Inserting
  <2>2. CASE i \in DOMAIN rows
    <3>1. Told(i)
      BY <1>0, <1>4, <2>1, <2>2 DEF RowsAreTold
    <3>2. \A op : op # "load" /\ Pending(op, i) => Pending(op, i)'
      BY <1>2 DEF Pending
    <3> QED BY <1>1, <2>2, <3>1, <3>2, ToldStays
  <2>3. CASE i = r
    <3>1. Pending(c.op, i)'
      BY <1>2, <1>3, <2>3 DEF Pending
    <3>2. CallKnown(c) /\ c.op # "elsewhere"
      BY <1>0, <1>3, <2>3 DEF CallsKnown
    <3>3. /\ list \in {"team", "clients"} => c.op = "invite"
          /\ list = "keys" => c.op = "create"
      BY <3>2 DEF CallKnown, OpsOf, Inserting
    <3> QED BY <2>3, <3>1, <3>3 DEF Told, KeyTold
  <2> QED BY <1>1, <2>2, <2>3
<1> QED BY <1>5, <1>6, <1>7, <1>9, <1>10, <1>11 DEF AccessInv

\* A row changed is told of by the answer to the request that changed it.
LEMMA RowChanged ==
    ASSUME AccessInv, list' = list, viewer' = viewer, shown' = shown, loaded' = loaded, dialog' = dialog,
           astray' = astray, NEW c \in calls, MemberUpdated(c) \/ Revoked(c), AccessKnown'
    PROVE  AccessInv'
<1>0. /\ AccessTyped /\ CallsKnown /\ ShownKnown /\ OneLoad /\ FirstLoad /\ InvitesAreFresh /\ DialogShown
      /\ RolesApart /\ ChangesStay /\ RowsAreTold
  BY DEF AccessInv, AccessKnown
<1>1. c.op \in Changing /\ c.at = "sent" /\ Handled(c, "ok")
  BY DEF MemberUpdated, Revoked, Changing
<1>2. /\ rows \in Seq(RowRecs) /\ c \in CallRecs /\ CallKnown(c) /\ c.id \in DOMAIN rows /\ c.role \in Roles
      /\ c.op \in OpsOf(list) /\ list \in {"team", "clients", "keys"}
  BY <1>0, <1>1, CallFields DEF AccessTyped, CallsKnown, CallKnown
<1>3. PICK d : /\ d.op = c.op /\ d.at = "ok" /\ d.id = c.id /\ d.role = c.role
               /\ calls' = (calls \ {c}) \union {d}
  <2>1. PICK d : d = [c EXCEPT !.at = "ok"] /\ calls' = (calls \ {c}) \union {d}
    BY <1>1, Zenon DEF Handled
  <2>2. d.op = c.op /\ d.at = "ok" /\ d.id = c.id /\ d.role = c.role
    BY <1>2, <2>1 DEF CallRecs
  <2> QED BY <2>1, <2>2
<1>4. \/ rows' = rows /\ viewer # "admin" /\ c.op \in {"role", "deactivate"}
      \/ rows' = [rows EXCEPT ![c.id].role = c.role] /\ c.op = "role" /\ list = "team"
      \/ rows' = [rows EXCEPT ![c.id].status = "deactivated"] /\ c.op = "deactivate" /\ list = "team"
      \/ rows' = [rows EXCEPT ![c.id].status = "revoked"] /\ c.op = "revokeGrant" /\ list = "clients"
      \/ rows' = [rows EXCEPT ![c.id].status = "revoked"] /\ c.op = "revokeKey" /\ list = "keys"
  <2>1. /\ c.op \in {"role", "deactivate"} => list = "team"
        /\ c.op = "revokeGrant" => list = "clients"
        /\ c.op = "revokeKey" => list = "keys"
    BY <1>2 DEF OpsOf
  <2>2. \/ c.op \in {"role", "deactivate"} /\ rows' = IF viewer # "admin" THEN rows
               ELSE IF c.op = "role" THEN [rows EXCEPT ![c.id].role = c.role]
               ELSE [rows EXCEPT ![c.id].status = "deactivated"]
        \/ c.op \in {"revokeGrant", "revokeKey"} /\ rows' = [rows EXCEPT ![c.id].status = "revoked"]
    BY Zenon DEF MemberUpdated, Revoked
  <2>3. CASE c.op \in {"role", "deactivate"} /\ viewer # "admin"
    BY <2>2, <2>3
  <2>4. CASE c.op = "role" /\ viewer = "admin"
    BY <2>1, <2>2, <2>4
  <2>5. CASE c.op = "deactivate" /\ viewer = "admin"
    BY <2>1, <2>2, <2>5
  <2>6. CASE c.op = "revokeGrant"
    BY <2>1, <2>2, <2>6
  <2>7. CASE c.op = "revokeKey"
    BY <2>1, <2>2, <2>7
  <2> QED BY <2>2, <2>3, <2>4, <2>5, <2>6, <2>7
<1>5. /\ DOMAIN rows' = DOMAIN rows /\ \A k \in DOMAIN rows \ {c.id} : rows'[k] = rows[k]
      /\ rows'[c.id].who = rows[c.id].who
      /\ c.op = "role" /\ viewer = "admin" => rows'[c.id].role = c.role /\ rows'[c.id].status = rows[c.id].status
      /\ c.op = "deactivate" /\ viewer = "admin" =>
            rows'[c.id].status = "deactivated" /\ rows'[c.id].role = rows[c.id].role
      /\ c.op \in {"revokeGrant", "revokeKey"} => rows'[c.id].status = "revoked" /\ rows'[c.id].role = rows[c.id].role
  <2> DEFINE i == c.id
  <2>1. i \in DOMAIN rows /\ "deactivated" \in {"invited", "active", "deactivated", "revoked"}
        /\ "revoked" \in {"invited", "active", "deactivated", "revoked"}
    BY <1>2
  <2> HIDE DEF i
  <2>2. /\ rows' = [rows EXCEPT ![i].role = c.role] =>
              /\ DOMAIN rows' = DOMAIN rows /\ \A k \in DOMAIN rows \ {i} : rows'[k] = rows[k]
              /\ rows'[i].role = c.role /\ rows'[i].who = rows[i].who /\ rows'[i].status = rows[i].status
        /\ rows' = [rows EXCEPT ![i].status = "deactivated"] =>
              /\ DOMAIN rows' = DOMAIN rows /\ \A k \in DOMAIN rows \ {i} : rows'[k] = rows[k]
              /\ rows'[i].status = "deactivated" /\ rows'[i].who = rows[i].who /\ rows'[i].role = rows[i].role
        /\ rows' = [rows EXCEPT ![i].status = "revoked"] =>
              /\ DOMAIN rows' = DOMAIN rows /\ \A k \in DOMAIN rows \ {i} : rows'[k] = rows[k]
              /\ rows'[i].status = "revoked" /\ rows'[i].who = rows[i].who /\ rows'[i].role = rows[i].role
    BY <1>2, <2>1, RowChanges
  <2>3. CASE rows' = rows /\ viewer # "admin" /\ c.op \in {"role", "deactivate"}
    BY <2>3
  <2>4. CASE c.op = "role" /\ rows' = [rows EXCEPT ![i].role = c.role]
    BY <2>2, <2>4 DEF i
  <2>5. CASE c.op = "deactivate" /\ rows' = [rows EXCEPT ![i].status = "deactivated"]
    BY <2>2, <2>5 DEF i
  <2>6. CASE c.op \in {"revokeGrant", "revokeKey"} /\ rows' = [rows EXCEPT ![i].status = "revoked"]
    BY <2>2, <2>6 DEF i
  <2> QED BY <1>4, <2>3, <2>4, <2>5, <2>6 DEF i
<1>6. c.op \notin {"load", "invite"} /\ \A e \in calls' : e = d \/ (e \in calls /\ e # c)
  BY <1>1, <1>3 DEF Changing
<1>7. OneLoad' /\ FirstLoad'
  <2>1. OneLoad'
    BY <1>0, <1>3, <1>6 DEF OneLoad
  <2>2. Loading' => Loading
    BY <1>3, <1>6 DEF Loading
  <2>3. list # "keys" => loaded
    BY <1>0, <1>1 DEF FirstLoad
  <2> QED BY <1>0, <2>1, <2>2, <2>3 DEF FirstLoad
<1>8. InvitesAreFresh'
  <2> SUFFICES ASSUME NEW e \in calls', e.op = "invite", e.at = "ok"
               PROVE  /\ ~loaded \/ NoCopy(shown, e.id) => Untouched(e)'
                      /\ list = "clients" => NoCopy(shown, e.id)
    BY DEF InvitesAreFresh, NoCopy
  <2>1. e \in calls /\ e # c /\ e.id \in DOMAIN rows
    <3>1. e # d
      BY <1>3, <1>6
    <3> QED BY <1>0, <1>6, <3>1, IdsKnown DEF Inserting
  <2>2. ASSUME ~loaded \/ NoCopy(shown, e.id) PROVE Untouched(e)'
    <3>1. Untouched(e)
      BY <1>0, <2>1, <2>2 DEF InvitesAreFresh
    <3>2. e.id # c.id
      BY <2>1, <3>1 DEF Untouched
    <3>3. \A f \in calls' : f.id = e.id => f = e
      BY <1>3, <1>6, <3>1, <3>2 DEF Untouched
    <3> QED BY <1>5, <2>1, <3>1, <3>2, <3>3 DEF Untouched
  <2>3. list = "clients" => NoCopy(shown, e.id)
    BY <1>0, <2>1 DEF InvitesAreFresh
  <2> QED BY <2>2, <2>3
<1>9. DialogShown'
  BY <1>0 DEF DialogShown, NoCopy
<1>10. RolesApart'
  BY <1>0, <1>3, <1>6 DEF RolesApart
<1>11. ChangesStay'
  <2> SUFFICES ASSUME NEW e \in calls', e.at = "ok"
               PROVE  /\ e.op = "role" /\ viewer = "admin" => rows'[e.id].role = e.role \/ e.id \in astray
                      /\ e.op = "deactivate" /\ viewer = "admin" => rows'[e.id].status = "deactivated"
                      /\ e.op = "revokeGrant" => rows'[e.id].status = "revoked"
    BY DEF ChangesStay
  <2>1. CASE e = d
    BY <1>3, <1>5, <2>1
  <2>2. CASE e \in calls /\ e # c
    <3>1. /\ e.op = "role" /\ viewer = "admin" => rows[e.id].role = e.role \/ e.id \in astray
          /\ e.op = "deactivate" /\ viewer = "admin" => rows[e.id].status = "deactivated"
          /\ e.op = "revokeGrant" => rows[e.id].status = "revoked"
      BY <1>0, <2>2 DEF ChangesStay
    <3>2. /\ e.op \in OpsOf(list) /\ (e.op \in Changing => e.id \in DOMAIN rows)
      BY <1>0, <2>2 DEF CallsKnown, CallKnown
    <3>3. CASE e.id # c.id
      BY <1>5, <3>1, <3>2, <3>3 DEF Changing
    <3>4. CASE e.id = c.id
      <4>1. e.op = "role" /\ c.op = "role" => e.id \in astray
        BY <1>0, <2>2, <3>4 DEF RolesApart
      <4>2. /\ e.op \in {"role", "deactivate"} => c.op \in {"role", "deactivate"}
            /\ e.op = "revokeGrant" => c.op = "revokeGrant"
        BY <1>1, <1>2, <3>2 DEF OpsOf, Changing
      <4> QED BY <1>5, <3>1, <3>4, <4>1, <4>2
    <3> QED BY <3>3, <3>4
  <2> QED BY <1>6, <2>1, <2>2
<1>12. RowsAreTold'
  <2> SUFFICES ASSUME viewer = "admin", loaded, ~Loading', NEW i \in DOMAIN rows \ astray
               PROVE  Told(i)'
    BY <1>5 DEF RowsAreTold
  <2>1. Told(i)
    <3>1. ~Loading
      BY <1>3, <1>6 DEF Loading
    <3> QED BY <1>0, <3>1 DEF RowsAreTold
  <2>2. \A op : op # "load" /\ Pending(op, i) => Pending(op, i)'
    BY <1>1, <1>3 DEF Pending
  <2>3. CASE i # c.id
    BY <1>5, <2>1, <2>2, <2>3, ToldStays
  <2>4. CASE i = c.id
    <3>1. Pending(c.op, i)'
      BY <1>3, <2>4 DEF Pending
    <3>2. list = "team" => (Pending("invite", i) \/ TeamTold(i))'
      <4> SUFFICES ASSUME list = "team", TeamTold(i) PROVE TeamTold(i)'
        BY <2>1, <2>2 DEF Told
      <4>1. PICK n \in DOMAIN shown :
               /\ shown[n].id = i /\ \A m \in DOMAIN shown : shown[m].id = i => m = n
               /\ shown[n].who = rows[i].who
               /\ shown[n].role = rows[i].role \/ Pending("role", i)
               /\ shown[n].status = rows[i].status \/ Pending("deactivate", i)
        BY Zenon DEF TeamTold
      <4>2. c.op \in {"role", "deactivate"}
        BY <1>1, <1>2 DEF OpsOf, Changing
      <4>3. /\ shown[n].role = rows'[i].role \/ Pending("role", i)'
            /\ shown[n].status = rows'[i].status \/ Pending("deactivate", i)'
        BY <1>5, <2>2, <2>4, <3>1, <4>1, <4>2
      <4>4. shown[n].who = rows'[i].who
        BY <1>5, <2>4, <4>1
      <4> QED BY <4>1, <4>3, <4>4 DEF TeamTold
    <3>3. list = "clients" => ClientTold(i)'
      <4> SUFFICES ASSUME list = "clients" PROVE ClientTold(i)'
        OBVIOUS
      <4>1. c.op = "revokeGrant"
        BY <1>1, <1>2 DEF OpsOf, Changing
      <4> QED BY <1>5, <2>4, <3>1, <4>1 DEF ClientTold
    <3>4. list = "keys" => KeyTold(i)'
      <4> SUFFICES ASSUME list = "keys" PROVE KeyTold(i)'
        OBVIOUS
      <4>1. c.op = "revokeKey"
        BY <1>1, <1>2 DEF OpsOf, Changing
      <4> QED BY <3>1, <4>1 DEF KeyTold
    <3> QED BY <3>2, <3>3, <3>4 DEF Told
  <2> QED BY <2>3, <2>4
<1> QED BY <1>7, <1>8, <1>9, <1>10, <1>11, <1>12 DEF AccessInv

LEMMA AccessServers == AccessInv /\ Servers => AccessInv'
<1> SUFFICES ASSUME AccessInv, Servers PROVE AccessInv'
  OBVIOUS
<1> USE DEF table
<1>0. AccessKnown /\ AccessTyped /\ CallsKnown /\ ShownKnown /\ OneLoad /\ FirstLoad /\ DialogShown
  BY DEF AccessInv, AccessKnown
<1>1. AccessKnown'
  BY <1>0, KnownServers
<1>2. list' = list /\ viewer' = viewer /\ shown' = shown /\ loaded' = loaded /\ dialog' = dialog
  BY Zenon DEF Servers, LoadRead, InviteChecked, InviteInserted, MemberUpdated, Revoked, KeyInserted
<1>3. PICK c \in calls : \/ LoadRead(c) \/ InviteChecked(c) \/ InviteInserted(c)
                         \/ MemberUpdated(c) \/ Revoked(c) \/ KeyInserted(c)
  BY Zenon DEF Servers
<1>4. c \in CallRecs /\ CallKnown(c)
  BY <1>0, CallFields DEF CallsKnown
<1>5. DialogShown'
  BY <1>0, <1>2 DEF DialogShown, NoCopy
<1>6. CASE LoadRead(c)
  <2>1. PICK d : calls' = (calls \ {c}) \union {d} /\ d.op = "load" /\ d.id = c.id
    BY <1>0, <1>6, ReadIs
  <2>2. rows' = rows /\ astray' = astray /\ c.op = "load" /\ c.id = 0
    BY <1>4, <1>6 DEF LoadRead, CallKnown
  <2>3. Loading /\ Loading'
    BY <2>1, <2>2 DEF Loading
  <2>4. \A e \in calls' \ calls : e = d
    BY <2>1
  <2>5. \A e \in calls \ calls' : e = c
    BY <2>1
  <2>6. "load" \notin Changing
    BY DEF Changing
  <2>7. FirstLoad' /\ InvitesAreFresh' /\ RolesApart' /\ ChangesStay' /\ RowsAreTold'
    BY <1>2, <2>1, <2>2, <2>3, <2>4, <2>5, <2>6, QuietSteps
  <2>8. OneLoad'
    BY <1>0, <1>2, <2>1, <2>2 DEF OneLoad
  <2> QED BY <1>1, <1>5, <2>7, <2>8 DEF AccessInv
<1>7. ASSUME NEW at, at # "ok", Handled(c, at), c.op \in {"invite", "elsewhere"}, c.at # "ok",
             rows' = rows, astray' = astray
      PROVE  AccessInv'
  <2>1. PICK d : d = [c EXCEPT !.at = at] /\ calls' = (calls \ {c}) \union {d}
    BY <1>7, Zenon DEF Handled
  <2>2. d.op = c.op /\ d.id = c.id /\ d.at = at
    BY <1>4, <2>1 DEF CallRecs
  <2>3. c.id = 0
    BY <1>4, <1>7 DEF CallKnown, Inserting
  <2>4. Loading => Loading'
    BY <1>7, <2>1 DEF Loading
  <2>5. (\A e \in calls' \ calls : e = d) /\ \A e \in calls \ calls' : e = c
    BY <2>1
  <2>6. c.op \notin Changing /\ (c.op = "invite" => loaded \/ list # "clients")
    BY <1>0, <1>7 DEF Changing, FirstLoad
  <2>7. FirstLoad' /\ InvitesAreFresh' /\ RolesApart' /\ ChangesStay' /\ RowsAreTold'
    BY <1>2, <1>7, <2>2, <2>3, <2>4, <2>5, <2>6, QuietSteps
  <2>8. OneLoad'
    BY <1>0, <1>2, <1>7, <2>1, <2>2 DEF OneLoad
  <2> QED BY <1>1, <1>5, <2>7, <2>8 DEF AccessInv
<1>8. CASE InviteChecked(c)
  <2>1. PICK at \in {"checked", "refused"} : Handled(c, at)
    BY <1>8, Zenon DEF InviteChecked
  <2>2. rows' = rows /\ astray' = astray /\ c.op \in {"invite", "elsewhere"} /\ c.at = "sent"
    BY <1>8 DEF InviteChecked
  <2> QED BY <1>7, <2>1, <2>2
<1>9. CASE InviteInserted(c)
  <2>1. c.op \in {"invite", "elsewhere"} /\ c.at = "checked"
    BY <1>9 DEF InviteInserted
  <2>2. CASE HasActiveGrant(c.who)
    <3>1. Handled(c, "refused") /\ rows' = rows /\ astray' = astray
      BY <1>9, <2>2 DEF InviteInserted
    <3> QED BY <1>7, <2>1, <3>1
  <2>3. CASE ~HasActiveGrant(c.who)
    <3>1. PICK row : row = [who |-> c.who, role |-> c.role, status |-> "invited"] /\ rows' = Append(rows, row)
      BY <1>9, <2>3, Zenon DEF InviteInserted
    <3>2. row \in RowRecs
      BY <1>4, <3>1 DEF RowRecs, CallRecs
    <3>3. IF c.op = "elsewhere"
            THEN calls' = calls \ {c} /\ astray' = astray \union {Len(rows) + 1}
            ELSE calls' = (calls \ {c}) \union {[c EXCEPT !.at = "ok", !.id = Len(rows) + 1]} /\ astray' = astray
      <4>1. calls' = (calls \ {c}) \union (IF c.op = "elsewhere" THEN {}
                                           ELSE {[c EXCEPT !.at = "ok", !.id = Len(rows) + 1]})
            /\ astray' = IF c.op = "elsewhere" THEN astray \union {Len(rows) + 1} ELSE astray
        BY <1>9, <2>3, Zenon DEF InviteInserted
      <4> QED BY <4>1, Zenon
    <3> QED BY <1>1, <1>2, <2>1, <3>1, <3>2, <3>3, RowInserted DEF Inserting
  <2> QED BY <2>2, <2>3
<1>10. CASE MemberUpdated(c) \/ Revoked(c)
  <2>1. astray' = astray
    BY <1>10 DEF MemberUpdated, Revoked
  <2> QED BY <1>1, <1>2, <1>10, <2>1, RowChanged
<1>11. CASE KeyInserted(c)
  <2>1. PICK row : row = [who |-> "none", role |-> viewer, status |-> "active"] /\ rows' = Append(rows, row)
    BY <1>11, Zenon DEF KeyInserted
  <2>2. row \in RowRecs
    BY <1>0, <2>1 DEF RowRecs, AccessTyped
  <2>3. /\ calls' = (calls \ {c}) \union {[c EXCEPT !.at = "ok", !.id = Len(rows) + 1]}
        /\ c.op = "create" /\ c.at = "sent" /\ astray' = astray
    BY <1>11, Zenon DEF KeyInserted
  <2> QED BY <1>1, <1>2, <2>1, <2>2, <2>3, RowInserted DEF Inserting
<1> QED BY <1>3, <1>6, <1>8, <1>9, <1>10, <1>11

\* What an answer leaves of the other requests.
LEMMA CallsLeft ==
    ASSUME AccessInv, list' = list, viewer' = viewer, rows' = rows, NEW c \in calls, calls' = calls \ {c}
    PROVE  /\ OneLoad'
           /\ loaded' = loaded => FirstLoad'
           /\ astray \subseteq astray' => RolesApart' /\ ChangesStay'
           /\ \A e \in calls' : Untouched(e) => Untouched(e)'
           /\ c.op # "load" => (Loading => Loading')
           /\ \A op, i : Pending(op, i) /\ ~(c.op = op /\ c.id = i /\ c.at = "ok") => Pending(op, i)'
<1>0. OneLoad /\ FirstLoad /\ RolesApart /\ ChangesStay
  BY DEF AccessInv
<1>1. OneLoad'
  BY <1>0 DEF OneLoad
<1>2. loaded' = loaded => FirstLoad'
  BY <1>0 DEF FirstLoad, Loading
<1>3. astray \subseteq astray' => RolesApart' /\ ChangesStay'
  BY <1>0 DEF RolesApart, ChangesStay
<1>4. \A e \in calls' : Untouched(e) => Untouched(e)'
  BY DEF Untouched
<1>5. c.op # "load" => (Loading => Loading')
  BY DEF Loading
<1>6. \A op, i : Pending(op, i) /\ ~(c.op = op /\ c.id = i /\ c.at = "ok") => Pending(op, i)'
  BY DEF Pending
<1> QED BY <1>1, <1>2, <1>3, <1>4, <1>5, <1>6

LEMMA AccessAnswers == AccessInv /\ Answers => AccessInv'
<1> SUFFICES ASSUME AccessInv, Answers PROVE AccessInv'
  OBVIOUS
<1> USE DEF table
<1>0. /\ AccessKnown /\ AccessTyped /\ CallsKnown /\ ShownKnown /\ DialogKnown /\ OneLoad /\ FirstLoad
      /\ InvitesAreFresh /\ DialogShown /\ RolesApart /\ ChangesStay /\ RowsAreTold
  BY DEF AccessInv, AccessKnown
<1>1. AccessKnown'
  BY <1>0, KnownAnswers
<1>2. PICK c \in calls : \/ LoadAnswer(c) \/ LoadError(c) \/ InviteAnswer(c) \/ InviteError(c)
                         \/ RoleAnswer(c) \/ DeactivateAnswer(c) \/ UpdateError(c)
                         \/ RevokeAnswer(c) \/ RevokeError(c) \/ CreateAnswer(c) \/ CreateError(c)
  BY Zenon DEF Answers
<1>3. list' = list /\ viewer' = viewer /\ rows' = rows
  BY <1>2, Zenon DEF LoadAnswer, LoadError, InviteAnswer, InviteError, RoleAnswer, DeactivateAnswer, UpdateError,
     RevokeAnswer, RevokeError, CreateAnswer, CreateError
<1>4. /\ c \in CallRecs /\ CallKnown(c) /\ c.op \in OpsOf(list) /\ c.id \in Nat /\ c.who \in People \union {"none"}
      /\ c.role \in Roles /\ c.got \in Seq(EntryRecs) /\ list \in {"team", "clients", "keys"}
      /\ shown \in Seq(EntryRecs) /\ 0 \notin DOMAIN rows
  BY <1>0, CallFields, IdsKnown DEF CallsKnown, CallKnown, AccessTyped
<1>5. ASSUME c.op # "load", calls' = calls \ {c}, shown' = shown, loaded' = loaded, astray \subseteq astray',
             c.at = "ok" => c.id \in astray', dialog' = dialog \/ dialog' = NoDialog
      PROVE  AccessInv'
  <2>1. OneLoad' /\ (Loading => Loading')
    BY <1>3, <1>5, CallsLeft
  <2>2. calls' \ calls = {} /\ \A d \in calls \ calls' : d = c
    BY <1>5
  <2>3. FirstLoad' /\ InvitesAreFresh' /\ RolesApart' /\ ChangesStay' /\ RowsAreTold'
    BY <1>3, <1>5, <2>1, <2>2, QuietSteps
  <2>4. DialogShown'
    BY <1>0, <1>5 DEF DialogShown, NoCopy, NoDialog
  <2> QED BY <1>1, <2>1, <2>3, <2>4 DEF AccessInv
<1>6. CASE InviteError(c) \/ UpdateError(c) \/ RevokeError(c) \/ CreateError(c)
  <2>1. c.op # "load" /\ calls' = calls \ {c} /\ shown' = shown /\ loaded' = loaded
    BY <1>6 DEF InviteError, UpdateError, RevokeError, CreateError
  <2>2. astray' = IF c.at = "ok" THEN astray \union {c.id} ELSE astray
    BY <1>6, Zenon DEF InviteError, UpdateError, RevokeError, CreateError
  <2>3. dialog' = dialog \/ dialog' = NoDialog
    BY <1>6, Zenon DEF InviteError, UpdateError, RevokeError, CreateError
  <2>4. astray \subseteq astray' /\ (c.at = "ok" => c.id \in astray')
    BY <2>2
  <2> QED BY <1>5, <2>1, <2>3, <2>4
<1>7. ASSUME c.op = "load", list # "keys"
      PROVE  ~loaded /\ ~(\E d \in calls : d # c /\ d.op = "load")
  BY <1>0, <1>7 DEF FirstLoad, OneLoad, Loading
<1>8. CASE LoadAnswer(c)
  <2>1. /\ c.op = "load" /\ calls' = calls \ {c} /\ shown' = c.got /\ loaded' = TRUE /\ dialog' = dialog
        /\ astray' = {i \in DOMAIN rows : ~TrueOf(c.got, i) /\ \A d \in calls : d.op = "invite" => d.id # i}
    BY <1>8 DEF LoadAnswer
  <2>2. OneLoad' /\ \A e \in calls' : Untouched(e) => Untouched(e)'
    BY <1>3, <2>1, CallsLeft
  <2>3. FirstLoad'
    BY <1>3, <1>7, <2>1 DEF FirstLoad, Loading
  <2>4. \A e \in calls' : e \in calls /\ e.op \in OpsOf(list)
    BY <1>0, <2>1 DEF CallsKnown, CallKnown
  <2>5. InvitesAreFresh'
    <3> SUFFICES ASSUME NEW e \in calls', e.op = "invite", e.at = "ok"
                 PROVE  Untouched(e)' /\ list # "clients"
      BY <1>3 DEF InvitesAreFresh
    <3>1. list # "keys" /\ ~loaded
      BY <1>7, <2>1, <2>4 DEF OpsOf
    <3>2. Untouched(e)
      BY <1>0, <2>4, <3>1 DEF InvitesAreFresh
    <3> QED BY <1>0, <2>2, <2>4, <3>1, <3>2 DEF FirstLoad
  <2>6. DialogShown'
    <3>1. dialog.open # "deactivate"
      BY <1>0, <1>7, <2>1 DEF DialogKnown
    <3> QED BY <2>1, <3>1 DEF DialogShown
  <2>7. \A e \in calls' : e.op \notin {"role", "deactivate", "revokeGrant"}
    <3>1. list # "keys" => \A e \in calls' : e.op \notin Changing
      BY <1>0, <1>7, <2>1, <2>4 DEF FirstLoad
    <3>2. list = "keys" => \A e \in calls' : e.op \notin {"role", "deactivate", "revokeGrant"}
      BY <2>4 DEF OpsOf
    <3> QED BY <3>1, <3>2 DEF Changing
  <2>8. RolesApart' /\ ChangesStay'
    BY <2>7 DEF RolesApart, ChangesStay
  <2>9. RowsAreTold'
    <3> SUFFICES ASSUME NEW i \in DOMAIN rows, i \notin astray' PROVE Told(i)'
      BY <1>3 DEF RowsAreTold
    <3>1. CASE TrueOf(c.got, i)
      <4>1. IF StillListed(i) THEN OneCopy(c.got, i) ELSE NoCopy(c.got, i)
        BY <1>0, <1>4, <3>1, TruthIsPlain
      <4>2. (IF StillListed(i) THEN OneCopy(shown, i) ELSE NoCopy(shown, i))'
        BY <1>3, <2>1, <4>1 DEF StillListed, OneCopy, NoCopy, Entry
      <4> QED BY <4>2, TruthTold
    <3>2. ASSUME NEW d \in calls, d.op = "invite", d.id = i PROVE Told(i)'
      <4>1. d.at = "ok" /\ d.op \in OpsOf(list)
        BY <1>0, <1>4, <3>2 DEF CallsKnown, CallKnown, Inserting
      <4>2. Pending("invite", i)'
        BY <2>1, <3>2, <4>1 DEF Pending
      <4>3. list # "keys"
        BY <3>2, <4>1 DEF OpsOf
      <4> QED BY <1>3, <4>2, <4>3 DEF Told
    <3> QED BY <2>1, <3>1, <3>2
  <2> QED BY <1>1, <2>2, <2>3, <2>5, <2>6, <2>8, <2>9 DEF AccessInv
<1>9. CASE LoadError(c)
  <2>1. /\ c.op = "load" /\ calls' = calls \ {c} /\ shown' = shown /\ dialog' = dialog
        /\ astray' = astray \union {i \in DOMAIN rows : ~TrueOf(shown, i)}
    BY <1>9 DEF LoadError
  <2>2. loaded' = (loaded \/ list # "clients")
    BY <1>9, Zenon DEF LoadError
  <2>3. OneLoad' /\ RolesApart' /\ ChangesStay' /\ \A e \in calls' : Untouched(e) => Untouched(e)'
    BY <1>3, <2>1, CallsLeft
  <2>4. \A e \in calls' : e \in calls /\ e # c /\ e.op \in OpsOf(list)
    BY <1>0, <2>1 DEF CallsKnown, CallKnown
  <2>5. FirstLoad'
    BY <1>0, <1>3, <1>7, <2>1, <2>2, <2>4 DEF FirstLoad, Loading
  <2>6. InvitesAreFresh'
    <3> SUFFICES ASSUME NEW e \in calls', e.op = "invite", e.at = "ok"
                 PROVE  Untouched(e)' /\ list # "clients"
      BY <1>3 DEF InvitesAreFresh
    <3>1. list # "keys" /\ ~loaded
      BY <1>7, <2>1, <2>4 DEF OpsOf
    <3>2. Untouched(e)
      BY <1>0, <2>4, <3>1 DEF InvitesAreFresh
    <3> QED BY <1>0, <2>3, <2>4, <3>1, <3>2 DEF FirstLoad
  <2>7. DialogShown'
    BY <1>0, <2>1 DEF DialogShown, NoCopy
  <2>8. RowsAreTold'
    <3> SUFFICES ASSUME NEW i \in DOMAIN rows, i \notin astray' PROVE Told(i)'
      BY <1>3 DEF RowsAreTold
    <3>1. IF StillListed(i) THEN OneCopy(shown, i) ELSE NoCopy(shown, i)
      BY <1>0, <1>4, <2>1, TruthIsPlain
    <3>2. (IF StillListed(i) THEN OneCopy(shown, i) ELSE NoCopy(shown, i))'
      BY <1>3, <2>1, <3>1 DEF StillListed, OneCopy, NoCopy, Entry
    <3> QED BY <3>2, TruthTold
  <2> QED BY <1>1, <2>3, <2>5, <2>6, <2>7, <2>8 DEF AccessInv
<1>10. CASE InviteAnswer(c)
  <2>1. /\ c.op = "invite" /\ c.at = "ok" /\ calls' = calls \ {c} /\ loaded' = loaded
        /\ dialog' = dialog \/ dialog' = NoDialog
    BY <1>10, Zenon DEF InviteAnswer
  <2>2. PICK e : /\ e = [id |-> c.id, who |-> c.who, role |-> c.role, status |-> "invited"]
                 /\ shown' = <<e>> \o shown
    BY <1>10, Zenon DEF InviteAnswer
  <2>3. astray' = IF Copies(shown, c.id) > 0 THEN astray \union {c.id} ELSE astray
    BY <1>10, Zenon DEF InviteAnswer
  <2>4. e \in EntryRecs /\ e.id = c.id
    BY <1>4, <2>2 DEF EntryRecs
  <2>5. /\ 1 \in DOMAIN shown' /\ shown'[1] = e
        /\ \A n \in DOMAIN shown : n \in Nat /\ n # 0 /\ n + 1 \in DOMAIN shown' /\ shown'[n + 1] = shown[n]
        /\ \A m \in DOMAIN shown' : m \in Nat /\ (m = 1 \/ (m - 1 \in DOMAIN shown /\ shown'[m] = shown[m - 1]))
    BY <1>4, <2>2, <2>4, InFront
  <2>6. astray \subseteq astray' /\ (c.id \notin astray' => NoCopy(shown, c.id))
    <3>1. ~(Copies(shown, c.id) > 0) => NoCopy(shown, c.id)
      <4>1. Copies(shown, c.id) \in Nat
        <5>1. DOMAIN shown = 1 .. Len(shown) /\ Len(shown) \in Nat
          BY <1>4
        <5>2. IsFiniteSet(DOMAIN shown)
          BY <5>1, OneTo
        <5>3. IsFiniteSet({n \in DOMAIN shown : shown[n].id = c.id})
          BY <5>2, FS_Subset
        <5> QED BY <5>3, FS_CardinalityType DEF Copies
      <4>2. Copies(shown, c.id) = 0 => NoCopy(shown, c.id)
        BY <1>4, CopiesCounted
      <4> QED BY <4>1, <4>2
    <3> QED BY <2>3, <3>1
  <2>7. \A i : NoCopy(shown', i) <=> i # c.id /\ NoCopy(shown, i)
    <3>1. ASSUME NEW i, NoCopy(shown', i) PROVE i # c.id /\ NoCopy(shown, i)
      BY <2>4, <2>5, <3>1 DEF NoCopy
    <3>2. ASSUME NEW i, i # c.id, NoCopy(shown, i) PROVE NoCopy(shown', i)
      BY <2>4, <2>5, <3>2 DEF NoCopy
    <3> QED BY <3>1, <3>2
  <2>8. /\ OneLoad' /\ FirstLoad' /\ RolesApart' /\ ChangesStay' /\ (Loading => Loading')
        /\ \A f \in calls' : Untouched(f) => Untouched(f)'
        /\ \A op, i : Pending(op, i) /\ ~(c.op = op /\ c.id = i /\ c.at = "ok") => Pending(op, i)'
    BY <1>3, <2>1, <2>6, CallsLeft
  <2>9. c.id \in DOMAIN rows /\ list \in {"team", "clients"}
    BY <1>4, <2>1 DEF CallKnown, Inserting, OpsOf
  <2>10. InvitesAreFresh'
    <3> SUFFICES ASSUME NEW f \in calls', f.op = "invite", f.at = "ok"
                 PROVE  /\ ~loaded \/ NoCopy(shown', f.id) => Untouched(f)'
                        /\ list = "clients" => NoCopy(shown', f.id)
      BY <1>3, <2>1 DEF InvitesAreFresh, NoCopy
    <3>1. f \in calls /\ f # c
      BY <2>1
    <3>2. /\ ~loaded \/ NoCopy(shown, f.id) => Untouched(f)
          /\ list = "clients" => NoCopy(shown, f.id)
      BY <1>0, <3>1 DEF InvitesAreFresh
    <3>3. list = "clients" => f.id # c.id
      <4> SUFFICES ASSUME list = "clients", f.id = c.id PROVE FALSE
        OBVIOUS
      <4>1. Untouched(c)
        BY <1>0, <2>1, <3>2 DEF InvitesAreFresh
      <4> QED BY <3>1, <4>1 DEF Untouched
    <3> QED BY <2>7, <2>8, <3>2, <3>3
  <2>11. DialogShown'
    <3>1. dialog'.open = "deactivate" => ~NoCopy(shown', dialog'.id)
      BY <1>0, <2>1, <2>7 DEF DialogShown, NoDialog
    <3> QED BY <3>1 DEF DialogShown, NoCopy
  <2>12. RowsAreTold'
    <3> SUFFICES ASSUME viewer = "admin", loaded, ~Loading', NEW i \in DOMAIN rows \ astray'
                 PROVE  Told(i)'
      BY <1>3, <2>1 DEF RowsAreTold
    <3>1. CASE i = c.id
      <4>1. NoCopy(shown, i) /\ Untouched(c)
        BY <1>0, <2>1, <2>6, <3>1 DEF InvitesAreFresh
      <4>2. rows'[i] = [who |-> c.who, role |-> c.role, status |-> "invited"]
        BY <1>3, <3>1, <4>1 DEF Untouched
      <4>3. Entry(i)' = e
        BY <2>2, <3>1, <4>2 DEF Entry
      <4>4. \A m \in DOMAIN shown' : shown'[m].id = i => m = 1
        BY <2>5, <4>1 DEF NoCopy
      <4>5. OneCopy(shown, i)'
        BY <2>5, <4>3, <4>4 DEF OneCopy
      <4>6. StillListed(i)'
        BY <4>2 DEF StillListed
      <4> QED BY <4>5, <4>6, TruthTold
    <3>2. CASE i # c.id
      <4>1. Told(i)
        BY <1>0, <2>6, <2>8 DEF RowsAreTold
      <4>2. \A op : op # "load" /\ Pending(op, i) => Pending(op, i)'
        BY <2>8, <3>2
      <4>3. ASSUME NEW n \in DOMAIN shown, shown[n].id = i, \A m \in DOMAIN shown : shown[m].id = i => m = n
            PROVE  \E k \in DOMAIN shown' : shown'[k] = shown[n] /\ \A m \in DOMAIN shown' : shown'[m].id = i => m = k
        <5>1. n \in Nat /\ n + 1 \in DOMAIN shown' /\ shown'[n + 1] = shown[n]
          BY <2>5
        <5>2. ASSUME NEW m \in DOMAIN shown', shown'[m].id = i PROVE m = n + 1
          <6>1. m # 1
            BY <2>4, <2>5, <3>2, <5>2
          <6>2. m \in Nat /\ m - 1 \in DOMAIN shown /\ shown'[m] = shown[m - 1]
            BY <2>5, <6>1
          <6>3. m - 1 = n
            BY <4>3, <5>2, <6>2
          <6> QED BY <5>1, <6>2, <6>3
        <5> QED BY <5>1, <5>2
      <4> QED BY <1>3, <2>7, <3>2, <4>1, <4>2, <4>3, ToldStays
    <3> QED BY <3>1, <3>2
  <2> QED BY <1>1, <2>8, <2>10, <2>11, <2>12 DEF AccessInv
<1>11. CASE RoleAnswer(c) \/ DeactivateAnswer(c)
  <2>1. /\ c.op \in {"role", "deactivate"} /\ c.at = "ok" /\ calls' = calls \ {c} /\ loaded' = loaded
        /\ astray' = astray /\ (dialog' = dialog \/ dialog' = NoDialog)
    BY <1>11, Zenon DEF RoleAnswer, DeactivateAnswer
  <2>2. /\ DOMAIN shown' = DOMAIN shown
        /\ \A n \in DOMAIN shown : shown'[n].id = shown[n].id /\ shown'[n].who = shown[n].who
        /\ c.op = "role" => \A n \in DOMAIN shown : /\ shown'[n].status = shown[n].status
                                                    /\ shown[n].id = c.id => shown'[n].role = c.role
        /\ c.op = "deactivate" => \A n \in DOMAIN shown : /\ shown'[n].role = shown[n].role
                                                          /\ shown[n].id = c.id => shown'[n].status = "deactivated"
    <3>1. CASE RoleAnswer(c)
      <4>1. c.op = "role"
        BY <3>1 DEF RoleAnswer
      <4> QED BY <1>0, <3>1, <4>1, RoleAnswerIs
    <3>2. CASE DeactivateAnswer(c)
      <4>1. c.op = "deactivate"
        BY <3>2 DEF DeactivateAnswer
      <4> QED BY <1>0, <3>2, <4>1, DeactivateAnswerIs
    <3> QED BY <1>11, <3>1, <3>2
  <2>3. \A n \in DOMAIN shown : shown[n].id # c.id => shown'[n] = shown[n]
    BY <1>11 DEF RoleAnswer, DeactivateAnswer
  <2>4. \A i : NoCopy(shown', i) <=> NoCopy(shown, i)
    BY <2>2 DEF NoCopy
  <2>5. /\ OneLoad' /\ FirstLoad' /\ RolesApart' /\ ChangesStay' /\ (Loading => Loading')
        /\ \A f \in calls' : Untouched(f) => Untouched(f)'
        /\ \A op, i : Pending(op, i) /\ ~(c.op = op /\ c.id = i /\ c.at = "ok") => Pending(op, i)'
    BY <1>3, <2>1, CallsLeft
  <2>6. InvitesAreFresh'
    <3> SUFFICES ASSUME NEW f \in calls', f.op = "invite", f.at = "ok"
                 PROVE  /\ ~loaded \/ NoCopy(shown', f.id) => Untouched(f)'
                        /\ list = "clients" => NoCopy(shown', f.id)
      BY <1>3, <2>1 DEF InvitesAreFresh, NoCopy
    <3>1. /\ ~loaded \/ NoCopy(shown, f.id) => Untouched(f)
          /\ list = "clients" => NoCopy(shown, f.id)
      BY <1>0, <2>1 DEF InvitesAreFresh
    <3> QED BY <2>4, <2>5, <3>1
  <2>7. DialogShown'
    <3>1. dialog'.open = "deactivate" => ~NoCopy(shown', dialog'.id)
      BY <1>0, <2>1, <2>4 DEF DialogShown, NoDialog
    <3> QED BY <3>1 DEF DialogShown, NoCopy
  <2>8. RowsAreTold'
    <3> SUFFICES ASSUME viewer = "admin", loaded, ~Loading', NEW i \in DOMAIN rows \ astray
                 PROVE  Told(i)'
      BY <1>3, <2>1 DEF RowsAreTold
    <3>1. Told(i) /\ list = "team"
      BY <1>0, <1>4, <2>1, <2>5 DEF RowsAreTold, OpsOf
    <3>2. CASE i # c.id
      <4>1. \A op : op # "load" /\ Pending(op, i) => Pending(op, i)'
        BY <2>5, <3>2
      <4>2. \A n \in DOMAIN shown : shown[n].id = i /\ (\A m \in DOMAIN shown : shown[m].id = i => m = n) =>
               \E k \in DOMAIN shown' : shown'[k] = shown[n] /\ \A m \in DOMAIN shown' : shown'[m].id = i => m = k
        BY <2>2, <2>3, <3>2
      <4> QED BY <1>3, <2>4, <3>1, <4>1, <4>2, ToldStays
    <3>3. CASE i = c.id
      <4>1. Pending("invite", i) => Pending("invite", i)'
        BY <2>1, <2>5
      <4>2. ASSUME TeamTold(i) PROVE TeamTold(i)'
        <5>1. PICK n \in DOMAIN shown :
                 /\ shown[n].id = i /\ \A m \in DOMAIN shown : shown[m].id = i => m = n
                 /\ shown[n].who = rows[i].who
                 /\ shown[n].role = rows[i].role \/ Pending("role", i)
                 /\ shown[n].status = rows[i].status \/ Pending("deactivate", i)
          BY <4>2, Zenon DEF TeamTold
        <5>2. /\ shown'[n].role = rows'[i].role \/ Pending("role", i)'
              /\ shown'[n].status = rows'[i].status \/ Pending("deactivate", i)'
          <6>1. CASE c.op = "role"
            <7>1. shown'[n].role = rows[i].role
              BY <1>0, <2>1, <2>2, <3>3, <5>1, <6>1 DEF ChangesStay
            <7>2. Pending("deactivate", i) => Pending("deactivate", i)'
              BY <2>5, <6>1
            <7> QED BY <1>3, <2>2, <5>1, <6>1, <7>1, <7>2
          <6>2. CASE c.op = "deactivate"
            <7>1. shown'[n].status = rows[i].status
              BY <1>0, <2>1, <2>2, <3>3, <5>1, <6>2 DEF ChangesStay
            <7>2. Pending("role", i) => Pending("role", i)'
              BY <2>5, <6>2
            <7> QED BY <1>3, <2>2, <5>1, <6>2, <7>1, <7>2
          <6> QED BY <2>1, <6>1, <6>2
        <5>3. n \in DOMAIN shown' /\ shown'[n].id = i /\ shown'[n].who = rows'[i].who
              /\ \A m \in DOMAIN shown' : shown'[m].id = i => m = n
          BY <1>3, <2>2, <5>1
        <5> QED BY <5>2, <5>3 DEF TeamTold
      <4> QED BY <1>3, <3>1, <4>1, <4>2 DEF Told
    <3> QED BY <3>2, <3>3
  <2> QED BY <1>1, <2>5, <2>6, <2>7, <2>8 DEF AccessInv
<1>12. CASE RevokeAnswer(c)
  <2>1. /\ c.op = "revokeGrant" /\ c.at = "ok" /\ calls' = calls \ {c} /\ loaded' = loaded
        /\ astray' = astray /\ dialog' = dialog
    BY <1>12, Zenon DEF RevokeAnswer
  <2>2. /\ \A n \in DOMAIN shown' : shown'[n].id # c.id /\ \E m \in DOMAIN shown : shown'[n] = shown[m]
        /\ \A k \in DOMAIN shown : shown[k].id # c.id => \E n \in DOMAIN shown' : shown'[n] = shown[k]
        /\ \A id : (\A m, n \in DOMAIN shown : shown[m].id = id /\ shown[n].id = id => m = n) =>
                   \A m, n \in DOMAIN shown' : shown'[m].id = id /\ shown'[n].id = id => m = n
    BY <1>0, <1>12, RevokeAnswerIs
  <2>3. list = "clients"
    BY <1>4, <2>1 DEF OpsOf
  <2>4. \A i : NoCopy(shown, i) => NoCopy(shown', i)
    BY <2>2 DEF NoCopy
  <2>5. /\ OneLoad' /\ FirstLoad' /\ RolesApart' /\ ChangesStay' /\ (Loading => Loading')
        /\ \A f \in calls' : Untouched(f) => Untouched(f)'
        /\ \A op, i : Pending(op, i) /\ ~(c.op = op /\ c.id = i /\ c.at = "ok") => Pending(op, i)'
    BY <1>3, <2>1, CallsLeft
  <2>6. InvitesAreFresh'
    <3> SUFFICES ASSUME NEW f \in calls', f.op = "invite", f.at = "ok"
                 PROVE  Untouched(f)' /\ NoCopy(shown', f.id)
      BY <1>3, <2>1 DEF InvitesAreFresh, NoCopy
    <3>1. NoCopy(shown, f.id) /\ Untouched(f)
      BY <1>0, <2>1, <2>3 DEF InvitesAreFresh
    <3> QED BY <2>4, <2>5, <3>1
  <2>7. DialogShown'
    <3>1. dialog'.open # "deactivate"
      BY <1>0, <2>1, <2>3 DEF DialogKnown
    <3> QED BY <3>1 DEF DialogShown
  <2>8. RowsAreTold'
    <3> SUFFICES ASSUME viewer = "admin", loaded, ~Loading', NEW i \in DOMAIN rows \ astray
                 PROVE  Told(i)'
      BY <1>3, <2>1 DEF RowsAreTold
    <3>1. CASE i # c.id
      <4>1. Told(i)
        BY <1>0, <2>1, <2>5 DEF RowsAreTold
      <4>2. \A op : op # "load" /\ Pending(op, i) => Pending(op, i)'
        BY <2>5, <3>1
      <4>3. ASSUME NEW n \in DOMAIN shown, shown[n].id = i, \A m \in DOMAIN shown : shown[m].id = i => m = n
            PROVE  \E k \in DOMAIN shown' : shown'[k] = shown[n] /\ \A m \in DOMAIN shown' : shown'[m].id = i => m = k
        <5>1. PICK k \in DOMAIN shown' : shown'[k] = shown[n]
          BY <2>2, <3>1, <4>3
        <5>2. \A a, b \in DOMAIN shown : shown[a].id = i /\ shown[b].id = i => a = b
          BY <4>3
        <5>3. \A m \in DOMAIN shown' : shown'[m].id = i => m = k
          BY <2>2, <4>3, <5>1, <5>2
        <5> QED BY <5>1, <5>3
      <4> QED BY <1>3, <2>4, <4>1, <4>2, <4>3, ToldStays
    <3>2. CASE i = c.id
      <4>1. rows'[i].status = "revoked"
        BY <1>0, <1>3, <2>1, <3>2 DEF ChangesStay
      <4>2. NoCopy(shown, i)' /\ ~StillListed(i)'
        BY <1>3, <2>2, <2>3, <3>2, <4>1 DEF NoCopy, StillListed
      <4> QED BY <4>2, TruthTold
    <3> QED BY <3>1, <3>2
  <2> QED BY <1>1, <2>5, <2>6, <2>7, <2>8 DEF AccessInv
<1>13. CASE CreateAnswer(c)
  <2>1. /\ c.op = "create" /\ shown' = shown /\ loaded' = loaded /\ dialog' = dialog
        /\ calls' = (calls \ {c}) \union {[Call("load", 0) EXCEPT !.nr = c.nr]}
    BY <1>13, Zenon DEF CreateAnswer
  <2>2. list = "keys"
    BY <1>4, <2>1 DEF OpsOf
  <2>3. \A e \in calls' : e.op \in {"load", "create", "revokeKey"}
    BY <1>1, <1>3, <2>2 DEF AccessKnown, CallsKnown, CallKnown, OpsOf
  <2>4. Loading'
    <3>1. PICK d : d = [Call("load", 0) EXCEPT !.nr = c.nr] /\ d \in calls'
      BY <2>1, Zenon
    <3>2. c.nr \in Nat
      BY <1>0, CallFields
    <3>3. d.op = "load"
      BY <3>1, <3>2, CallReloads
    <3> QED BY <3>1, <3>3 DEF Loading
  <2>5. OneLoad' /\ FirstLoad' /\ RowsAreTold'
    BY <1>3, <2>2, <2>4 DEF OneLoad, FirstLoad, RowsAreTold
  <2>6. InvitesAreFresh' /\ RolesApart' /\ ChangesStay'
    BY <2>3 DEF InvitesAreFresh, RolesApart, ChangesStay
  <2>7. DialogShown'
    BY <1>0, <2>1 DEF DialogShown, NoCopy
  <2> QED BY <1>1, <2>5, <2>6, <2>7 DEF AccessInv
<1> QED BY <1>2, <1>6, <1>8, <1>9, <1>10, <1>11, <1>12, <1>13

LEMMA AccessStep == AccessInv /\ [AccessNext]_accessVars => AccessInv'
<1> SUFFICES ASSUME AccessInv, [AccessNext]_accessVars PROVE AccessInv'
  OBVIOUS
<1>1. CASE AccessNext
  BY <1>1, AccessClicks, AccessServers, AccessAnswers DEF AccessNext
<1>2. CASE UNCHANGED accessVars
  <2>0. UNCHANGED <<list, viewer, rows, shown, loaded, calls, dialog, busy, fresh, astray, made>>
    BY <1>2 DEF accessVars
  <2>1. AccessKnown'
    BY <2>0 DEF AccessInv, AccessKnown, AccessTyped, ShownKnown, CallsKnown, CallKnown, DialogKnown
  <2>2. OneLoad' /\ DialogShown'
    BY <2>0 DEF AccessInv, OneLoad, DialogShown, NoCopy
  <2>3. Loading => Loading'
    BY <2>0 DEF Loading
  <2>4. FirstLoad' /\ InvitesAreFresh' /\ RolesApart' /\ ChangesStay' /\ RowsAreTold'
    BY <2>0, <2>3, QuietSteps
  <2> QED BY <2>1, <2>2, <2>4 DEF AccessInv
<1> QED BY <1>1, <1>2

(* An admin's list of those who may get in tells the truth about every row  *)
(* that no request is under way for, in whatever order requests are handled *)
(* and answered, for any number of rows, requests and people                *)
(* (settings/page.tsx, client-access-card.tsx).                            *)
THEOREM ListsAreTrue == AccessSpec => []ListIsTrue
<1>1. AccessSpec => []AccessInv
  BY AccessInitially, AccessStep, PTL DEF AccessSpec
<1>2. AccessInv => ListIsTrue
  <2> SUFFICES ASSUME AccessInv, viewer = "admin", loaded, \A c \in calls : c.op # "load",
                      NEW i \in DOMAIN rows \ astray, \A c \in calls : c.id # i
               PROVE  TrueOf(shown, i)
    BY DEF ListIsTrue
  <2>1. Told(i) /\ AccessTyped
    BY DEF AccessInv, AccessKnown, RowsAreTold, Loading
  <2>2. \A op : ~Pending(op, i)
    BY DEF Pending
  <2>3. IF StillListed(i) THEN OneCopy(shown, i) ELSE NoCopy(shown, i)
    <3>1. CASE list = "team"
      <4>1. PICK n \in DOMAIN shown :
               /\ shown[n].id = i /\ \A m \in DOMAIN shown : shown[m].id = i => m = n
               /\ shown[n].who = rows[i].who
               /\ shown[n].role = rows[i].role
               /\ shown[n].status = rows[i].status
        BY <2>1, <2>2, <3>1 DEF Told, TeamTold
      <4>2. shown[n] = Entry(i)
        <5>1. shown[n] \in EntryRecs
          BY <2>1 DEF AccessTyped
        <5> QED BY <4>1, <5>1 DEF EntryRecs, Entry
      <4> QED BY <3>1, <4>1, <4>2 DEF StillListed, OneCopy
    <3>2. CASE list = "clients"
      BY <2>1, <2>2, <3>2 DEF Told, ClientTold, StillListed
    <3>3. CASE list = "keys"
      BY <2>1, <2>2, <3>3 DEF Told, KeyTold, StillListed
    <3> QED BY <2>1, <3>1, <3>2, <3>3 DEF AccessTyped
  <2>4. shown \in Seq(EntryRecs)
    BY <2>1 DEF AccessTyped
  <2> QED BY <2>1, <2>3, <2>4, TruthIsPlain
<1> QED BY <1>1, <1>2, PTL
=============================================================================
