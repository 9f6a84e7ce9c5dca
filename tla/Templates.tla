------------------------------ MODULE Templates -----------------------------
(***************************************************************************)
(* The interview templates of an organisation, and the page that lists,    *)
(* creates, clones, edits and deletes them.  Its requests exclude one      *)
(* another, but a dialog may be dismissed while one is under way, and      *)
(* another be opened.  Templates change elsewhere, too: the edit form of a *)
(* job writes the job's template.                                          *)
(*                                                                         *)
(* A form keeps the values it was first shown with: an edit dialog that is *)
(* given another template while it is open still has the first one's.      *)
(*                                                                         *)
(* Abstracted: a template's values are a number, new for every write.      *)
(***************************************************************************)
EXTENDS Naturals

CONSTANTS
    MaxTemplates,  \* bound: templates ever created
    MaxErrands     \* bound: requests of the page and changes made elsewhere

ASSUME TemplatesAssumption == MaxTemplates \in Nat \ {0} /\ MaxErrands \in Nat

TemplateIds == 1 .. MaxTemplates

VARIABLES
    stored,     \* values of each template in the database, 0: not there
    inUse,      \* templates that a job is linked to
    listed,     \* values of each template in the list, 0: not listed
    dialogs,    \* the open dialogs, and the template whose values the edit form has
    errand,     \* the request under way
    counts,     \* ids and values given out so far, and writes
    elsewhere   \* history: templates the page was not told of

templatesVars == <<stored, inUse, listed, dialogs, errand, counts, elsewhere>>

NoErrand == [kind |-> "none", id |-> 0, from |-> 0]
NoDialogs == [create |-> FALSE, edit |-> 0, from |-> 0, delete |-> 0]

-----------------------------------------------------------------------------
(* Dialogs.  They are modal; that of a clone opens above another.           *)

SetDialogs(d) ==
    /\ dialogs' = d
    /\ UNCHANGED <<stored, inUse, listed, errand, counts, elsewhere>>

setTemplateCreateOpen == dialogs = NoDialogs /\ SetDialogs([NoDialogs EXCEPT !.create = TRUE])
setEditTemplate(t) == dialogs = NoDialogs /\ listed[t] # 0 /\ SetDialogs([NoDialogs EXCEPT !.edit = t, !.from = t])
setDeleteTemplate(t) == dialogs = NoDialogs /\ listed[t] # 0 /\ SetDialogs([NoDialogs EXCEPT !.delete = t])

Dismiss ==
    /\ dialogs # NoDialogs
    /\ SetDialogs(IF dialogs.edit = 0 THEN NoDialogs ELSE [dialogs EXCEPT !.edit = 0, !.from = 0])

-----------------------------------------------------------------------------
(* Requests.                                                                *)

Asks(e) ==
    /\ errand = NoErrand
    /\ counts.writes < MaxErrands /\ counts' = [counts EXCEPT !.writes = @ + 1]
    /\ errand' = e
    /\ UNCHANGED <<stored, inUse, listed, dialogs, elsewhere>>

CreateTemplate == dialogs.create /\ dialogs.edit = 0 /\ Asks([NoErrand EXCEPT !.kind = "create"])
EditTemplate == dialogs.edit # 0 /\ Asks([kind |-> "edit", id |-> dialogs.edit, from |-> dialogs.from])
CloneTemplate(t) == dialogs = NoDialogs /\ listed[t] # 0 /\ Asks([NoErrand EXCEPT !.kind = "clone", !.id = t])
DeleteTemplate ==
    /\ dialogs.delete # 0 /\ dialogs.edit = 0
    /\ Asks([NoErrand EXCEPT !.kind = "delete", !.id = dialogs.delete])

\* The values v of template t are in the database; the page is told, and
\* shows the dialogs d, or it is not, and shows an error at most.
Done(t, v, d) ==
    /\ stored' = [stored EXCEPT ![t] = v]
    /\ errand' = NoErrand
    /\ counts' = [counts EXCEPT !.ids = IF t > @ THEN t ELSE @, !.values = @ + 1]
    /\ \/ /\ listed' = [listed EXCEPT ![t] = v]
          /\ dialogs' = d
          /\ UNCHANGED elsewhere
       \/ /\ elsewhere' = elsewhere \union {t}
          /\ UNCHANGED <<listed, dialogs>>
    /\ UNCHANGED inUse

NewValues == counts.values + 1
NewId == counts.ids + 1

TemplateCreated ==
    /\ errand.kind = "create" /\ NewId \in TemplateIds
    /\ Done(NewId, NewValues, [dialogs EXCEPT !.create = FALSE])

\* Whichever template is being edited by now: its dialog is closed.
TemplateEdited ==
    /\ errand.kind = "edit" /\ stored[errand.id] # 0
    /\ Done(errand.id, NewValues, [dialogs EXCEPT !.edit = 0, !.from = 0])

\* A clone has the values that the list has of the other.  Its edit dialog is
\* opened; an edit form that is on the screen stays as it is.
EditsClone(t) == [dialogs EXCEPT !.edit = t, !.from = IF dialogs.edit = 0 THEN t ELSE @]

TemplateCloned ==
    /\ errand.kind = "clone" /\ NewId \in TemplateIds
    /\ Done(NewId, listed[errand.id], EditsClone(NewId))

(* Mutant: the template in the dialog leaves the list, not the one deleted.  *)
TemplateDeletedMutant ==
    /\ errand.kind = "delete" /\ errand.id \notin inUse
    /\ stored' = [stored EXCEPT ![errand.id] = 0]
    /\ listed' = [t \in TemplateIds |-> IF t = dialogs.delete THEN 0 ELSE listed[t]]
    /\ errand' = NoErrand
    /\ dialogs' = [dialogs EXCEPT !.delete = 0]
    /\ UNCHANGED <<inUse, counts, elsewhere>>

\* The foreign key of the jobs refuses it for a template in use.
TemplateDeleted ==
    /\ errand.kind = "delete" /\ errand.id \notin inUse
    /\ Done(errand.id, 0, [dialogs EXCEPT !.delete = 0])

ErrandFails ==
    /\ errand # NoErrand
    /\ errand' = NoErrand
    /\ UNCHANGED <<stored, inUse, listed, dialogs, counts, elsewhere>>

-----------------------------------------------------------------------------
(* The job's edit form, another member, another tab.                        *)

ChangedElsewhere(t) ==
    /\ stored[t] # 0
    /\ counts.writes < MaxErrands
    /\ counts' = [counts EXCEPT !.writes = @ + 1, !.values = @ + 1]
    /\ \E v \in {NewValues} \union (IF t \in inUse THEN {} ELSE {0}) : stored' = [stored EXCEPT ![t] = v]
    /\ elsewhere' = elsewhere \union {t}
    /\ UNCHANGED <<inUse, listed, dialogs, errand>>

-----------------------------------------------------------------------------
TemplatesInit ==
    /\ stored = [t \in TemplateIds |-> IF t <= 2 THEN t ELSE 0]
    /\ inUse \in SUBSET {1}
    /\ listed = stored
    /\ dialogs = NoDialogs
    /\ errand = NoErrand
    /\ counts = [ids |-> 2, values |-> 2, writes |-> 0]
    /\ elsewhere = {}

TemplatesNext ==
    \/ setTemplateCreateOpen \/ Dismiss
    \/ \E t \in TemplateIds : setEditTemplate(t) \/ setDeleteTemplate(t) \/ CloneTemplate(t) \/ ChangedElsewhere(t)
    \/ CreateTemplate \/ EditTemplate \/ DeleteTemplate
    \/ TemplateCreated \/ TemplateEdited \/ TemplateCloned \/ TemplateDeleted \/ ErrandFails

TemplatesSpec == TemplatesInit /\ [][TemplatesNext]_templatesVars

-----------------------------------------------------------------------------
(* Properties.                                                              *)

TemplatesTypeOK ==
    /\ stored \in [TemplateIds -> Nat] /\ listed \in [TemplateIds -> Nat]
    /\ inUse \subseteq TemplateIds /\ elsewhere \subseteq TemplateIds
    /\ dialogs \in [create : BOOLEAN, edit : TemplateIds \union {0}, from : TemplateIds \union {0},
                    delete : TemplateIds \union {0}]
    /\ errand \in [kind : {"none", "create", "edit", "clone", "delete"}, id : TemplateIds \union {0},
                   from : TemplateIds \union {0}]
    /\ counts \in [ids : Nat, values : Nat, writes : Nat]

\* The list has what the database has, whichever dialog is open by the time
\* an answer comes, but for what the page was not told; and no job loses its
\* template.
TemplatesAreListed ==
    /\ \A t \in TemplateIds \ elsewhere : listed[t] = stored[t]
    /\ \A t \in inUse : stored[t] # 0

=============================================================================
