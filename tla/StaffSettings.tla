---------------------------- MODULE StaffSettings ---------------------------
(***************************************************************************)
(* The settings page's forms - the defaults for new jobs, the retention    *)
(* period - and its usage figures.                                         *)
(*                                                                         *)
(* The defaults are one JSON value that a save replaces as a whole; the    *)
(* form may be edited, and saved, before its values have arrived, and      *)
(* edited while it is being saved.  The retention form looks its           *)
(* organisation up in a table that the schema does not have.               *)
(***************************************************************************)
EXTENDS Naturals

CONSTANTS
    Thresholds,  \* screening thresholds that are tried, 70 among them
    Templates,   \* template ids
    Periods,     \* choices of the usage figures
    MaxSaves,    \* bound: saves
    MaxPeriods,  \* bound: periods chosen
    Unset        \* a setting the organisation does not have

ASSUME SettingsAssumption == 70 \in Thresholds /\ Thresholds \subseteq Nat
ASSUME UnsetAssumption == Unset \notin Thresholds /\ Unset \notin Templates
ASSUME UsageAssumption == "30" \in Periods /\ MaxSaves \in Nat /\ MaxPeriods \in Nat

VARIABLES
    form,     \* the form of the behaviour: "defaults", "retention" or "usage"
    isAdmin,  \* may its user write the organisation's row?
    org,      \* the organisation's settings and data_retention_days
    load,     \* the load: is it asked, read or done, and what was read
    values,   \* what the form shows
    saving,   \* the settings under way to the database
    saved,    \* "saved successfully" is shown
    overtaken,\* history: does what the page shows saved, or is saving, no longer stand?
    saves,    \* counter for the bound
    usage     \* the usage figures

settingsVars == <<form, isAdmin, org, load, values, saving, saved, overtaken, saves, usage>>
formState == <<values, saving, saved>>

NotSaving == [at |-> "idle", threshold |-> Unset, template |-> Unset]

-----------------------------------------------------------------------------
(* The defaults form.                                                       *)

\* load(): the organisation's settings.
SettingsRead ==
    /\ form = "defaults" /\ load.at = "asked"
    /\ load' = [at |-> "read", threshold |-> org.threshold, template |-> org.template]
    /\ UNCHANGED <<form, isAdmin, org, formState, overtaken, saves, usage>>

(* Mutant: a setting that is not there empties its field.                    *)
SettingsLoadedMutant ==
    /\ form = "defaults" /\ load.at = "read"
    /\ load' = [load EXCEPT !.at = "done"]
    /\ values' = [values EXCEPT !.threshold = load.threshold, !.template = load.template]
    /\ overtaken' = (overtaken \/ (values' # values /\ (saved \/ saving.at # "idle")))
    /\ UNCHANGED <<form, isAdmin, org, saving, saved, saves, usage>>

\* A setting that is not there, and a load that fails, leave the form as it is.
SettingsLoaded ==
    /\ form = "defaults" /\ load.at = "read"
    /\ load' = [load EXCEPT !.at = "done"]
    /\ values' = [values EXCEPT !.threshold = IF load.threshold = Unset THEN @ ELSE load.threshold,
                                !.template = IF load.template = Unset THEN @ ELSE load.template]
    /\ overtaken' = (overtaken \/ (values' # values /\ (saved \/ saving.at # "idle")))
    /\ UNCHANGED <<form, isAdmin, org, saving, saved, saves, usage>>

SettingsNotLoaded ==
    /\ form = "defaults" /\ load.at # "done"
    /\ load' = [load EXCEPT !.at = "done"]
    /\ UNCHANGED <<form, isAdmin, org, formState, overtaken, saves, usage>>

Edit(f, v) ==
    /\ v # values[f]
    /\ values' = [values EXCEPT ![f] = v]
    /\ saved' = FALSE
    /\ overtaken' = (saving.at # "idle")
    /\ UNCHANGED <<form, isAdmin, org, load, saving, saves, usage>>

setThreshold(v) == form = "defaults" /\ Edit("threshold", v)
(* Mutant: another template leaves "saved successfully" on the screen.       *)
setTemplateIdMutant(v) ==
    /\ form = "defaults" /\ v # values.template
    /\ values' = [values EXCEPT !.template = v]
    /\ overtaken' = (saving.at # "idle")
    /\ UNCHANGED <<form, isAdmin, org, load, saving, saved, saves, usage>>

setTemplateId(v) == form = "defaults" /\ Edit("template", v)

\* The whole of the settings is sent, edited or not.
handleSaveDefaults ==
    /\ form = "defaults" /\ saving.at = "idle" /\ saves < MaxSaves
    /\ saving' = [at |-> "sent", threshold |-> values.threshold, template |-> values.template]
    /\ saves' = saves + 1
    /\ overtaken' = (overtaken /\ saved)
    /\ UNCHANGED <<form, isAdmin, org, load, values, saved, usage>>

\* The row policy ignores an update by anyone but an admin, without an error.
SettingsUpdated ==
    /\ form = "defaults" /\ saving.at = "sent"
    /\ saving' = [saving EXCEPT !.at = "written"]
    /\ org' = IF isAdmin THEN [org EXCEPT !.threshold = saving.threshold, !.template = saving.template] ELSE org
    /\ UNCHANGED <<form, isAdmin, load, values, saved, overtaken, saves, usage>>

SettingsSaved ==
    /\ form = "defaults" /\ saving.at = "written"
    /\ saving' = NotSaving
    /\ saved' = TRUE
    /\ UNCHANGED <<form, isAdmin, org, load, values, overtaken, saves, usage>>

\* An error goes to the console; the save may have been made all the same.
SettingsNotSaved ==
    /\ form = "defaults" /\ saving.at # "idle"
    /\ saving' = NotSaving
    /\ UNCHANGED <<form, isAdmin, org, load, values, saved, overtaken, saves, usage>>

SavedElsewhere(v, t) ==
    /\ form = "defaults" /\ saves < MaxSaves
    /\ org' = [org EXCEPT !.threshold = v, !.template = t]
    /\ saves' = saves + 1
    /\ overtaken' = (overtaken \/ saved \/ saving.at = "written")
    /\ UNCHANGED <<form, isAdmin, load, formState, usage>>

-----------------------------------------------------------------------------
(* The retention form: no user_profiles row is ever found, so it neither    *)
(* loads nor saves, and says nothing.                                       *)

RetentionNotLoaded ==
    /\ form = "retention" /\ load.at = "asked"
    /\ load' = [load EXCEPT !.at = "done"]
    /\ UNCHANGED <<form, isAdmin, org, formState, overtaken, saves, usage>>

setRetentionDays(v) == form = "retention" /\ Edit("days", v)

handleSaveRetention ==
    /\ form = "retention" /\ saving.at = "idle" /\ saves < MaxSaves
    /\ saving' = [NotSaving EXCEPT !.at = "sent"]
    /\ saves' = saves + 1
    /\ UNCHANGED <<form, isAdmin, org, load, values, saved, overtaken, usage>>

RetentionNotSaved ==
    /\ form = "retention" /\ saving.at # "idle"
    /\ saving' = NotSaving
    /\ UNCHANGED <<form, isAdmin, org, load, values, saved, overtaken, saves, usage>>

-----------------------------------------------------------------------------
(* Usage: figures are asked for anew for each period chosen; the answer to  *)
(* an earlier request is thrown away.                                       *)

Figures == usage.summary # "none"

setDays(p) ==
    /\ form = "usage" /\ p # usage.days /\ usage.asked < MaxPeriods
    /\ usage' = [usage EXCEPT !.days = p, !.loading = TRUE, !.asked = @ + 1,
                              !.requests = @ \union {[nr |-> usage.asked + 1, days |-> p]}]
    /\ UNCHANGED <<form, isAdmin, org, load, formState, overtaken, saves>>

cancelled(r) == r.nr # usage.asked

UsageAnswer(r) ==
    /\ r \in usage.requests
    /\ usage' = IF cancelled(r) THEN [usage EXCEPT !.requests = @ \ {r}]
                ELSE [usage EXCEPT !.requests = @ \ {r}, !.summary = r.days, !.error = FALSE, !.loading = FALSE]
    /\ UNCHANGED <<form, isAdmin, org, load, formState, overtaken, saves>>

\* An error takes the figures of the period before from the page.
UsageError(r) ==
    /\ r \in usage.requests
    /\ usage' = IF cancelled(r) THEN [usage EXCEPT !.requests = @ \ {r}]
                ELSE [usage EXCEPT !.requests = @ \ {r}, !.summary = "none", !.error = TRUE, !.loading = FALSE]
    /\ UNCHANGED <<form, isAdmin, org, load, formState, overtaken, saves>>

-----------------------------------------------------------------------------
SettingsInit ==
    /\ form \in {"defaults", "retention", "usage"}
    /\ isAdmin \in BOOLEAN
    /\ org \in [threshold : Thresholds \union {Unset}, template : Templates \union {Unset}, days : {365}]
    /\ load = [at |-> "asked", threshold |-> Unset, template |-> Unset]
    /\ values = [threshold |-> 70, template |-> Unset, days |-> 90]
    /\ saving = NotSaving
    /\ saved = FALSE
    /\ overtaken = FALSE
    /\ saves = 0
    /\ usage = [days |-> "30", summary |-> "none", loading |-> TRUE, error |-> FALSE, asked |-> 0,
                requests |-> {[nr |-> 0, days |-> "30"]}]

SettingsNext ==
    \/ SettingsRead \/ SettingsLoaded \/ SettingsNotLoaded
    \/ \E v \in Thresholds : setThreshold(v)
    \/ \E t \in Templates : setTemplateId(t)
    \/ handleSaveDefaults \/ SettingsUpdated \/ SettingsSaved \/ SettingsNotSaved
    \/ \E v \in Thresholds, t \in Templates : SavedElsewhere(v, t)
    \/ RetentionNotLoaded \/ handleSaveRetention \/ RetentionNotSaved
    \/ \E v \in {30, 90} : setRetentionDays(v)
    \/ \E p \in Periods : setDays(p)
    \/ \E r \in usage.requests : UsageAnswer(r) \/ UsageError(r)

SettingsSpec == SettingsInit /\ [][SettingsNext]_settingsVars

-----------------------------------------------------------------------------
(* Properties.                                                              *)

SettingsTypeOK ==
    /\ form \in {"defaults", "retention", "usage"} /\ isAdmin \in BOOLEAN
    /\ org \in [threshold : Thresholds \union {Unset}, template : Templates \union {Unset}, days : {365}]
    /\ values \in [threshold : Thresholds, template : Templates \union {Unset}, days : {30, 90}]
    /\ load.at \in {"asked", "read", "done"} /\ saving.at \in {"idle", "sent", "written"}
    /\ saved \in BOOLEAN /\ overtaken \in BOOLEAN /\ saves \in Nat

\* While the page says "saved successfully", an admin's organisation has what
\* the form shows: after a save before the load was answered, a load that
\* failed or changed nothing, saves that failed or whose answer was lost, and
\* retries.  `overtaken` leaves out just three crossings: an edit between the
\* save's click and its answer, a load that changes the form in that time or
\* under the notice, and a save of somebody else's after this page's write.
\* The retention form, whose saves reach no row, never says that it saved.
SavedIsStored ==
    saved /\ isAdmin /\ ~overtaken =>
        IF form = "defaults" THEN <<org.threshold, org.template>> = <<values.threshold, values.template>>
                             ELSE org.days = values.days

=============================================================================
