---------------------------- MODULE AccessLists ----------------------------
(***************************************************************************)
(* Who may get in: the team of an organisation, the clients of a job, and  *)
(* the API keys, each with the page that lists them and changes them.      *)
(*                                                                         *)
(* A request is handled by the backend (or by the database, for the two    *)
(* writes the browser makes itself) some time after it is sent, and its    *)
(* answer comes later still, or never.  A dialog may be dismissed with     *)
(* Escape while its request is under way.  The other administrator sends   *)
(* the same requests from elsewhere.                                       *)
(*                                                                         *)
(* Abstracted: mails (their failure is only a notice), names and dates.    *)
(***************************************************************************)
EXTENDS Lists, SequencesExt

CONSTANTS
    People,      \* email addresses
    MaxRows,     \* bound: rows of a table
    MaxCalls     \* bound: requests

ASSUME AccessAssumption == "none" \notin People /\ MaxRows \in Nat \ {0} /\ MaxCalls \in Nat

Roles == {"admin", "recruiter"}
Ids == 1 .. MaxRows

VARIABLES
    list,     \* the list looked at: "team", "clients" or "keys"
    viewer,   \* role of the member who looks at it
    rows,     \* the table: a sequence, the place of a row is its id
    shown,    \* the list as the page has it
    loaded,   \* has the first list arrived?
    calls,    \* requests under way, loads among them
    dialog,   \* the dialog on the screen, and the row it is about
    busy,     \* the buttons that wait: "invite", "create", "revoke"
    fresh,    \* createdKey: the key the create dialog shows (0: none)
    astray,   \* history: rows that the page was not told of, or too late
    made      \* number of requests, for the bound

accessVars == <<list, viewer, rows, shown, loaded, calls, dialog, busy, fresh, astray, made>>
table == <<list, viewer, rows>>

NoDialog == [open |-> "none", id |-> 0]
Call(op, id) == [nr |-> made + 1, op |-> op, id |-> id, who |-> "none", role |-> "recruiter", at |-> "sent", got |-> <<>>]

Numbered(t) == [i \in DOMAIN t |-> [id |-> i, who |-> t[i].who, role |-> t[i].role, status |-> t[i].status]]

\* What the list endpoints return: a client's revoked access is left out.
Listed(t) == IF list = "clients" THEN Filter(Numbered(t), {r \in ToSet(Numbered(t)) : r.status # "revoked"}) ELSE Numbered(t)

Copies(s, i) == Cardinality({n \in DOMAIN s : s[n].id = i})
IsShown(i) == loaded /\ Copies(shown, i) > 0
RowShown(i) == shown[CHOOSE n \in DOMAIN shown : shown[n].id = i]

\* Does the list s tell the truth about row i?
TrueOf(s, i) ==
    LET truth == Listed(rows) IN
    /\ Copies(s, i) = Copies(truth, i)
    /\ \A n \in DOMAIN s, m \in DOMAIN truth : s[n].id = i /\ truth[m].id = i => s[n] = truth[m]

Send(c) ==
    /\ made < MaxCalls
    /\ made' = made + 1
    /\ calls' = calls \union {c}

Handled(c, at) == calls' = (calls \ {c}) \union {[c EXCEPT !.at = at]}

-----------------------------------------------------------------------------
(* Loads.                                                                   *)

LoadRead(c) ==
    /\ c.op = "load" /\ c.at = "sent"
    /\ calls' = (calls \ {c}) \union {[c EXCEPT !.at = "ok", !.got = Listed(rows)]}
    /\ list = "clients" => viewer = "admin"
    /\ UNCHANGED <<table, shown, loaded, dialog, busy, fresh, astray, made>>

\* The answer replaces the whole list.
LoadAnswer(c) ==
    /\ c.op = "load" /\ c.at = "ok"
    /\ calls' = calls \ {c}
    /\ shown' = c.got
    /\ loaded' = TRUE
    /\ busy' = busy \ {"create"}
    /\ astray' = {i \in DOMAIN rows : ~TrueOf(c.got, i) /\ \A d \in calls : d.op = "invite" => d.id # i}
    /\ UNCHANGED <<table, dialog, fresh, made>>

\* An error: a notice above the list; the clients' card stays hidden.
LoadError(c) ==
    /\ c.op = "load"
    /\ calls' = calls \ {c}
    /\ loaded' = (loaded \/ list # "clients")
    /\ busy' = busy \ {"create"}
    /\ astray' = astray \union {i \in DOMAIN rows : ~TrueOf(shown, i)}
    /\ UNCHANGED <<table, shown, dialog, fresh, made>>

-----------------------------------------------------------------------------
(* Dialogs.                                                                 *)

setInviteOpen ==
    /\ list = "team" /\ dialog = NoDialog
    /\ dialog' = [open |-> "invite", id |-> 0]
    /\ UNCHANGED <<table, shown, loaded, calls, busy, fresh, astray, made>>

\* A key whose answer came while the dialog was closed is shown now.
setCreateOpen ==
    /\ list = "keys" /\ dialog = NoDialog
    /\ dialog' = [open |-> "create", id |-> 0]
    /\ UNCHANGED <<table, shown, loaded, calls, busy, fresh, astray, made>>

setDeactivateTarget(i) ==
    /\ list = "team" /\ dialog = NoDialog
    /\ IsShown(i) /\ RowShown(i).status # "deactivated"
    /\ dialog' = [open |-> "deactivate", id |-> i]
    /\ UNCHANGED <<table, shown, loaded, calls, busy, fresh, astray, made>>

setRevokeTarget(i) ==
    /\ list = "keys" /\ dialog = NoDialog
    /\ IsShown(i) /\ RowShown(i).status # "revoked"
    /\ dialog' = [open |-> "revoke", id |-> i]
    /\ UNCHANGED <<table, shown, loaded, calls, busy, fresh, astray, made>>

\* Escape, Cancel or Done, whatever is under way; closeCreate drops the key.
closeDialog ==
    /\ dialog # NoDialog
    /\ dialog' = NoDialog
    /\ fresh' = IF dialog.open = "create" THEN 0 ELSE fresh
    /\ UNCHANGED <<table, shown, loaded, calls, busy, astray, made>>

-----------------------------------------------------------------------------
(* Invitations to the team and to a job.                                    *)

InviteMember(p) ==
    /\ list = "team" /\ dialog.open = "invite" /\ "invite" \notin busy
    /\ Send([Call("invite", 0) EXCEPT !.who = p])
    /\ busy' = busy \union {"invite"}
    /\ UNCHANGED <<table, shown, loaded, dialog, fresh, astray>>

\* The form is part of the card, which is there once the list is.
InviteClient(p) ==
    /\ list = "clients" /\ loaded /\ "invite" \notin busy
    /\ Send([Call("invite", 0) EXCEPT !.who = p])
    /\ busy' = busy \union {"invite"}
    /\ UNCHANGED <<table, shown, loaded, dialog, fresh, astray>>

InvitedElsewhere(p) ==
    /\ list \in {"team", "clients"}
    /\ Send([Call("elsewhere", 0) EXCEPT !.who = p])
    /\ UNCHANGED <<table, shown, loaded, dialog, busy, fresh, astray>>

\* The endpoint: admins only, and nobody who is listed already.
InviteChecked(c) ==
    /\ c.op \in {"invite", "elsewhere"} /\ c.at = "sent"
    /\ Handled(c, IF /\ viewer = "admin" \/ c.op = "elsewhere"
                     /\ \A i \in DOMAIN rows : rows[i].who = c.who => rows[i].status = "revoked"
                  THEN "checked" ELSE "refused")
    /\ UNCHANGED <<table, shown, loaded, dialog, busy, fresh, astray, made>>

\* The insert; job_client_access has a unique index, team_members has none.
HasActiveGrant(p) ==
    list = "clients" /\ \E i \in DOMAIN rows : rows[i].who = p /\ rows[i].status # "revoked"

InviteInserted(c) ==
    /\ c.op \in {"invite", "elsewhere"} /\ c.at = "checked"
    /\ IF HasActiveGrant(c.who)
         THEN Handled(c, "refused") /\ UNCHANGED <<rows, astray>>
         ELSE /\ Len(rows) < MaxRows
              /\ rows' = Append(rows, [who |-> c.who, role |-> c.role, status |-> "invited"])
              /\ calls' = (calls \ {c}) \union (IF c.op = "elsewhere" THEN {}
                                                ELSE {[c EXCEPT !.at = "ok", !.id = Len(rows) + 1]})
              /\ astray' = IF c.op = "elsewhere" THEN astray \union {Len(rows) + 1} ELSE astray
    /\ UNCHANGED <<list, viewer, shown, loaded, dialog, busy, fresh, made>>

\* The new row is put in front, wherever the list stands; the dialog closes.
InviteAnswer(c) ==
    /\ c.op = "invite" /\ c.at = "ok"
    /\ calls' = calls \ {c}
    /\ shown' = <<[id |-> c.id, who |-> c.who, role |-> c.role, status |-> "invited"]>> \o shown
    /\ astray' = IF Copies(shown, c.id) > 0 THEN astray \union {c.id} ELSE astray
    /\ busy' = busy \ {"invite"}
    /\ dialog' = IF dialog.open = "invite" THEN NoDialog ELSE dialog
    /\ UNCHANGED <<table, loaded, fresh, made>>

\* An error to the page, although the invitation may have been made.
InviteError(c) ==
    /\ c.op \in {"invite", "elsewhere"}
    /\ calls' = calls \ {c}
    /\ busy' = IF c.op = "invite" THEN busy \ {"invite"} ELSE busy
    /\ astray' = IF c.at = "ok" THEN astray \union {c.id} ELSE astray
    /\ UNCHANGED <<table, shown, loaded, dialog, fresh, made>>

-----------------------------------------------------------------------------
(* The team's two other changes: updates the browser sends itself.          *)

\* A second change of one member may overtake the first.
Overtakes(op, i) == {d.id : d \in {e \in calls : e.op = op /\ e.id = i}}

handleRoleChange(i, role) ==
    /\ list = "team" /\ dialog = NoDialog
    /\ IsShown(i) /\ RowShown(i).status # "deactivated"
    /\ role # RowShown(i).role
    /\ Send([Call("role", i) EXCEPT !.role = role, !.got = shown])
    /\ astray' = astray \union Overtakes("role", i)
    /\ UNCHANGED <<table, shown, loaded, dialog, busy, fresh>>

\* The button is not disabled while its request is under way.
handleDeactivate ==
    /\ list = "team" /\ dialog.open = "deactivate"
    /\ Send([Call("deactivate", dialog.id) EXCEPT !.got = shown])
    /\ UNCHANGED <<table, shown, loaded, dialog, busy, fresh, astray>>

\* The row policy lets admins update; for others no row matches, and there
\* is no error.
MemberUpdated(c) ==
    /\ c.op \in {"role", "deactivate"} /\ c.at = "sent"
    /\ Handled(c, "ok")
    /\ rows' = IF viewer # "admin" THEN rows
               ELSE IF c.op = "role" THEN [rows EXCEPT ![c.id].role = c.role]
               ELSE [rows EXCEPT ![c.id].status = "deactivated"]
    /\ UNCHANGED <<list, viewer, shown, loaded, dialog, busy, fresh, astray, made>>

(* Mutant: the answer is put into the list as it was when the menu was used. *)
RoleAnswerMutant(c) ==
    /\ c.op = "role" /\ c.at = "ok"
    /\ calls' = calls \ {c}
    /\ shown' = [n \in DOMAIN c.got |-> IF c.got[n].id = c.id THEN [c.got[n] EXCEPT !.role = c.role] ELSE c.got[n]]
    /\ UNCHANGED <<table, loaded, dialog, busy, fresh, astray, made>>

RoleAnswer(c) ==
    /\ c.op = "role" /\ c.at = "ok"
    /\ calls' = calls \ {c}
    /\ shown' = [n \in DOMAIN shown |-> IF shown[n].id = c.id THEN [shown[n] EXCEPT !.role = c.role] ELSE shown[n]]
    /\ UNCHANGED <<table, loaded, dialog, busy, fresh, astray, made>>

\* The dialog goes, also when it is about another member by now.
DeactivateAnswer(c) ==
    /\ c.op = "deactivate" /\ c.at = "ok"
    /\ calls' = calls \ {c}
    /\ shown' = [n \in DOMAIN shown |-> IF shown[n].id = c.id THEN [shown[n] EXCEPT !.status = "deactivated"]
                                        ELSE shown[n]]
    /\ dialog' = IF dialog.open = "deactivate" THEN NoDialog ELSE dialog
    /\ UNCHANGED <<table, loaded, busy, fresh, astray, made>>

\* A failed update is not mentioned.
UpdateError(c) ==
    /\ c.op \in {"role", "deactivate"}
    /\ calls' = calls \ {c}
    /\ astray' = IF c.at = "ok" THEN astray \union {c.id} ELSE astray
    /\ dialog' = IF c.op = "deactivate" /\ dialog.open = "deactivate" THEN NoDialog ELSE dialog
    /\ UNCHANGED <<table, shown, loaded, busy, fresh, made>>

-----------------------------------------------------------------------------
(* A client's access is revoked, after a question of the browser's own.     *)

RevokeClient(i) ==
    /\ list = "clients" /\ IsShown(i)
    /\ Send(Call("revokeGrant", i))
    /\ UNCHANGED <<table, shown, loaded, dialog, busy, fresh, astray>>

Revoked(c) ==
    /\ c.op \in {"revokeGrant", "revokeKey"} /\ c.at = "sent"
    /\ Handled(c, "ok")
    /\ rows' = [rows EXCEPT ![c.id].status = "revoked"]
    /\ UNCHANGED <<list, viewer, shown, loaded, dialog, busy, fresh, astray, made>>

RevokeAnswer(c) ==
    /\ c.op = "revokeGrant" /\ c.at = "ok"
    /\ calls' = calls \ {c}
    /\ shown' = Filter(shown, {r \in ToSet(shown) : r.id # c.id})
    /\ UNCHANGED <<table, loaded, dialog, busy, fresh, astray, made>>

\* The answer to a key's revocation has no body, which the proxy between
\* the page and the backend cannot pass on: always an error.
RevokeError(c) ==
    /\ c.op \in {"revokeGrant", "revokeKey"}
    /\ calls' = calls \ {c}
    /\ astray' = IF c.at = "ok" THEN astray \union {c.id} ELSE astray
    /\ busy' = IF c.op = "revokeKey" THEN busy \ {"revoke"} ELSE busy
    /\ UNCHANGED <<table, shown, loaded, dialog, fresh, made>>

-----------------------------------------------------------------------------
(* Keys.                                                                    *)

\* The button waits for an answer, the Enter key does not.
handleCreate ==
    /\ list = "keys" /\ dialog.open = "create" /\ fresh = 0
    /\ Send(Call("create", 0))
    /\ busy' = busy \union {"create"}
    /\ UNCHANGED <<table, shown, loaded, dialog, fresh, astray>>

KeyInserted(c) ==
    /\ c.op = "create" /\ c.at = "sent"
    /\ Len(rows) < MaxRows
    /\ rows' = Append(rows, [who |-> "none", role |-> viewer, status |-> "active"])
    /\ calls' = (calls \ {c}) \union {[c EXCEPT !.at = "ok", !.id = Len(rows) + 1]}
    /\ UNCHANGED <<list, viewer, shown, loaded, dialog, busy, fresh, astray, made>>

\* The key is put into the dialog, over the one that may be there, and the
\* list is loaded again.
CreateAnswer(c) ==
    /\ c.op = "create" /\ c.at = "ok"
    /\ calls' = (calls \ {c}) \union {[Call("load", 0) EXCEPT !.nr = c.nr]}
    /\ fresh' = c.id
    /\ UNCHANGED <<table, shown, loaded, dialog, busy, astray, made>>

CreateError(c) ==
    /\ c.op = "create"
    /\ calls' = calls \ {c}
    /\ busy' = busy \ {"create"}
    /\ astray' = IF c.at = "ok" THEN astray \union {c.id} ELSE astray
    /\ UNCHANGED <<table, shown, loaded, dialog, fresh, made>>

handleRevoke ==
    /\ list = "keys" /\ dialog.open = "revoke" /\ "revoke" \notin busy
    /\ Send(Call("revokeKey", dialog.id))
    /\ busy' = busy \union {"revoke"}
    /\ UNCHANGED <<table, shown, loaded, dialog, fresh, astray>>

-----------------------------------------------------------------------------
AccessInit ==
    /\ list \in {"team", "clients", "keys"}
    /\ viewer \in Roles
    /\ \E p \in People :
          rows = IF list = "keys" THEN <<>> ELSE <<[who |-> p, role |-> "admin", status |-> "invited"]>>
    /\ shown = <<>>
    /\ loaded = FALSE
    /\ made = 0
    /\ calls = {[Call("load", 0) EXCEPT !.nr = 0]}
    /\ dialog = NoDialog
    /\ busy = {}
    /\ fresh = 0
    /\ astray = {}

Clicks ==
    \/ setInviteOpen \/ setCreateOpen \/ closeDialog
    \/ \E i \in Ids : setDeactivateTarget(i) \/ setRevokeTarget(i) \/ RevokeClient(i)
    \/ \E i \in Ids, role \in Roles : handleRoleChange(i, role)
    \/ \E p \in People : InviteMember(p) \/ InviteClient(p) \/ InvitedElsewhere(p)
    \/ handleDeactivate \/ handleCreate \/ handleRevoke

Servers ==
    \E c \in calls : \/ LoadRead(c) \/ InviteChecked(c) \/ InviteInserted(c)
                     \/ MemberUpdated(c) \/ Revoked(c) \/ KeyInserted(c)

Answers ==
    \E c \in calls : \/ LoadAnswer(c) \/ LoadError(c) \/ InviteAnswer(c) \/ InviteError(c)
                     \/ RoleAnswer(c) \/ DeactivateAnswer(c) \/ UpdateError(c)
                     \/ RevokeAnswer(c) \/ RevokeError(c) \/ CreateAnswer(c) \/ CreateError(c)

AccessNext == Clicks \/ Servers \/ Answers

AccessSpec == AccessInit /\ [][AccessNext]_accessVars

-----------------------------------------------------------------------------
(* Properties.                                                              *)

AccessTypeOK ==
    /\ list \in {"team", "clients", "keys"} /\ viewer \in Roles
    /\ Len(rows) <= MaxRows
    /\ \A i \in DOMAIN rows : /\ rows[i].who \in People \union {"none"} /\ rows[i].role \in Roles
                              /\ rows[i].status \in {"invited", "active", "deactivated", "revoked"}
    /\ \A n \in DOMAIN shown : shown[n].id \in DOMAIN rows
    /\ \A c \in calls : c.id \in DOMAIN rows \union {0}
    /\ loaded \in BOOLEAN
    /\ busy \subseteq {"invite", "create", "revoke"}
    /\ fresh \in DOMAIN rows \union {0}
    /\ astray \subseteq DOMAIN rows

\* Whatever order requests are handled and answered in, an admin's list tells
\* the truth about every row no request is under way for, each row once,
\* except those that changed behind the page or by two changes at a time.
ListIsTrue ==
    viewer = "admin" /\ loaded /\ (\A c \in calls : c.op # "load") =>
        \A i \in DOMAIN rows \ astray : (\A c \in calls : c.id # i) => TrueOf(shown, i)

=============================================================================
