--------------------------- MODULE WebPagesProofs ---------------------------
(***************************************************************************)
(* What is proved of each page holds of the pages together: a behaviour of *)
(* WebSpec is one of every page, since a step is of one of them and leaves *)
(* the variables of the others alone.  And every page's variables keep     *)
(* their types.                                                            *)
(***************************************************************************)
EXTENDS WebPages, StaffPagesProofs, CandidatePathProofs

-----------------------------------------------------------------------------
(* Every page on its own.                                                   *)

(* WebPages composes the pages without taking anything from one or adding   *)
(* to it: each of them behaves in it as its own module says.                *)
THEOREM PagesKeepTheirSpecs ==
    WebSpec => /\ TableSpec /\ MailerSpec /\ WidgetSpec /\ AccessSpec /\ SettingsSpec /\ ReportSpec
               /\ SignInSpec /\ PostingSpec /\ FormsSpec /\ TemplatesSpec /\ JobListSpec
               /\ ApplyingSpec /\ LobbySpec /\ RoomSpec
<1>1. WebInit => /\ TableInit /\ MailerInit /\ WidgetInit /\ AccessInit /\ SettingsInit /\ ReportInit
                 /\ SignInInit /\ PostingInit /\ FormsInit /\ TemplatesInit /\ JobListInit
                 /\ ApplyingInit /\ LobbyInit /\ RoomInit
  BY DEF WebInit
<1>2. [WebNext]_webVars =>
        /\ [TableNext]_tableVars /\ [MailerNext]_mailerVars /\ [WidgetNext]_widgetVars
        /\ [AccessNext]_accessVars /\ [SettingsNext]_settingsVars /\ [ReportNext]_reportVars
        /\ [SignInNext]_signInVars /\ [PostingNext]_postingVars /\ [FormsNext]_formsVars
        /\ [TemplatesNext]_templatesVars /\ [JobListNext]_jobListVars
        /\ [ApplyingNext]_applyingVars /\ [LobbyNext]_lobbyVars /\ [RoomNext]_roomVars
  BY Zenon DEF WebNext, webVars
<1> QED
  BY <1>1, <1>2, PTL
  DEF WebSpec, TableSpec, MailerSpec, WidgetSpec, AccessSpec, SettingsSpec, ReportSpec, SignInSpec, PostingSpec,
      FormsSpec, TemplatesSpec, JobListSpec, ApplyingSpec, LobbySpec, RoomSpec

-----------------------------------------------------------------------------
(* The types that the pages' invariants have.                               *)

LEMMA TypesOfInvariants ==
    /\ TableInv => TableTypeOK
    /\ MailerInv => MailerTypeOK
    /\ WidgetInv => WidgetTypeOK
    /\ SettingsInv => SettingsTypeOK
    /\ ReportInv => ReportTypeOK
    /\ SignInInv => SignInTypeOK
    /\ PostingInv => PostingTypeOK
    /\ TemplatesInv => TemplatesTypeOK
    /\ JobListInv => JobListTypeOK
    /\ ApplyingInv => ApplyingTypeOK
<1>1. TableInv => TableTypeOK
  BY TableTypes DEF TableInv
<1>2. MailerInv => MailerTypeOK
  BY DEF MailerInv
<1>3. WidgetInv => WidgetTypeOK
  BY DEF WidgetInv
<1>4. SettingsInv => SettingsTypeOK
  BY DEF SettingsInv, SettingsTyped
<1>5. ReportInv => ReportTypeOK
  <2> SUFFICES ASSUME ReportInv PROVE ReportTypeOK
    OBVIOUS
  <2>1. got.at \in {"sessions", "qa", "reports", "page"} /\ got.qa \subseteq QA
    BY DEF ReportInv, ReportTyped
  <2>2. detail.overriding \subseteq {"no_override", "advance"}
    BY DEF ReportInv, ReportTyped, Detail
  <2>3. ToSet(reported) \union ToSet(got.reports) \union ToSet(got.sessions) \subseteq Attempts
    BY DEF ReportInv, ReportTyped, ToSet
  <2> QED
    BY <2>1, <2>2, <2>3 DEF ReportInv, ReportTyped, ReportTypeOK
<1>6. SignInInv => SignInTypeOK
  BY DEF SignInInv
<1>7. PostingInv => PostingTypeOK
  BY DEF PostingInv
<1>8. TemplatesInv => TemplatesTypeOK
  BY DEF TemplatesInv
<1>9. JobListInv => JobListTypeOK
  <2> SUFFICES ASSUME JobListInv PROVE JobListTypeOK
    OBVIOUS
  <2>1. news \in 0 .. MaxChanges /\ refreshes \in 0 .. MaxChanges
    BY JobListAssumption DEF JobListInv, NewsCounted
  <2>2. DOMAIN shownRows \subseteq Jobs
    BY DEF JobListInv, JobListTyped, RowLists
  <2>3. rendering.tab \in Tabs /\ rendering.at \in {"none", "asked", "read"}
    BY DEF JobListInv, JobListTyped, Renderings
  <2> QED
    BY <2>1, <2>2, <2>3 DEF JobListInv, JobListTyped, JobListTypeOK
<1>10. ApplyingInv => ApplyingTypeOK
  BY DEF ApplyingInv
<1> QED
  BY <1>1, <1>2, <1>3, <1>4, <1>5, <1>6, <1>7, <1>8, <1>9, <1>10

(* The forms: FormsInv needs neither the requests nor what they made.       *)
FormsMade ==
    /\ creating \in {"idle", "template", "post", "private", "gone"}
    /\ created \in [templates : Nat, posts : Nat, clicks : Nat]

LEMMA FormsTypes == FormsSpec => []FormsTypeOK
<1>1. FormsInit => FormsMade
  BY DEF FormsInit, FormsMade
<1>2. FormsMade /\ [FormsNext]_formsVars => FormsMade'
  <2> SUFFICES ASSUME FormsMade, [FormsNext]_formsVars PROVE FormsMade'
    OBVIOUS
  <2> USE DEF FormsMade
  <2>1. ASSUME UNCHANGED <<creating, created>> PROVE FormsMade'
    BY <2>1
  <2>2. ASSUME NEW at, NEW next \in {"idle", "post", "private", "gone"}, Creates(at, next, created) PROVE FormsMade'
    BY <2>2 DEF Creates
  <2>3. CASE handleFormSubmit
    <3> DEFINE n == created.clicks + 1
    <3>1. n \in Nat
      OBVIOUS
    <3>2. CASE formKind = "template" /\ Total(jobForm) # 100
      <4>1. UNCHANGED <<creating, created>>
        BY <2>3, <3>2, Zenon DEF handleFormSubmit, Editing
      <4> QED
        BY <2>1, <4>1
    <3>3. CASE ~(formKind = "template" /\ Total(jobForm) # 100)
      <4>1. creating' = IF formKind = "job" THEN "template" ELSE "idle"
        BY <2>3, <3>3, Zenon DEF handleFormSubmit
      <4>2. created' = [created EXCEPT !.clicks = n]
        BY <2>3, <3>3, Zenon DEF handleFormSubmit
      <4> HIDE DEF n
      <4> QED
        BY <3>1, <4>1, <4>2
    <3> QED
      BY <3>2, <3>3
  <2>4. CASE TemplateInserted
    <3> DEFINE n == created.templates + 1
    <3>1. n \in Nat /\ creating' = "post" /\ created' = [created EXCEPT !.templates = n]
      BY <2>4 DEF TemplateInserted, Creates
    <3> HIDE DEF n
    <3> QED
      BY <3>1
  <2>5. CASE PostInserted
    <3> DEFINE n == created.posts + 1
    <3>1. n \in Nat /\ creating' \in {"private", "gone"} /\ created' = [created EXCEPT !.posts = n]
      BY <2>5 DEF PostInserted, Creates
    <3> HIDE DEF n
    <3> QED
      BY <3>1
  <2>6. CASE PrivateInserted \/ CreateFails
    BY <2>2, <2>6 DEF PrivateInserted, CreateFails
  <2>7. CASE \/ \E n \in Numbers : TypeNumber(n) \/ updateWeight("technical", n) \/ updateWeight("rest", n)
             \/ BlurNumber
             \/ \E l \in Lists : addTag(l) \/ handlePresetChange(l)
             \/ \E t \in Tags : removeTag(t) \/ addQuestion(t)
             \/ \E i \in 1 .. 2 : removeQuestion(i)
    <3>1. UNCHANGED <<creating, created>>
      BY <2>7, Zenon DEF TypeNumber, updateWeight, BlurNumber, addTag, handlePresetChange, removeTag, addQuestion,
         removeQuestion, Editing
    <3> QED
      BY <2>1, <3>1
  <2>8. CASE UNCHANGED formsVars
    BY <2>1, <2>8 DEF formsVars
  <2> QED
    BY <2>3, <2>4, <2>5, <2>6, <2>7, <2>8 DEF FormsNext
<1>3. FormsInv /\ FormsMade => FormsTypeOK
  BY DEF FormsInv, TypedForm, FormsMade, FormsTypeOK, ToSet
<1> QED
  BY <1>1, <1>2, <1>3, FormsInitially, FormsStep, PTL DEF FormsSpec
(* The access lists: ids are those of rows, and the table is bounded.       *)
AccessBounded ==
    /\ Len(rows) <= MaxRows
    /\ busy \subseteq {"invite", "create", "revoke"}
    /\ fresh \in DOMAIN rows \union {0}
    /\ astray \subseteq DOMAIN rows

(* A row may have been added, and what is new has an id of the table.       *)
LEMMA BoundsKept ==
    ASSUME AccessTyped, AccessBounded, rows' \in Seq(RowRecs), Len(rows) <= Len(rows'), Len(rows') <= MaxRows,
           busy' \subseteq {"invite", "create", "revoke"},
           fresh' \in DOMAIN rows \union {0, fresh},
           astray' \subseteq astray \union DOMAIN rows'
    PROVE  AccessBounded'
<1>1. DOMAIN rows \subseteq DOMAIN rows'
  BY DEF AccessTyped
<1> QED
  BY <1>1 DEF AccessBounded

LEMMA ClicksBounded ==
    ASSUME AccessTyped, AccessBounded, CallsKnown, Clicks
    PROVE  AccessBounded'
<1>1. rows \in Seq(RowRecs) /\ Len(rows) \in Nat /\ Len(rows) <= MaxRows
  BY DEF AccessTyped, AccessBounded
<1>2. ASSUME rows' = rows, busy' \subseteq {"invite", "create", "revoke"}, fresh' \in {0, fresh},
             astray' \subseteq astray \union DOMAIN rows
      PROVE  AccessBounded'
  BY <1>1, <1>2, BoundsKept
<1>3. busy \subseteq {"invite", "create", "revoke"}
  BY DEF AccessBounded
<1>4. CASE setInviteOpen \/ setCreateOpen \/ closeDialog
  BY <1>2, <1>3, <1>4, Zenon DEF setInviteOpen, setCreateOpen, closeDialog, table
<1>5. CASE \E i \in Ids : setDeactivateTarget(i) \/ setRevokeTarget(i) \/ RevokeClient(i)
  BY <1>2, <1>3, <1>5, Zenon DEF setDeactivateTarget, setRevokeTarget, RevokeClient, table
<1>6. ASSUME NEW i \in Ids, NEW role \in Roles, handleRoleChange(i, role)
      PROVE  AccessBounded'
  <2>1. UNCHANGED <<table, busy, fresh>> /\ astray' = astray \union Overtakes("role", i)
    BY <1>6, Zenon DEF handleRoleChange
  <2>2. \A d \in calls : d.op = "role" => d.id \in DOMAIN rows
    BY DEF CallsKnown, CallKnown, Changing
  <2>3. Overtakes("role", i) \subseteq DOMAIN rows
    BY <2>2 DEF Overtakes
  <2> QED
    BY <1>2, <1>3, <2>1, <2>3 DEF table
<1>7. CASE \E p \in People : InviteMember(p) \/ InviteClient(p) \/ InvitedElsewhere(p)
  <2>1. UNCHANGED <<table, fresh, astray>> /\ busy' \in {busy, busy \union {"invite"}}
    BY <1>7, Zenon DEF InviteMember, InviteClient, InvitedElsewhere
  <2> QED
    BY <1>2, <1>3, <2>1 DEF table
<1>8. CASE handleDeactivate \/ handleCreate \/ handleRevoke
  <2>1. UNCHANGED <<table, fresh, astray>> /\ busy' \in {busy, busy \union {"create"}, busy \union {"revoke"}}
    BY <1>8, Zenon DEF handleDeactivate, handleCreate, handleRevoke
  <2> QED
    BY <1>2, <1>3, <2>1 DEF table
<1> QED
  BY <1>4, <1>5, <1>6, <1>7, <1>8 DEF Clicks

LEMMA ServersBounded ==
    ASSUME AccessTyped, AccessBounded, CallsKnown, Servers
    PROVE  AccessBounded'
<1>0. PICK c \in calls : \/ LoadRead(c) \/ InviteChecked(c) \/ InviteInserted(c)
                        \/ MemberUpdated(c) \/ Revoked(c) \/ KeyInserted(c)
  BY DEF Servers
<1>1. rows \in Seq(RowRecs) /\ Len(rows) \in Nat /\ Len(rows) <= MaxRows /\ DOMAIN rows = 1 .. Len(rows)
  BY DEF AccessTyped, AccessBounded
<1>2. busy \subseteq {"invite", "create", "revoke"}
  BY DEF AccessBounded
<1>3. ASSUME UNCHANGED <<busy, fresh>>, rows' \in Seq(RowRecs), Len(rows) <= Len(rows'), Len(rows') <= MaxRows,
             astray' \subseteq astray \union DOMAIN rows'
      PROVE  AccessBounded'
  BY <1>2, <1>3, BoundsKept DEF AccessBounded
<1>4. c.who \in People \union {"none"} /\ c.role \in Roles /\ viewer \in Roles
  BY DEF AccessTyped, CallRecs
<1>5. CASE LoadRead(c) \/ InviteChecked(c)
  <2>1. UNCHANGED <<table, busy, fresh, astray>>
    BY <1>5, Zenon DEF LoadRead, InviteChecked
  <2> QED
    BY <1>1, <1>3, <2>1 DEF table
<1>6. CASE InviteInserted(c)
  <2>1. UNCHANGED <<busy, fresh>>
    BY <1>6, Zenon DEF InviteInserted
  <2>2. CASE HasActiveGrant(c.who)
    <3>1. UNCHANGED <<rows, astray>>
      BY <1>6, <2>2, Zenon DEF InviteInserted
    <3> QED
      BY <1>1, <1>3, <2>1, <3>1
  <2>3. CASE ~HasActiveGrant(c.who)
    <3>1. /\ Len(rows) < MaxRows /\ rows' = Append(rows, [who |-> c.who, role |-> c.role, status |-> "invited"])
          /\ astray' \in {astray, astray \union {Len(rows) + 1}}
      BY <1>6, <2>3, Zenon DEF InviteInserted
    <3>2. [who |-> c.who, role |-> c.role, status |-> "invited"] \in RowRecs
      BY <1>4 DEF RowRecs
    <3>3. rows' \in Seq(RowRecs) /\ Len(rows') = Len(rows) + 1 /\ DOMAIN rows' = 1 .. Len(rows) + 1
      BY <1>1, <3>1, <3>2
    <3>4. Len(rows) + 1 \in DOMAIN rows' /\ Len(rows') <= MaxRows
      BY <1>1, <3>1, <3>3, AccessAssumption
    <3>5. astray' \subseteq astray \union DOMAIN rows'
      BY <3>1, <3>4
    <3> QED
      BY <1>1, <1>3, <2>1, <3>3, <3>4, <3>5
  <2> QED
    BY <2>2, <2>3
<1>7. CASE MemberUpdated(c) \/ Revoked(c)
  <2>1. UNCHANGED <<busy, fresh, astray>> /\ c.op \in Changing
    BY <1>7 DEF MemberUpdated, Revoked, Changing
  <2>2. \/ rows' = rows \/ rows' = [rows EXCEPT ![c.id].role = c.role]
        \/ rows' = [rows EXCEPT ![c.id].status = "deactivated"] \/ rows' = [rows EXCEPT ![c.id].status = "revoked"]
    BY <1>7, Zenon DEF MemberUpdated, Revoked
  <2>3. c.id \in DOMAIN rows
    BY <2>1 DEF CallsKnown, CallKnown
  <2>4. rows' \in Seq(RowRecs) /\ DOMAIN rows' = DOMAIN rows
    <3>1. rows \in Seq(RowRecs) /\ c.role \in Roles
      BY <1>1, <1>4
    <3> QED
      BY <2>2, <2>3, <3>1, RowChanges
  <2>5. Len(rows') = Len(rows)
    BY <1>1, <2>4
  <2> QED
    BY <1>1, <1>3, <2>1, <2>4, <2>5
<1>9. CASE KeyInserted(c)
  <2>1. /\ UNCHANGED <<busy, fresh, astray>> /\ Len(rows) < MaxRows
        /\ rows' = Append(rows, [who |-> "none", role |-> viewer, status |-> "active"])
    BY <1>9, Zenon DEF KeyInserted
  <2>2. [who |-> "none", role |-> viewer, status |-> "active"] \in RowRecs
    BY <1>4 DEF RowRecs
  <2>3. rows' \in Seq(RowRecs) /\ Len(rows') = Len(rows) + 1 /\ Len(rows') <= MaxRows
    BY <1>1, <2>1, <2>2, AccessAssumption
  <2> QED
    BY <1>1, <1>3, <2>1, <2>3
<1> QED
  BY <1>0, <1>5, <1>6, <1>7, <1>9

LEMMA AnswersBounded ==
    ASSUME AccessTyped, AccessBounded, CallsKnown, Answers
    PROVE  AccessBounded'
<1>0. PICK c \in calls : \/ LoadAnswer(c) \/ LoadError(c) \/ InviteAnswer(c) \/ InviteError(c)
                        \/ RoleAnswer(c) \/ DeactivateAnswer(c) \/ UpdateError(c)
                        \/ RevokeAnswer(c) \/ RevokeError(c) \/ CreateAnswer(c) \/ CreateError(c)
  BY Zenon DEF Answers
<1>1. rows \in Seq(RowRecs) /\ Len(rows) \in Nat /\ Len(rows) <= MaxRows
  BY DEF AccessTyped, AccessBounded
<1>2. ASSUME rows' = rows, busy' \subseteq busy, fresh' \in DOMAIN rows \union {fresh},
             astray' \subseteq astray \union DOMAIN rows
      PROVE  AccessBounded'
  <2>1. busy' \subseteq {"invite", "create", "revoke"}
    BY <1>2 DEF AccessBounded
  <2> QED
    BY <1>1, <1>2, <2>1, BoundsKept
<1>3. c.at = "ok" /\ c.op # "load" => c.id \in DOMAIN rows
  <2>1. CallKnown(c)
    BY DEF CallsKnown
  <2>2. c.op \in Changing \union Inserting \union {"load"}
    BY <2>1 DEF CallKnown, OpsOf, Changing, Inserting
  <2> QED
    BY <2>1, <2>2 DEF CallKnown
<1>4. CASE LoadAnswer(c)
  <2>1. /\ UNCHANGED <<table, fresh>> /\ busy' = busy \ {"create"}
        /\ astray' = {i \in DOMAIN rows : ~TrueOf(c.got, i) /\ \A d \in calls : d.op = "invite" => d.id # i}
    BY <1>4, Zenon DEF LoadAnswer
  <2>2. astray' \subseteq DOMAIN rows
    BY <2>1
  <2> QED
    BY <1>2, <2>1, <2>2 DEF table
<1>5. CASE LoadError(c)
  <2>1. /\ UNCHANGED <<table, fresh>> /\ busy' = busy \ {"create"}
        /\ astray' = astray \union {i \in DOMAIN rows : ~TrueOf(shown, i)}
    BY <1>5, Zenon DEF LoadError
  <2>2. astray' \subseteq astray \union DOMAIN rows
    BY <2>1
  <2> QED
    BY <1>2, <2>1, <2>2 DEF table
<1>6. CASE InviteAnswer(c) \/ InviteError(c) \/ RevokeError(c) \/ CreateError(c)
  <2>1. /\ UNCHANGED <<table, fresh>> /\ c.op # "load"
        /\ busy' \in {busy, busy \ {"invite"}, busy \ {"revoke"}, busy \ {"create"}}
        /\ astray' = astray \/ (c.at = "ok" /\ astray' = astray \union {c.id})
    <3>1. CASE InviteAnswer(c)
      BY <3>1 DEF InviteAnswer
    <3>2. CASE InviteError(c)
      BY <3>2 DEF InviteError
    <3>3. CASE RevokeError(c)
      BY <3>3 DEF RevokeError
    <3>4. CASE CreateError(c)
      BY <3>4 DEF CreateError
    <3> QED
      BY <1>6, <3>1, <3>2, <3>3, <3>4
  <2>2. astray' \subseteq astray \union DOMAIN rows /\ busy' \subseteq busy
    BY <1>3, <2>1
  <2> QED
    BY <1>2, <2>1, <2>2 DEF table
<1>7. CASE RoleAnswer(c) \/ DeactivateAnswer(c) \/ RevokeAnswer(c)
  <2>1. UNCHANGED <<table, busy, fresh, astray>>
    BY <1>7, Zenon DEF RoleAnswer, DeactivateAnswer, RevokeAnswer
  <2> QED
    BY <1>2, <2>1 DEF table
<1>8. CASE UpdateError(c)
  <2>1. /\ UNCHANGED <<table, busy, fresh>> /\ c.op # "load"
        /\ astray' = astray \/ (c.at = "ok" /\ astray' = astray \union {c.id})
    BY <1>8 DEF UpdateError
  <2> QED
    BY <1>2, <1>3, <2>1 DEF table
<1>9. CASE CreateAnswer(c)
  <2>1. UNCHANGED <<table, busy, astray>> /\ fresh' = c.id /\ c.op # "load" /\ c.at = "ok"
    BY <1>9 DEF CreateAnswer
  <2> QED
    BY <1>2, <1>3, <2>1 DEF table
<1> QED
  BY <1>0, <1>4, <1>5, <1>6, <1>7, <1>8, <1>9

LEMMA AccessTypes == AccessSpec => []AccessTypeOK
<1>1. AccessInit => AccessBounded
  <2> SUFFICES ASSUME AccessInit PROVE AccessBounded
    OBVIOUS
  <2>1. busy = {} /\ fresh = 0 /\ astray = {}
    BY DEF AccessInit
  <2>2. PICK p \in People :
          rows = IF list = "keys" THEN <<>> ELSE <<[who |-> p, role |-> "admin", status |-> "invited"]>>
    BY DEF AccessInit
  <2>3. Len(rows) \in {0, 1}
    BY <2>2
  <2>4. MaxRows \in Nat /\ 1 <= MaxRows
    BY AccessAssumption
  <2>5. Len(rows) <= MaxRows
    BY <2>3, <2>4
  <2>6. busy \subseteq {"invite", "create", "revoke"} /\ fresh \in DOMAIN rows \union {0} /\ astray \subseteq DOMAIN rows
    BY <2>1
  <2> QED
    BY <2>5, <2>6 DEF AccessBounded
<1>2. AccessInv /\ AccessBounded /\ [AccessNext]_accessVars => AccessBounded'
  <2> SUFFICES ASSUME AccessInv, AccessBounded, [AccessNext]_accessVars PROVE AccessBounded'
    OBVIOUS
  <2>1. AccessTyped /\ CallsKnown
    BY DEF AccessInv, AccessKnown
  <2>2. CASE UNCHANGED accessVars
    BY <2>2 DEF accessVars, AccessBounded
  <2> QED
    BY <2>1, <2>2, ClicksBounded, ServersBounded, AnswersBounded DEF AccessNext
<1>3. AccessInv /\ AccessBounded => AccessTypeOK
  <2> SUFFICES ASSUME AccessInv, AccessBounded PROVE AccessTypeOK
    OBVIOUS
  <2>1. AccessTyped /\ ShownKnown /\ CallsKnown
    BY DEF AccessInv, AccessKnown
  <2>2. \A i \in DOMAIN rows : /\ rows[i].who \in People \union {"none"} /\ rows[i].role \in Roles
                              /\ rows[i].status \in {"invited", "active", "deactivated", "revoked"}
    <3>1. \A i \in DOMAIN rows : rows[i] \in RowRecs
      <4>1. rows \in Seq(RowRecs)
        BY <2>1 DEF AccessTyped
      <4> QED
        BY <4>1
    <3> QED
      BY <3>1 DEF RowRecs
  <2>3. \A c \in calls : c.id \in DOMAIN rows \union {0}
    <3> SUFFICES ASSUME NEW c \in calls PROVE c.id \in DOMAIN rows \union {0}
      OBVIOUS
    <3>1. CallKnown(c)
      BY <2>1 DEF CallsKnown
    <3>2. c.op \in Changing \union Inserting \union {"load"}
      BY <3>1 DEF CallKnown, OpsOf, Changing, Inserting
    <3> QED
      BY <3>1, <3>2 DEF CallKnown
  <2> QED
    BY <2>1, <2>2, <2>3 DEF AccessTypeOK, AccessTyped, AccessBounded, ShownKnown
<1> QED
  BY <1>1, <1>2, <1>3, AccessInitially, AccessStep, PTL DEF AccessSpec

(* The lobby: rooms are created by starts, each by one of its own.          *)
Consents == [status : {"pending", "in_progress", "closed"}, consent : BOOLEAN]
Calls == [lobby : Nat, session : Nat]

\* Where the tab is, and what goes on in pages that were left.
WayTyped ==
    /\ view \in Views /\ starts \in Runs /\ leftCalls \in Calls
    /\ leaked \in BOOLEAN /\ trail \in BOOLEAN /\ strayed \in Nat

LobbyKinds ==
    /\ visitor \in [link : BOOLEAN, account : BOOLEAN, signed : BOOLEAN]
    /\ kept \in [token : BOOLEAN, room : BOOLEAN]
    /\ checks \in [browser : Checks, mic : Checks, consent : BOOLEAN]
    /\ notice \in BOOLEAN /\ beacons \in BOOLEAN
    /\ WayTyped
    /\ interview \in Consents
    /\ opens \in 0 .. MaxOpens /\ admitted \in Nat /\ entered \in Nat
    /\ refused \in {"none", "pending", "in_progress", "closed", "fault"}

Roomless == {n \in 1 .. MaxStarts : starts[n].at \in {"idle", "consent", "create", "activate"}}
StartsCounted == admitted + Cardinality(Roomless) <= MaxStarts
LobbyInv == LobbyKinds /\ StartsCounted

LEMMA RoomlessFinite == IsFiniteSet(Roomless) /\ Cardinality(Roomless) \in Nat
<1>1. Roomless \subseteq 1 .. MaxStarts /\ IsFiniteSet(1 .. MaxStarts)
  BY LobbyAssumption, FS_Interval DEF Roomless
<1> QED
  BY <1>1, FS_Subset, FS_CardinalityType

(* No start goes back to before its room.                                   *)
LEMMA StartsKept ==
    ASSUME LobbyInv, admitted' = admitted,
           \A n \in 1 .. MaxStarts : starts'[n].at = starts[n].at \/ starts'[n].at \notin {"idle", "consent", "create", "activate"}
                                     \/ n \in Roomless
    PROVE  StartsCounted'
<1>1. Roomless' \subseteq Roomless
  BY DEF Roomless
<1>2. Cardinality(Roomless') <= Cardinality(Roomless) /\ Cardinality(Roomless') \in Nat /\ Cardinality(Roomless) \in Nat
  BY <1>1, RoomlessFinite, FS_Subset, FS_CardinalityType
<1>3. admitted \in Nat /\ MaxStarts \in Nat /\ admitted + Cardinality(Roomless) <= MaxStarts
  BY LobbyAssumption DEF LobbyInv, LobbyKinds, StartsCounted
<1>4. admitted' + Cardinality(Roomless') <= MaxStarts
  BY <1>2, <1>3
<1> QED
  BY <1>4 DEF StartsCounted

(* The two ways to another page keep the types of where the tab is.         *)
LEMMA PageLeftTypes ==
    ASSUME WayTyped, NEW to \in Views, NEW runs \in Runs, NEW rest \in Calls, LeavePage(to, runs, rest),
           leaked' \in BOOLEAN
    PROVE  WayTyped' /\ \A n \in 1 .. MaxStarts : starts'[n].at = runs[n].at
<1>1. view' = to /\ strayed' \in Nat
  BY DEF LeavePage, WayTyped, One
<1>2. trail' \in BOOLEAN
  BY Zenon DEF LeavePage
<1>3. starts' \in Runs /\ \A n \in 1 .. MaxStarts : starts'[n].at = runs[n].at
  BY DEF LeavePage, Runs
<1>4. leftCalls' \in Calls
  <2>1. One(view = "loading") \in Nat /\ One(view = "checking" /\ kept.room) \in Nat
    BY DEF One
  <2> DEFINE a == rest.lobby + One(view = "loading")
             b == rest.session + One(view = "checking" /\ kept.room)
  <2>2. a \in Nat /\ b \in Nat
    BY <2>1 DEF Calls
  <2>3. leftCalls' = [lobby |-> a, session |-> b]
    BY DEF LeavePage
  <2> HIDE DEF a, b
  <2> QED
    BY <2>2, <2>3 DEF Calls
<1> QED
  BY <1>1, <1>2, <1>3, <1>4 DEF WayTyped

LEMMA DocumentLeftTypes ==
    ASSUME WayTyped, kept \in [token : BOOLEAN, room : BOOLEAN], beacons \in BOOLEAN, NEW to \in Views,
           NEW byLink \in BOOLEAN, NEW active \in BOOLEAN, LeaveDocument(to, byLink, active)
    PROVE  /\ WayTyped' /\ kept' \in [token : BOOLEAN, room : BOOLEAN] /\ beacons' \in BOOLEAN
           /\ \A n \in 1 .. MaxStarts : starts'[n].at = starts[n].at
<1>1. view' = to /\ strayed' \in Nat /\ leaked' = FALSE /\ leftCalls' = Nobody
  BY DEF LeaveDocument, WayTyped
<1>2. trail' \in BOOLEAN
  BY Zenon DEF LeaveDocument
<1>3. starts' \in Runs /\ \A n \in 1 .. MaxStarts : starts'[n].at = starts[n].at
  BY DEF LeaveDocument, Runs, WayTyped
<1>4. leftCalls' \in Calls
  BY <1>1 DEF Nobody, Calls
<1>5. kept' \in [token : BOOLEAN, room : BOOLEAN] /\ beacons' \in BOOLEAN
  <2> DEFINE listens == view \in InRoom \union {"thanks"} \/ leaked
  <2>1. PICK handled \in BOOLEAN :
          /\ kept' = [token |-> kept.token \/ byLink, room |-> kept.room /\ ~(handled /\ listens)]
          /\ beacons' = (beacons \/ (handled /\ active))
    BY DEF LeaveDocument
  <2> HIDE DEF listens
  <2> DEFINE a == kept.token \/ byLink
             b == kept.room /\ ~(handled /\ listens)
  <2>2. a \in BOOLEAN /\ b \in BOOLEAN /\ kept' = [token |-> a, room |-> b]
    BY <2>1, Zenon
  <2>3. beacons' \in BOOLEAN
    BY <2>1, Zenon
  <2> HIDE DEF a, b
  <2> QED
    BY <2>2, <2>3
<1> QED
  BY <1>1, <1>2, <1>3, <1>4, <1>5 DEF WayTyped

LEMMA TypesOfTheWay == LobbyKinds => /\ starts \in Runs /\ view \in Views /\ leftCalls \in Calls
                                /\ WayTyped /\ leaked \in BOOLEAN
  BY DEF LobbyKinds, WayTyped

LEMMA LobbyStarts ==
    ASSUME LobbyInv, NEW n \in 1 .. MaxStarts,
           \/ handleReady(n) \/ ConsentRecorded(n) \/ CreateRoom(n) \/ RoomActivated(n)
           \/ StartSucceeds(n) \/ StartFails(n)
    PROVE  LobbyInv'
<1>0. LobbyKinds /\ starts \in Runs /\ WayTyped
  BY DEF LobbyInv, LobbyKinds, WayTyped
<1>1. ASSUME NEW to \in StartPlaces, StartAt(n, to)
      PROVE  /\ starts' \in Runs
             /\ starts'[n].at = to /\ \A m \in 1 .. MaxStarts \ {n} : starts'[m].at = starts[m].at
  BY <1>0, <1>1 DEF StartAt, Runs
<1>way. ASSUME starts' \in Runs, UNCHANGED <<view, wayVars>>
        PROVE  WayTyped'
  BY <1>0, <1>way DEF WayTyped, wayVars
<1>2. CASE handleReady(n)
  <2>1. PICK to \in {"create", "consent"} : starts' = [starts EXCEPT ![n] = [at |-> to, page |-> "shown"]]
    BY <1>2 DEF handleReady
  <2>2. /\ starts' \in Runs
        /\ \A m \in 1 .. MaxStarts \ {n} : starts'[m].at = starts[m].at
    BY <1>0, <2>1 DEF StartPlaces, Runs
  <2>3. n \in Roomless /\ admitted' = admitted
    BY <1>2 DEF handleReady, Roomless
  <2>4. LobbyKinds'
    BY <1>0, <1>2, <1>way, <2>2 DEF handleReady, LobbyKinds
  <2> QED
    BY <2>2, <2>3, <2>4, StartsKept DEF LobbyInv
<1>3. CASE ConsentRecorded(n)
  <2>1. "create" \in StartPlaces /\ StartAt(n, "create") /\ n \in Roomless /\ admitted' = admitted
    BY <1>3 DEF ConsentRecorded, StartPlaces, Roomless
  <2>2. interview' \in Consents
    BY <1>0, <1>3 DEF ConsentRecorded, LobbyKinds, Consents
  <2>3. LobbyKinds'
    BY <1>0, <1>1, <1>3, <1>way, <2>1, <2>2 DEF ConsentRecorded, LobbyKinds
  <2> QED
    BY <1>1, <2>1, <2>3, StartsKept DEF LobbyInv
<1>4. CASE CreateRoom(n)
  <2>1. PICK to \in {"activate", "refused"} : StartAt(n, to)
    BY <1>4 DEF CreateRoom
  <2>2. to \in StartPlaces /\ n \in Roomless /\ admitted' = admitted
    BY <1>4 DEF CreateRoom, StartPlaces, Roomless
  <2>3. refused' \in {"none", "pending", "in_progress", "closed", "fault"}
    BY <1>0, <1>4 DEF CreateRoom, LobbyKinds, Consents
  <2>4. LobbyKinds'
    BY <1>0, <1>1, <1>4, <1>way, <2>1, <2>2, <2>3 DEF CreateRoom, LobbyKinds
  <2> QED
    BY <1>1, <2>1, <2>2, <2>4, StartsKept DEF LobbyInv
<1>5. CASE RoomActivated(n)
  <2>1. "ready" \in StartPlaces /\ StartAt(n, "ready") /\ n \in Roomless /\ admitted' = admitted + 1
    BY <1>5 DEF RoomActivated, StartPlaces, Roomless
  <2>2. interview' \in Consents
    BY <1>5 DEF RoomActivated, Consents
  <2>3. admitted \in Nat /\ MaxStarts \in Nat /\ admitted + Cardinality(Roomless) <= MaxStarts
    BY <1>0, LobbyAssumption DEF LobbyInv, LobbyKinds, StartsCounted
  <2>4. LobbyKinds'
    BY <1>0, <1>1, <1>5, <1>way, <2>1, <2>2, <2>3 DEF RoomActivated, LobbyKinds
  <2>5. Roomless' = Roomless \ {n}
    BY <1>1, <2>1 DEF Roomless
  <2>6. Cardinality(Roomless') = Cardinality(Roomless) - 1 /\ Cardinality(Roomless) \in Nat
    BY <2>1, <2>5, RoomlessFinite, FS_RemoveElement
  <2>7. admitted' + Cardinality(Roomless') <= MaxStarts
    BY <2>1, <2>3, <2>6
  <2> QED
    BY <2>4, <2>7 DEF LobbyInv, StartsCounted
<1>6. CASE StartSucceeds(n)
  <2> DEFINE runs == [starts EXCEPT ![n].at = "over"]
  <2>1. runs \in Runs /\ \A m \in 1 .. MaxStarts : runs[m].at = IF m = n THEN "over" ELSE starts[m].at
    BY <1>0 DEF Runs, StartPlaces
  <2>2. \/ starts' = runs /\ UNCHANGED <<view, leftCalls, trail, strayed>>
        \/ LeavePage("checking", runs, leftCalls)
    BY <1>6 DEF StartSucceeds
  <2>3. /\ UNCHANGED <<visitor, checks, notice, interview, beacons, opens, admitted, entered, refused, leaked>>
        /\ kept' \in [token : BOOLEAN, room : BOOLEAN]
    BY <1>0, <1>6 DEF StartSucceeds, LobbyKinds
  <2> HIDE DEF runs
  <2>4. WayTyped' /\ \A m \in 1 .. MaxStarts : starts'[m].at = runs[m].at
    <3>1. CASE starts' = runs /\ UNCHANGED <<view, leftCalls, trail, strayed>>
      BY <1>0, <2>1, <2>3, <3>1 DEF WayTyped
    <3>2. CASE LeavePage("checking", runs, leftCalls)
      BY <1>0, <2>1, <2>3, <3>2, PageLeftTypes, NotTheRoom, TypesOfTheWay
    <3> QED
      BY <2>2, <3>1, <3>2
  <2>5. LobbyKinds'
    BY <1>0, <2>3, <2>4 DEF LobbyKinds
  <2> QED
    BY <2>1, <2>3, <2>4, <2>5, StartsKept DEF LobbyInv
<1>7. CASE StartFails(n)
  <2>1. "over" \in StartPlaces /\ StartAt(n, "over") /\ admitted' = admitted
    BY <1>7 DEF StartFails, StartPlaces
  <2>2. notice' \in BOOLEAN
    BY <1>7, Zenon DEF StartFails
  <2>3. LobbyKinds'
    BY <1>0, <1>1, <1>7, <1>way, <2>1, <2>2 DEF StartFails, LobbyKinds
  <2> QED
    BY <1>1, <2>1, <2>3, StartsKept DEF LobbyInv
<1> QED
  BY <1>2, <1>3, <1>4, <1>5, <1>6, <1>7

LEMMA LobbyPages ==
    ASSUME LobbyInv, [LobbyNext]_lobbyVars,
           \A n \in 1 .. MaxStarts :
               ~(\/ handleReady(n) \/ ConsentRecorded(n) \/ CreateRoom(n) \/ RoomActivated(n)
                 \/ StartSucceeds(n) \/ StartFails(n))
    PROVE  LobbyInv'
<1>0. /\ LobbyKinds /\ WayTyped /\ starts \in Runs /\ view \in Views /\ leftCalls \in Calls
      /\ kept \in [token : BOOLEAN, room : BOOLEAN] /\ beacons \in BOOLEAN /\ entered \in Nat
      /\ opens \in 0 .. MaxOpens /\ interview \in Consents
  BY TypesOfTheWay DEF LobbyInv, LobbyKinds
<1>1. ASSUME WayTyped', \A n \in 1 .. MaxStarts : starts'[n].at = starts[n].at,
             admitted' = admitted, refused' = refused,
             visitor' \in [link : BOOLEAN, account : BOOLEAN, signed : BOOLEAN],
             kept' \in [token : BOOLEAN, room : BOOLEAN],
             checks' \in [browser : Checks, mic : Checks, consent : BOOLEAN],
             notice' \in BOOLEAN, beacons' \in BOOLEAN, interview' \in Consents,
             opens' \in 0 .. MaxOpens, entered' \in Nat
      PROVE  LobbyInv'
  <2>1. LobbyKinds'
    BY <1>0, <1>1 DEF LobbyKinds
  <2> QED
    BY <1>1, <2>1, StartsKept DEF LobbyInv
<1>2. Opened => opens' \in 0 .. MaxOpens
  BY <1>0, LobbyAssumption DEF Opened
<1>3. Unchecked \in [browser : Checks, mic : Checks, consent : BOOLEAN] /\ FALSE \in BOOLEAN
  BY DEF Unchecked, Checks
\* What my-session leaves of the row, whatever the page makes of its answer.
<1> DEFINE Reset == [status |-> "pending", consent |-> FALSE]
<1>4. Reset \in Consents
  BY DEF Consents
<1> HIDE DEF Reset
<1>5. \A to \in {"loading", "checking", "home", "login", Portal} : to \in Views
  BY NotTheRoom
<1>6. ASSUME UNCHANGED <<view, starts, wayVars>>
      PROVE  WayTyped' /\ \A n \in 1 .. MaxStarts : starts'[n].at = starts[n].at
  BY <1>0, <1>6 DEF WayTyped, wayVars
<1>7. ASSUME view' \in Views, UNCHANGED <<starts, wayVars>>
      PROVE  WayTyped' /\ \A n \in 1 .. MaxStarts : starts'[n].at = starts[n].at
  BY <1>0, <1>7 DEF WayTyped, wayVars
<1>8. ASSUME NEW byLink \in BOOLEAN, NEW swapped \in BOOLEAN, OpenLobby(byLink, swapped) PROVE LobbyInv'
  <2>1. /\ opens' \in 0 .. MaxOpens /\ checks' = Unchecked /\ notice' = FALSE
        /\ UNCHANGED <<visitor, interview, admitted, entered, refused>>
    BY <1>2, <1>8 DEF OpenLobby
  <2>2. /\ WayTyped' /\ kept' \in [token : BOOLEAN, room : BOOLEAN] /\ beacons' \in BOOLEAN
        /\ \A n \in 1 .. MaxStarts : starts'[n].at = starts[n].at
    <3>1. CASE LeavePage("loading", starts, leftCalls) /\ UNCHANGED <<kept, leaked, beacons>>
      BY <1>0, <1>5, <3>1, PageLeftTypes, TypesOfTheWay
    <3>2. CASE LeaveDocument("loading", byLink, view \in InRoom)
      <4>1. (view \in InRoom) \in BOOLEAN
        OBVIOUS
      <4> QED
        BY <1>0, <1>5, <3>2, <4>1, DocumentLeftTypes
    <3> QED
      BY <1>8, <3>1, <3>2 DEF OpenLobby
  <2> QED
    BY <1>0, <1>1, <1>3, <2>1, <2>2 DEF LobbyKinds
<1>9. CASE fetchPendingSession
  <2>1. /\ view' \in Views /\ interview' \in Consents
    <3>1. \/ view' = "login" /\ UNCHANGED interview
          \/ MySessionAnswers(view' = "checklist", view' = Portal, view' = "none")
      BY <1>9 DEF fetchPendingSession
    <3>2. MySessionAnswers(view' = "checklist", view' = Portal, view' = "none")
            => view' \in {"checklist", "none", Portal} /\ interview' \in {interview, Reset}
      BY DEF MySessionAnswers, Reset
    <3>3. {"checklist", "none"} \subseteq Views
      BY DEF Views, LobbyViews
    <3> QED
      BY <1>0, <1>4, <1>5, <3>1, <3>2, <3>3
  <2>2. UNCHANGED <<visitor, kept, checks, notice, starts, beacons, opens, admitted, entered, refused, wayVars>>
    BY <1>9, Zenon DEF fetchPendingSession
  <2> QED
    BY <1>0, <1>1, <1>7, <2>1, <2>2 DEF LobbyKinds
<1>10. CASE fetchAstray
  <2> DEFINE rest == [leftCalls EXCEPT !.lobby = @ - 1]
             Stays == leftCalls' = rest /\ UNCHANGED <<view, starts, trail, strayed>>
  <2>1. /\ UNCHANGED <<visitor, kept, checks, notice, beacons, opens, admitted, entered, refused, leaked>>
        /\ leftCalls.lobby > 0
    BY <1>10, Zenon DEF fetchAstray
  <2>2. rest \in Calls
    <3> DEFINE m == leftCalls.lobby - 1
    <3>1. m \in Nat /\ rest = [leftCalls EXCEPT !.lobby = m]
      BY <1>0, <2>1 DEF Calls
    <3> HIDE DEF m
    <3> QED
      BY <1>0, <3>1 DEF Calls
  <2>3. /\ interview' \in Consents
        /\ Stays \/ LeavePage("login", starts, rest) \/ LeavePage(Portal, starts, rest)
    <3>1. \/ LeavePage("login", starts, rest) /\ UNCHANGED interview
          \/ MySessionAnswers(Stays, LeavePage(Portal, starts, rest), Stays)
      BY <1>10 DEF fetchAstray
    <3>2. MySessionAnswers(Stays, LeavePage(Portal, starts, rest), Stays)
             => (Stays \/ LeavePage(Portal, starts, rest)) /\ interview' \in {interview, Reset}
      BY DEF MySessionAnswers, Reset
    <3> QED
      BY <1>0, <1>4, <3>1, <3>2
  <2> HIDE DEF rest
  <2>4. WayTyped' /\ \A n \in 1 .. MaxStarts : starts'[n].at = starts[n].at
    <3>1. CASE Stays
      BY <1>0, <2>1, <2>2, <3>1 DEF WayTyped
    <3>2. ASSUME NEW to \in Views, LeavePage(to, starts, rest)
          PROVE  WayTyped' /\ \A n \in 1 .. MaxStarts : starts'[n].at = starts[n].at
      BY <1>0, <2>1, <2>2, <3>2, PageLeftTypes, TypesOfTheWay
    <3> QED
      BY <1>5, <2>3, <3>1, <3>2
  <2> QED
    BY <1>0, <1>1, <2>1, <2>3, <2>4 DEF LobbyKinds
<1>11. CASE BrowserChecked \/ MicrophoneAnswered \/ requestMicrophone \/ setConsentChecked
  <2>1. checks' \in [browser : Checks, mic : Checks, consent : BOOLEAN]
    BY <1>0, <1>11 DEF BrowserChecked, MicrophoneAnswered, requestMicrophone, setConsentChecked, LobbyKinds, Checks
  <2>2. UNCHANGED <<visitor, kept, view, notice, starts, interview, beacons, opens, admitted, entered, refused, wayVars>>
    BY <1>11, Zenon DEF BrowserChecked, MicrophoneAnswered, requestMicrophone, setConsentChecked
  <2> QED
    BY <1>0, <1>1, <1>6, <2>1, <2>2 DEF LobbyKinds
<1>12. ASSUME NEW swapped \in BOOLEAN, OpenSession(swapped) PROVE LobbyInv'
  <2>1. /\ opens' \in 0 .. MaxOpens
        /\ UNCHANGED <<visitor, checks, notice, interview, admitted, entered, refused>>
    BY <1>2, <1>12 DEF OpenSession
  <2>2. /\ WayTyped' /\ kept' \in [token : BOOLEAN, room : BOOLEAN] /\ beacons' \in BOOLEAN
        /\ \A n \in 1 .. MaxStarts : starts'[n].at = starts[n].at
    <3>1. CASE LeavePage("checking", starts, leftCalls) /\ UNCHANGED <<kept, leaked, beacons>>
      BY <1>0, <1>5, <3>1, PageLeftTypes, TypesOfTheWay
    <3>2. CASE LeaveDocument("checking", FALSE, view \in InRoom)
      <4>1. (view \in InRoom) \in BOOLEAN /\ FALSE \in BOOLEAN
        OBVIOUS
      <4> QED
        BY <1>0, <1>5, <3>2, <4>1, DocumentLeftTypes
    <3> QED
      BY <1>12, <3>1, <3>2 DEF OpenSession
  <2> QED
    BY <1>0, <1>1, <2>1, <2>2 DEF LobbyKinds
<1>13. CASE validateAndInit
  <2> DEFINE Enters == view' = "room" /\ entered' = entered + 1 /\ UNCHANGED kept
             TurnedAway == view' = Portal /\ kept' = [kept EXCEPT !.room = FALSE] /\ UNCHANGED entered
  <2>1. UNCHANGED <<visitor, checks, notice, starts, beacons, opens, admitted, refused, wayVars>>
    BY <1>13, Zenon DEF validateAndInit
  <2>2. /\ interview' \in Consents
        /\ Enters \/ TurnedAway \/ (view' = Portal /\ UNCHANGED <<kept, entered>>)
    <3>1. \/ view' = Portal /\ UNCHANGED <<kept, interview, entered>>
          \/ MySessionAnswers(Enters, TurnedAway, Enters)
          \/ Enters /\ UNCHANGED interview
      BY <1>13 DEF validateAndInit
    <3>2. MySessionAnswers(Enters, TurnedAway, Enters) => (Enters \/ TurnedAway) /\ interview' \in {interview, Reset}
      BY DEF MySessionAnswers, Reset
    <3> QED
      BY <1>0, <1>4, <3>1, <3>2
  <2>3. view' \in Views /\ entered' \in Nat /\ kept' \in [token : BOOLEAN, room : BOOLEAN]
    <3>1. "room" \in Views /\ Portal \in Views
      BY <1>5 DEF Views, SessionViews, InRoom
    <3>2. kept' \in {kept, [kept EXCEPT !.room = FALSE]} /\ entered' \in {entered, entered + 1}
      BY <2>2
    <3>3. [kept EXCEPT !.room = FALSE] \in [token : BOOLEAN, room : BOOLEAN] /\ entered + 1 \in Nat
      <4>1. [kept EXCEPT !.room = FALSE] \in [token : BOOLEAN, room : BOOLEAN]
        BY <1>0
      <4>2. entered + 1 \in Nat
        BY <1>0
      <4> QED
        BY <4>1, <4>2
    <3>4. kept' \in [token : BOOLEAN, room : BOOLEAN]
      BY <1>0, <3>2, <3>3, Zenon
    <3> QED
      BY <1>0, <2>2, <3>1, <3>2, <3>3, <3>4
  <2> QED
    BY <1>0, <1>1, <1>7, <2>1, <2>2, <2>3 DEF LobbyKinds
<1>14. CASE validateAstray
  <2> DEFINE rest == [leftCalls EXCEPT !.session = @ - 1]
             Leaks == leaked' = TRUE /\ leftCalls' = rest /\ UNCHANGED <<kept, view, starts, trail, strayed>>
             TurnedAway == /\ LeavePage(Portal, starts, rest)
                           /\ kept' = [kept EXCEPT !.room = FALSE]
                           /\ UNCHANGED leaked
  <2>1. /\ UNCHANGED <<visitor, checks, notice, beacons, opens, admitted, entered, refused>>
        /\ leftCalls.session > 0
    BY <1>14, Zenon DEF validateAstray
  <2>2. rest \in Calls
    <3> DEFINE m == leftCalls.session - 1
    <3>1. m \in Nat /\ rest = [leftCalls EXCEPT !.session = m]
      BY <1>0, <2>1 DEF Calls
    <3> HIDE DEF m
    <3> QED
      BY <1>0, <3>1 DEF Calls
  <2>3. interview' \in Consents /\ (Leaks \/ TurnedAway)
    <3>1. \/ MySessionAnswers(Leaks, TurnedAway, Leaks)
          \/ Leaks /\ UNCHANGED interview
      BY <1>14 DEF validateAstray
    <3>2. MySessionAnswers(Leaks, TurnedAway, Leaks) => (Leaks \/ TurnedAway) /\ interview' \in {interview, Reset}
      BY DEF MySessionAnswers, Reset
    <3> QED
      BY <1>0, <1>4, <3>1, <3>2
  <2> HIDE DEF rest
  <2>4. /\ WayTyped' /\ \A n \in 1 .. MaxStarts : starts'[n].at = starts[n].at
        /\ kept' \in [token : BOOLEAN, room : BOOLEAN]
    <3>1. CASE Leaks
      BY <1>0, <2>2, <3>1 DEF WayTyped
    <3>2. CASE TurnedAway
      <4>1. kept' \in [token : BOOLEAN, room : BOOLEAN] /\ LeavePage(Portal, starts, rest) /\ leaked' \in BOOLEAN
        BY <1>0, <3>2 DEF WayTyped
      <4> QED
        BY <1>0, <1>5, <2>2, <4>1, PageLeftTypes
    <3> QED
      BY <2>3, <3>1, <3>2
  <2> QED
    BY <1>0, <1>1, <2>1, <2>3, <2>4 DEF LobbyKinds
<1>15. CASE TabHidden \/ EndSession \/ BackButton
  <2>1. /\ kept' = [kept EXCEPT !.room = FALSE] /\ beacons' \in {beacons, TRUE}
        /\ view' \in {"violation", "ending", Portal}
        /\ UNCHANGED <<visitor, checks, notice, starts, interview, opens, admitted, entered, refused, wayVars>>
    BY <1>15 DEF TabHidden, EndSession, BackButton
  <2>2. view' \in Views
    <3>1. {"violation", "ending"} \subseteq Views
      BY DEF Views, SessionViews, InRoom
    <3> QED
      BY <1>5, <2>1, <3>1
  <2>3. kept' \in [token : BOOLEAN, room : BOOLEAN] /\ beacons' \in BOOLEAN
    BY <1>0, <2>1
  <2> QED
    BY <1>0, <1>1, <1>7, <2>1, <2>2, <2>3 DEF LobbyKinds
<1>16. CASE SessionEnded
  <2>1. UNCHANGED <<visitor, checks, notice, interview, opens, admitted, entered, refused>>
    BY <1>16 DEF SessionEnded
  <2>2. /\ WayTyped' /\ kept' \in [token : BOOLEAN, room : BOOLEAN] /\ beacons' \in BOOLEAN
        /\ \A n \in 1 .. MaxStarts : starts'[n].at = starts[n].at
    <3>1. CASE view' = "thanks" /\ UNCHANGED <<kept, starts, beacons, wayVars>>
      <4>1. view' \in Views
        BY <3>1 DEF Views, SessionViews
      <4> QED
        BY <1>0, <1>7, <3>1, <4>1
    <3>2. CASE LeaveDocument(Portal, FALSE, FALSE)
      BY <1>0, <1>3, <1>5, <3>2, DocumentLeftTypes
    <3> QED
      BY <1>16, <3>1, <3>2 DEF SessionEnded
  <2> QED
    BY <1>0, <1>1, <2>1, <2>2 DEF LobbyKinds
<1>17. CASE HeaderLink \/ SessionLost \/ CodeVerified
  <2>1. PICK to \in {"home", "login", "loading"} : LeavePage(to, starts, leftCalls)
    BY <1>17 DEF HeaderLink, SessionLost, CodeVerified
  <2>2. /\ UNCHANGED <<kept, interview, beacons, admitted, entered, refused, leaked>>
        /\ opens' = opens \/ Opened
        /\ visitor' \in {visitor, [visitor EXCEPT !.signed = FALSE], [visitor EXCEPT !.signed = TRUE]}
        /\ checks' \in {checks, Unchecked} /\ notice' \in {notice, FALSE}
    BY <1>17 DEF HeaderLink, SessionLost, CodeVerified
  <2>3. visitor' \in [link : BOOLEAN, account : BOOLEAN, signed : BOOLEAN]
    BY <1>0, <2>2 DEF LobbyKinds
  <2>4. WayTyped' /\ \A n \in 1 .. MaxStarts : starts'[n].at = starts[n].at
    BY <1>0, <1>5, <2>1, <2>2, PageLeftTypes, TypesOfTheWay
  <2>5. /\ checks' \in [browser : Checks, mic : Checks, consent : BOOLEAN] /\ notice' \in BOOLEAN
        /\ opens' \in 0 .. MaxOpens
    BY <1>0, <1>2, <1>3, <2>2 DEF LobbyKinds
  <2> QED
    BY <1>0, <1>1, <2>2, <2>3, <2>4, <2>5 DEF LobbyKinds
<1>18. CASE BeaconArrives \/ InterviewOver
  <2>1. interview' \in Consents /\ beacons' \in BOOLEAN
    BY <1>0, <1>18 DEF BeaconArrives, InterviewOver, Consents
  <2>2. UNCHANGED <<visitor, kept, view, checks, notice, starts, opens, admitted, entered, refused, wayVars>>
    BY <1>18 DEF BeaconArrives, InterviewOver
  <2> QED
    BY <1>0, <1>1, <1>6, <2>1, <2>2 DEF LobbyKinds
<1>19. CASE UNCHANGED lobbyVars
  BY <1>0, <1>1, <1>6, <1>19 DEF lobbyVars, LobbyKinds
<1> QED
  BY <1>8, <1>9, <1>10, <1>11, <1>12, <1>13, <1>14, <1>15, <1>16, <1>17, <1>18, <1>19 DEF LobbyNext

LEMMA LobbyTypes == LobbySpec => []LobbyTypeOK
<1>1. LobbyInit => LobbyInv
  <2> SUFFICES ASSUME LobbyInit PROVE LobbyInv
    OBVIOUS
  <2>1. LobbyKinds
    <3>1. /\ visitor \in [link : BOOLEAN, account : BOOLEAN, signed : BOOLEAN]
          /\ kept \in [token : BOOLEAN, room : BOOLEAN]
      BY DEF LobbyInit
    <3>2. interview \in Consents
      BY DEF LobbyInit, Consents
    <3>3. checks \in [browser : Checks, mic : Checks, consent : BOOLEAN]
      BY DEF LobbyInit, Checks, Unchecked
    <3>4. WayTyped
      <4>1. starts \in Runs /\ leftCalls \in Calls
        BY DEF LobbyInit, StartPlaces, Runs, Nobody, Calls
      <4>2. view \in Views /\ leaked = FALSE /\ trail = FALSE /\ strayed = 0
        BY DEF LobbyInit, Views
      <4> QED
        BY <4>1, <4>2 DEF WayTyped
    <3>5. /\ notice \in BOOLEAN /\ beacons \in BOOLEAN /\ refused = "none"
          /\ opens = 0 /\ admitted = 0 /\ entered = 0
      BY Zenon DEF LobbyInit
    <3>6. 0 \in 0 .. MaxOpens
      BY LobbyAssumption
    <3> QED
      BY <3>1, <3>2, <3>3, <3>4, <3>5, <3>6 DEF LobbyKinds
  <2>2. Roomless = 1 .. MaxStarts /\ admitted = 0
    BY DEF LobbyInit, Roomless
  <2>3. Cardinality(Roomless) = MaxStarts
    BY <2>2, LobbyAssumption, FS_Interval
  <2> QED
    BY <2>1, <2>2, <2>3, LobbyAssumption DEF LobbyInv, StartsCounted
<1>2. LobbyInv /\ [LobbyNext]_lobbyVars => LobbyInv'
  BY LobbyStarts, LobbyPages
<1>3. LobbyInv => LobbyTypeOK
  <2> SUFFICES ASSUME LobbyInv PROVE LobbyTypeOK
    OBVIOUS
  <2>1. admitted \in 0 .. MaxStarts
    BY RoomlessFinite, LobbyAssumption DEF LobbyInv, LobbyKinds, StartsCounted
  <2> QED
    BY <2>1 DEF LobbyInv, LobbyKinds, WayTyped, Consents, Calls, Runs, LobbyTypeOK, StartPlaces
<1> QED
  BY <1>1, <1>2, <1>3, PTL DEF LobbySpec

-----------------------------------------------------------------------------
(* Whatever page it is, and whatever is done on it, its variables have the  *)
(* types its module states.                                                 *)
THEOREM PagesTypes == WebSpec => []WebTypeOK
<1>1. /\ TableSpec => []TableTypeOK
      /\ MailerSpec => []MailerTypeOK
      /\ WidgetSpec => []WidgetTypeOK
  BY TableInvariant, MailerInvariant, WidgetInitially, WidgetStep, TypesOfInvariants, PTL DEF WidgetSpec
<1>2. /\ SettingsSpec => []SettingsTypeOK
      /\ ReportSpec => []ReportTypeOK
      /\ SignInSpec => []SignInTypeOK
      /\ PostingSpec => []PostingTypeOK
  BY SettingsInitially, SettingsStep, ReportInitially, ReportStep, SignInInitially, SignInStep,
     PostingInitially, PostingStep, TypesOfInvariants, PTL
  DEF SettingsSpec, ReportSpec, SignInSpec, PostingSpec
<1>3. /\ TemplatesSpec => []TemplatesTypeOK
      /\ JobListSpec => []JobListTypeOK
      /\ ApplyingSpec => []ApplyingTypeOK
  BY TemplatesInitially, TemplatesStep, JobListInitially, JobListStep, ApplyingInitially, ApplyingStep,
     TypesOfInvariants, PTL
  DEF TemplatesSpec, JobListSpec, ApplyingSpec
<1>4. WebInit => desk \in Desks
  BY DEF WebInit
<1>5. desk \in Desks /\ [WebNext]_webVars => (desk \in Desks)'
  BY DEF WebNext, webVars
<1>6. WebSpec => [](desk \in Desks)
  BY <1>4, <1>5, PTL DEF WebSpec
<1>7. /\ desk \in Desks /\ TableTypeOK /\ MailerTypeOK /\ WidgetTypeOK /\ AccessTypeOK /\ SettingsTypeOK
      /\ ReportTypeOK /\ SignInTypeOK /\ PostingTypeOK /\ FormsTypeOK /\ TemplatesTypeOK
      /\ JobListTypeOK /\ ApplyingTypeOK /\ LobbyTypeOK /\ RoomTypeOK
      => WebTypeOK
  BY DEF WebTypeOK
<1> QED
  BY <1>1, <1>2, <1>3, <1>6, <1>7, PagesKeepTheirSpecs, AccessTypes, FormsTypes, LobbyTypes, RoomTypes, PTL

(* In the composition, too, whose page a behaviour is of: everything that   *)
(* the pages' modules promise holds.                                        *)
THEOREM PagesKeepTheirPromises ==
    WebSpec => /\ []ShownIsTrueUnlessRaced /\ PushedBackOnlyByStaleRow
               /\ []DraftGoesToItsAudience /\ []OneCopyUnlessAnswerLost
               /\ []TwiceOnlyIfAnswerLost /\ []ListIsTrue /\ []SavedIsStored /\ []TranscriptsAreComplete
               /\ []NobodyIsLeftBehind /\ ChangesAreMeant /\ []AnswersAreTrue /\ []ResumeIsTheOneNamed
               /\ []SubmittedFits /\ []TemplatesAreListed /\ []JobListIsCurrent
               /\ []NoReentry /\ []CountdownIsTheAgents /\ []EndsOnce
BY PagesKeepTheirSpecs, NoRowStaysOld, OnlyStaleRowsPushBack, MailsReachTheirAudience, MailsAreSentOnce,
   RequestsAreRepeatedForCause, ListsAreTrue, SavedIsTrue, TranscriptsAreWhole, SignInKeepsNobody, WritesAreMeant,
   ApplyingAnswersTrue, ApplyingResumeNamed, SubmissionsFit, TemplatesKept, QuietListIsCurrent,
   LobbyNoReentry, RoomCountsWithTheAgent, RoomEndsOnce, PTL
=============================================================================
