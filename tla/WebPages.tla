------------------------------ MODULE WebPages ------------------------------
(***************************************************************************)
(* The web pages, each on its own.  They share no state in the browser, and *)
(* each one's module has the part of the database it reads and writes: what *)
(* one does never changes what another can do.  So a behaviour is that of   *)
(* one page, and the variables of the others keep their first values.       *)
(***************************************************************************)
EXTENDS CandidateTable, CandidateMailer, StaffWidgets, AccessLists, StaffSettings,
        CandidateReport, SignIn, JobPosting, JobForms, Templates, JobList, Applying,
        InterviewLobby, InterviewRoom

VARIABLE desk  \* the page of the behaviour

Desks == {"table", "mailer", "widgets", "access", "settings", "report", "sign-in", "posting",
          "forms", "templates", "jobs", "applying", "lobby", "room"}

(* The pages whose turn it is not are at one of their first states.         *)
WebInit ==
    /\ desk \in Desks
    /\ TableInit
    /\ MailerInit
    /\ WidgetInit /\ (desk # "widgets" => which = "rescore")
    /\ AccessInit /\ (desk # "access" => list = "keys" /\ viewer = "admin")
    /\ SettingsInit /\ (desk # "settings" => form = "usage" /\ isAdmin /\ org.threshold = Unset /\ org.template = Unset)
    /\ ReportInit /\ (desk # "report" => decision.first = "applied")
    /\ SignInInit /\ (desk # "sign-in" => person = "admin")
    /\ PostingInit /\ (desk # "posting" => job = [status |-> "draft", closes |-> 0])
    /\ FormsInit /\ (desk # "forms" => formKind = "job")
    /\ TemplatesInit /\ (desk # "templates" => inUse = {})
    /\ JobListInit /\ (desk # "jobs" => jobPosts = [j \in Jobs |-> [status |-> "draft", closes |-> Never]])
    /\ ApplyingInit /\ (desk # "applying" => vacancy = "open")
    /\ LobbyInit /\ (desk # "lobby" => visitor.link /\ visitor.account /\ visitor.signed)
    /\ RoomInit

webVars ==
    <<desk, tableVars, mailerVars, widgetVars, accessVars, settingsVars, reportVars,
      signInVars, postingVars, formsVars, templatesVars, jobListVars, applyingVars, lobbyVars,
      roomVars>>

WebNext ==
    \/ /\ desk = "table" /\ TableNext
       /\ UNCHANGED <<desk, mailerVars, widgetVars, accessVars, settingsVars, reportVars,
                      signInVars, postingVars, formsVars, templatesVars, jobListVars,
                      applyingVars, lobbyVars, roomVars>>
    \/ /\ desk = "mailer" /\ MailerNext
       /\ UNCHANGED <<desk, tableVars, widgetVars, accessVars, settingsVars, reportVars,
                      signInVars, postingVars, formsVars, templatesVars, jobListVars,
                      applyingVars, lobbyVars, roomVars>>
    \/ /\ desk = "widgets" /\ WidgetNext
       /\ UNCHANGED <<desk, tableVars, mailerVars, accessVars, settingsVars, reportVars,
                      signInVars, postingVars, formsVars, templatesVars, jobListVars,
                      applyingVars, lobbyVars, roomVars>>
    \/ /\ desk = "access" /\ AccessNext
       /\ UNCHANGED <<desk, tableVars, mailerVars, widgetVars, settingsVars, reportVars,
                      signInVars, postingVars, formsVars, templatesVars, jobListVars,
                      applyingVars, lobbyVars, roomVars>>
    \/ /\ desk = "settings" /\ SettingsNext
       /\ UNCHANGED <<desk, tableVars, mailerVars, widgetVars, accessVars, reportVars,
                      signInVars, postingVars, formsVars, templatesVars, jobListVars,
                      applyingVars, lobbyVars, roomVars>>
    \/ /\ desk = "report" /\ ReportNext
       /\ UNCHANGED <<desk, tableVars, mailerVars, widgetVars, accessVars, settingsVars,
                      signInVars, postingVars, formsVars, templatesVars, jobListVars,
                      applyingVars, lobbyVars, roomVars>>
    \/ /\ desk = "sign-in" /\ SignInNext
       /\ UNCHANGED <<desk, tableVars, mailerVars, widgetVars, accessVars, settingsVars,
                      reportVars, postingVars, formsVars, templatesVars, jobListVars,
                      applyingVars, lobbyVars, roomVars>>
    \/ /\ desk = "posting" /\ PostingNext
       /\ UNCHANGED <<desk, tableVars, mailerVars, widgetVars, accessVars, settingsVars,
                      reportVars, signInVars, formsVars, templatesVars, jobListVars,
                      applyingVars, lobbyVars, roomVars>>
    \/ /\ desk = "forms" /\ FormsNext
       /\ UNCHANGED <<desk, tableVars, mailerVars, widgetVars, accessVars, settingsVars,
                      reportVars, signInVars, postingVars, templatesVars, jobListVars,
                      applyingVars, lobbyVars, roomVars>>
    \/ /\ desk = "templates" /\ TemplatesNext
       /\ UNCHANGED <<desk, tableVars, mailerVars, widgetVars, accessVars, settingsVars,
                      reportVars, signInVars, postingVars, formsVars, jobListVars,
                      applyingVars, lobbyVars, roomVars>>
    \/ /\ desk = "jobs" /\ JobListNext
       /\ UNCHANGED <<desk, tableVars, mailerVars, widgetVars, accessVars, settingsVars,
                      reportVars, signInVars, postingVars, formsVars, templatesVars,
                      applyingVars, lobbyVars, roomVars>>
    \/ /\ desk = "applying" /\ ApplyingNext
       /\ UNCHANGED <<desk, tableVars, mailerVars, widgetVars, accessVars, settingsVars,
                      reportVars, signInVars, postingVars, formsVars, templatesVars,
                      jobListVars, lobbyVars, roomVars>>
    \/ /\ desk = "lobby" /\ LobbyNext
       /\ UNCHANGED <<desk, tableVars, mailerVars, widgetVars, accessVars, settingsVars,
                      reportVars, signInVars, postingVars, formsVars, templatesVars,
                      jobListVars, applyingVars, roomVars>>
    \/ /\ desk = "room" /\ RoomNext
       /\ UNCHANGED <<desk, tableVars, mailerVars, widgetVars, accessVars, settingsVars,
                      reportVars, signInVars, postingVars, formsVars, templatesVars,
                      jobListVars, applyingVars, lobbyVars>>

WebSpec == WebInit /\ [][WebNext]_webVars

-----------------------------------------------------------------------------
(* Properties.                                                              *)

\* Every page's variables have their types.
WebTypeOK ==
    /\ desk \in Desks
    /\ desk = "table"     => TableTypeOK
    /\ desk = "mailer"    => MailerTypeOK
    /\ desk = "widgets"   => WidgetTypeOK
    /\ desk = "access"    => AccessTypeOK
    /\ desk = "settings"  => SettingsTypeOK
    /\ desk = "report"    => ReportTypeOK
    /\ desk = "sign-in"   => SignInTypeOK
    /\ desk = "posting"   => PostingTypeOK
    /\ desk = "forms"     => FormsTypeOK
    /\ desk = "templates" => TemplatesTypeOK
    /\ desk = "jobs"      => JobListTypeOK
    /\ desk = "applying"  => ApplyingTypeOK
    /\ desk = "lobby"     => LobbyTypeOK
    /\ desk = "room"      => RoomTypeOK
=============================================================================
