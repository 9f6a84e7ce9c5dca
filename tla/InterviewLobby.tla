--------------------------- MODULE InterviewLobby ---------------------------
(***************************************************************************)
(* A candidate's way into the interview and out of it, in one browser tab: *)
(* the lobby with its checklist and Start button, the session page that    *)
(* shows the room, and what the tab's session storage carries from one to  *)
(* the other.  The candidate came by the invitation's link, by the portal  *)
(* of an account, or by both.                                              *)
(*                                                                         *)
(* The server's half is InterviewSession's; here it is what the pages need:*)
(* whether the session is pending, in progress or closed, and whether the  *)
(* candidate's consent is on record.  Start stays enabled while a start is *)
(* under way, so two may be.                                               *)
(***************************************************************************)
EXTENDS Naturals

CONSTANTS
    MaxStarts,  \* bound: clicks on Start
    MaxOpens,   \* bound: times a page of the interview is opened
    Mishaps     \* what may go wrong: a "call" fails, an "unload" handler never runs

ASSUME LobbyAssumption ==
    MaxStarts \in Nat /\ MaxOpens \in Nat /\ Mishaps \subseteq {"call", "unload"}

Checks == {"pending", "checking", "passed", "failed"}
LobbyViews == {"loading", "checklist", "none"}
InRoom == {"room", "violation", "ending"}
SessionViews == {"checking", "thanks"} \union InRoom
Views == LobbyViews \union SessionViews \union {"home", "login", "portal"}

VARIABLES
    visitor,  \* has the candidate the link, an account?  signed in just now?
    kept,     \* sessionStorage: the invite token, the room's token
    view,     \* what the tab shows
    checks,   \* browser, microphone, consent
    notice,   \* "Failed to start the interview"
    starts,   \* each run of handleReady: how far it is, where its page is
    leftCalls,     \* my-session calls of lobbies and session pages that were left
    leaked,   \* has a session page that was left put up its unload handler?
    trail,    \* is a session page in the history of this document?
    interview,\* the session row: its status, is consent on record?
    beacons,  \* is an unload beacon on its way?
    opens,    \* counter for the bound
    admitted, \* history: rooms create-room has answered with
    entered,  \* history: times the room was shown
    strayed,  \* history: times the room was left for another page of the site
    refused   \* history: what create-room last refused: a status, or "fault"

wayVars == <<leftCalls, leaked, trail, strayed>>
lobbyVars == <<visitor, kept, view, checks, notice, starts, interview, beacons, opens,
               admitted, entered, refused, wayVars>>

Unchecked == [browser |-> "checking", mic |-> "pending", consent |-> FALSE]
Nobody == [lobby |-> 0, session |-> 0]

-----------------------------------------------------------------------------
(* Going to another page.                                                   *)

One(condition) == IF condition THEN 1 ELSE 0

\* The router swaps the page and runs no unload handler.  The calls of the
\* page that is left go on, and do not ask whether it is still shown.
LeavePage(to, runs, rest) ==
    /\ view' = to
    /\ starts' = [n \in 1 .. MaxStarts |-> IF runs[n].page = "shown" THEN [runs[n] EXCEPT !.page = "left"]
                                          ELSE runs[n]]
    /\ leftCalls' = [lobby |-> rest.lobby + One(view = "loading"), session |-> rest.session + One(view = "checking" /\ kept.room)]
    /\ trail' = (trail \/ to = "checking")
    /\ strayed' = strayed + One(view = "room")

\* A new document: whatever ran in the old one is gone.  First the unload
\* handler, if there is one and the browser runs it, takes the room's token
\* and, in an active session, sends the beacon.
LeaveDocument(to, byLink, active) ==
    /\ view' = to
    /\ starts' = [n \in 1 .. MaxStarts |-> [starts[n] EXCEPT !.page = "gone"]]
    /\ leftCalls' = Nobody
    /\ leaked' = FALSE
    /\ trail' = (to = "checking")
    /\ \E handled \in {TRUE} \union (IF "unload" \in Mishaps THEN {FALSE} ELSE {}) :
         LET listens == view \in InRoom \union {"thanks"} \/ leaked IN
         /\ kept' = [token |-> kept.token \/ byLink, room |-> kept.room /\ ~(handled /\ listens)]
         /\ beacons' = (beacons \/ (handled /\ active))
    /\ UNCHANGED strayed

Opened == opens < MaxOpens /\ opens' = opens + 1

-----------------------------------------------------------------------------
(* The session as my-session answers it.  It takes a session in progress    *)
(* that has no answer yet for one that never started.                       *)

Credentials == kept.token \/ visitor.signed

\* The portal wants a signed-in candidate.
Portal == IF visitor.signed THEN "portal" ELSE "login"

MySessionAnswers(offered, forbidden, missing) ==
    \/ /\ interview.status # "closed" /\ offered
       /\ interview' = IF interview.status = "pending" THEN interview
                       ELSE [status |-> "pending", consent |-> FALSE]
    \/ interview.status = "closed" /\ forbidden /\ UNCHANGED interview
    \/ interview.status = "closed" /\ ~kept.token /\ missing /\ UNCHANGED interview
    \/ "call" \in Mishaps /\ missing /\ UNCHANGED interview

-----------------------------------------------------------------------------
(* The lobby.                                                               *)

\* By the invitation or its address; or, swapped in by the router, from the
\* portal, or by Back and Forward.
OpenLobby(byLink, swapped) ==
    /\ Opened
    /\ byLink => visitor.link
    /\ \/ /\ swapped /\ ~byLink /\ view \notin LobbyViews \union InRoom
          /\ LeavePage("loading", starts, leftCalls)
          /\ UNCHANGED <<kept, leaked, beacons>>
       \/ ~swapped /\ LeaveDocument("loading", byLink, view \in InRoom)
    /\ checks' = Unchecked
    /\ notice' = FALSE
    /\ UNCHANGED <<visitor, interview, admitted, entered, refused>>

fetchPendingSession ==
    /\ view = "loading"
    /\ \/ ~Credentials /\ view' = "login" /\ UNCHANGED interview
       \/ Credentials /\ MySessionAnswers(view' = "checklist", view' = Portal, view' = "none")
    /\ UNCHANGED <<visitor, kept, checks, notice, starts, beacons, opens, admitted, entered, refused, wayVars>>

\* The answer to a lobby that was left still sends the tab to another page.
fetchAstray ==
    /\ leftCalls.lobby > 0
    /\ LET rest == [leftCalls EXCEPT !.lobby = @ - 1]
           Stays == leftCalls' = rest /\ UNCHANGED <<view, starts, trail, strayed>>
       IN  \/ ~Credentials /\ LeavePage("login", starts, rest) /\ UNCHANGED interview
           \/ Credentials /\ MySessionAnswers(Stays, LeavePage(Portal, starts, rest), Stays)
    /\ UNCHANGED <<visitor, kept, checks, notice, beacons, opens, admitted, entered, refused, leaked>>

\* A modern browser is asked for the microphone at once.
BrowserChecked ==
    /\ view = "checklist" /\ checks.browser = "checking"
    /\ \/ checks' = [checks EXCEPT !.browser = "passed", !.mic = "checking"]
       \/ checks' = [checks EXCEPT !.browser = "failed"]
    /\ UNCHANGED <<visitor, kept, view, notice, starts, interview, beacons, opens, admitted, entered, refused, wayVars>>

MicrophoneAnswered ==
    /\ view = "checklist" /\ checks.mic = "checking"
    /\ \E answer \in {"passed", "failed"} : checks' = [checks EXCEPT !.mic = answer]
    /\ UNCHANGED <<visitor, kept, view, notice, starts, interview, beacons, opens, admitted, entered, refused, wayVars>>

requestMicrophone ==
    /\ view = "checklist" /\ checks.mic = "failed"
    /\ checks' = [checks EXCEPT !.mic = "checking"]
    /\ UNCHANGED <<visitor, kept, view, notice, starts, interview, beacons, opens, admitted, entered, refused, wayVars>>

setConsentChecked ==
    /\ view = "checklist"
    /\ checks' = [checks EXCEPT !.consent = ~@]
    /\ UNCHANGED <<visitor, kept, view, notice, starts, interview, beacons, opens, admitted, entered, refused, wayVars>>

canStart == checks.mic = "passed" /\ checks.consent

-----------------------------------------------------------------------------
(* Start: record the consent of a signed-in candidate, create the room, go. *)

StartAt(n, at) == starts' = [starts EXCEPT ![n].at = at]

handleReady(n) ==
    /\ view = "checklist" /\ canStart
    /\ starts[n].at = "idle" /\ \A m \in 1 .. n - 1 : starts[m].at # "idle"
    /\ starts' = [starts EXCEPT ![n] = [at |-> IF kept.token THEN "create" ELSE "consent", page |-> "shown"]]
    /\ notice' = FALSE
    /\ UNCHANGED <<visitor, kept, view, checks, interview, beacons, opens, admitted, entered, refused, wayVars>>

\* An update that the database refuses, or of no row, is not looked at.
ConsentRecorded(n) ==
    /\ starts[n].at = "consent"
    /\ StartAt(n, "create")
    /\ \/ visitor.signed /\ interview' = [interview EXCEPT !.consent = TRUE]
       \/ (~visitor.signed \/ "call" \in Mishaps) /\ UNCHANGED interview
    /\ UNCHANGED <<visitor, kept, view, checks, notice, beacons, opens, admitted, entered, refused, wayVars>>

\* create-room wants the Authorization header, which only signing in gives.
MayCreate == visitor.signed /\ interview.status = "pending"

CreateRoom(n) ==
    /\ starts[n].at = "create"
    /\ \/ MayCreate /\ StartAt(n, "activate") /\ UNCHANGED refused
       \/ ~MayCreate /\ StartAt(n, "refused") /\ refused' = interview.status
       \/ "call" \in Mishaps /\ StartAt(n, "refused") /\ refused' = "fault"
    /\ UNCHANGED <<visitor, kept, view, checks, notice, interview, beacons, opens, admitted, entered, wayVars>>

\* The room is there: the row is written whatever it has become meanwhile.
RoomActivated(n) ==
    /\ starts[n].at = "activate"
    /\ StartAt(n, "ready")
    /\ interview' = [status |-> "in_progress", consent |-> TRUE]
    /\ admitted' = admitted + 1
    /\ UNCHANGED <<visitor, kept, view, checks, notice, beacons, opens, entered, refused, wayVars>>

\* Whatever the tab shows by then, it goes to the session page, unless it
\* is there already; only a new document has forgotten the start.
StartSucceeds(n) ==
    /\ starts[n].at = "ready"
    /\ LET runs == [starts EXCEPT ![n].at = "over"] IN
       \/ /\ starts[n].page = "gone"
          /\ starts' = runs
          /\ UNCHANGED <<kept, view, leftCalls, trail, strayed>>
       \/ /\ starts[n].page # "gone" /\ view \in SessionViews
          /\ kept' = [kept EXCEPT !.room = TRUE]
          /\ starts' = runs
          /\ UNCHANGED <<view, leftCalls, trail, strayed>>
       \/ /\ starts[n].page # "gone" /\ view \notin SessionViews
          /\ kept' = [kept EXCEPT !.room = TRUE]
          /\ LeavePage("checking", runs, leftCalls)
    /\ UNCHANGED <<visitor, checks, notice, interview, beacons, opens, admitted, entered, refused, leaked>>

StartFails(n) ==
    /\ starts[n].at = "refused"
    /\ StartAt(n, "over")
    /\ notice' = (notice \/ starts[n].page = "shown")
    /\ UNCHANGED <<visitor, kept, view, checks, interview, beacons, opens, admitted, entered, refused, wayVars>>

-----------------------------------------------------------------------------
(* The session page.                                                        *)

\* By its address or a reload; or, swapped in by the router, by Back and
\* Forward.  (Back within the room is handled: see BackButton.)
OpenSession(swapped) ==
    /\ Opened
    /\ \/ /\ swapped /\ trail /\ view \notin SessionViews
          /\ LeavePage("checking", starts, leftCalls)
          /\ UNCHANGED <<kept, leaked, beacons>>
       \/ ~swapped /\ LeaveDocument("checking", FALSE, view \in InRoom)
    /\ UNCHANGED <<visitor, checks, notice, interview, admitted, entered, refused>>

\* No room's token: back to the portal.  Only a 403 turns a candidate away,
\* not the 401 of one who has signed out.
validateAndInit ==
    /\ view = "checking"
    /\ LET Enters == view' = "room" /\ entered' = entered + 1 /\ UNCHANGED kept
           TurnedAway == view' = Portal /\ kept' = [kept EXCEPT !.room = FALSE] /\ UNCHANGED entered
       IN  \/ ~kept.room /\ view' = Portal /\ UNCHANGED <<kept, interview, entered>>
           \/ kept.room /\ Credentials /\ MySessionAnswers(Enters, TurnedAway, Enters)
           \/ kept.room /\ ~Credentials /\ Enters /\ UNCHANGED interview
    /\ UNCHANGED <<visitor, checks, notice, starts, beacons, opens, admitted, refused, wayVars>>

\* The answer to a session page that was left: its unload handler is put up
\* for good, or the tab is sent to the portal.
validateAstray ==
    /\ leftCalls.session > 0
    /\ LET rest == [leftCalls EXCEPT !.session = @ - 1]
           Leaks == leaked' = TRUE /\ leftCalls' = rest /\ UNCHANGED <<kept, view, starts, trail, strayed>>
           TurnedAway == /\ LeavePage(Portal, starts, rest)
                         /\ kept' = [kept EXCEPT !.room = FALSE]
                         /\ UNCHANGED leaked
       IN  \/ Credentials /\ MySessionAnswers(Leaks, TurnedAway, Leaks)
           \/ ~Credentials /\ Leaks /\ UNCHANGED interview
    /\ UNCHANGED <<visitor, checks, notice, beacons, opens, admitted, entered, refused>>

\* Hiding the tab: the agent is told, and the token is gone at once.
TabHidden ==
    /\ view = "room"
    /\ view' = "violation"
    /\ kept' = [kept EXCEPT !.room = FALSE]
    /\ UNCHANGED <<visitor, checks, notice, starts, interview, beacons, opens, admitted, entered, refused, wayVars>>

(* Mutant: the room's token stays in the storage.                           *)
EndSessionMutant ==
    /\ view \in {"room", "violation"}
    /\ view' = "ending"
    /\ UNCHANGED <<visitor, kept, checks, notice, starts, interview, beacons, opens, admitted, entered, refused, wayVars>>

\* The End button, the agent's last word, or the loss of the room.
EndSession ==
    /\ view \in {"room", "violation"}
    /\ view' = "ending"
    /\ kept' = [kept EXCEPT !.room = FALSE]
    /\ UNCHANGED <<visitor, checks, notice, starts, interview, beacons, opens, admitted, entered, refused, wayVars>>

\* onSessionEnd, whatever end-session answered.  Without the link's token
\* the portal is loaded, and the session is active no more.
SessionEnded ==
    /\ view = "ending"
    /\ \/ kept.token /\ view' = "thanks" /\ UNCHANGED <<kept, starts, beacons, wayVars>>
       \/ ~kept.token /\ LeaveDocument(Portal, FALSE, FALSE)
    /\ UNCHANGED <<visitor, checks, notice, interview, opens, admitted, entered, refused>>

\* The Back button is answered with a beacon and the portal.
BackButton ==
    /\ view \in InRoom
    /\ view' = Portal
    /\ kept' = [kept EXCEPT !.room = FALSE]
    /\ beacons' = TRUE
    /\ UNCHANGED <<visitor, checks, notice, starts, interview, opens, admitted, entered, refused, wayVars>>

-----------------------------------------------------------------------------
(* The header above every page of the interview, and signing in and out.    *)

\* The name of the site is a link to its home page.
HeaderLink ==
    /\ view \in LobbyViews \union SessionViews
    /\ LeavePage("home", starts, leftCalls)
    /\ UNCHANGED <<visitor, kept, checks, notice, interview, beacons, opens, admitted, entered, refused, leaked>>

\* Sign Out, or a refresh of the tokens that fails.
SessionLost ==
    /\ visitor.signed
    /\ visitor' = [visitor EXCEPT !.signed = FALSE]
    /\ \E to \in {"home", "login"} : LeavePage(to, starts, leftCalls)
    /\ UNCHANGED <<kept, checks, notice, interview, beacons, opens, admitted, entered, refused, leaked>>

CodeVerified ==
    /\ Opened
    /\ view = "login" /\ visitor.account /\ ~visitor.signed
    /\ visitor' = [visitor EXCEPT !.signed = TRUE]
    /\ LeavePage("loading", starts, leftCalls)
    /\ checks' = Unchecked
    /\ notice' = FALSE
    /\ UNCHANGED <<kept, interview, beacons, admitted, entered, refused, leaked>>

-----------------------------------------------------------------------------
(* The session, without the candidate.                                      *)

BeaconArrives ==
    /\ beacons /\ beacons' = FALSE
    /\ interview' = IF interview.status = "in_progress" THEN [interview EXCEPT !.status = "closed"] ELSE interview
    /\ UNCHANGED <<visitor, kept, view, checks, notice, starts, opens, admitted, entered, refused, wayVars>>

\* The agent's finish(), or a member of staff, closes the session.
InterviewOver ==
    /\ interview.status # "closed" /\ admitted > 0
    /\ interview' = [interview EXCEPT !.status = "closed"]
    /\ UNCHANGED <<visitor, kept, view, checks, notice, starts, beacons, opens, admitted, entered, refused, wayVars>>

-----------------------------------------------------------------------------
LobbyInit ==
    /\ visitor \in {v \in [link : BOOLEAN, account : BOOLEAN, signed : BOOLEAN] :
                    (v.link \/ v.account) /\ (v.signed => v.account)}
    /\ kept = [token |-> FALSE, room |-> FALSE]
    /\ view = "portal"
    /\ checks = Unchecked
    /\ notice = FALSE
    /\ starts = [n \in 1 .. MaxStarts |-> [at |-> "idle", page |-> "gone"]]
    /\ leftCalls = Nobody /\ leaked = FALSE /\ trail = FALSE
    /\ interview = [status |-> "pending", consent |-> FALSE]
    /\ beacons = FALSE
    /\ opens = 0 /\ admitted = 0 /\ entered = 0 /\ strayed = 0
    /\ refused = "none"

LobbyNext ==
    \/ \E byLink, swapped \in BOOLEAN : OpenLobby(byLink, swapped)
    \/ fetchPendingSession \/ fetchAstray
    \/ BrowserChecked \/ MicrophoneAnswered \/ requestMicrophone \/ setConsentChecked
    \/ \E n \in 1 .. MaxStarts :
         handleReady(n) \/ ConsentRecorded(n) \/ CreateRoom(n) \/ RoomActivated(n)
           \/ StartSucceeds(n) \/ StartFails(n)
    \/ \E swapped \in BOOLEAN : OpenSession(swapped)
    \/ validateAndInit \/ validateAstray \/ TabHidden \/ EndSession \/ SessionEnded \/ BackButton
    \/ HeaderLink \/ SessionLost \/ CodeVerified
    \/ BeaconArrives \/ InterviewOver

LobbySpec == LobbyInit /\ [][LobbyNext]_lobbyVars

-----------------------------------------------------------------------------
(* Properties.                                                              *)

LobbyTypeOK ==
    /\ visitor \in [link : BOOLEAN, account : BOOLEAN, signed : BOOLEAN]
    /\ kept \in [token : BOOLEAN, room : BOOLEAN]
    /\ view \in Views
    /\ checks \in [browser : Checks, mic : Checks, consent : BOOLEAN]
    /\ notice \in BOOLEAN /\ beacons \in BOOLEAN
    /\ starts \in [1 .. MaxStarts -> [at : {"idle", "consent", "create", "activate", "ready", "refused", "over"},
                                      page : {"shown", "left", "gone"}]]
    /\ leftCalls \in [lobby : Nat, session : Nat] /\ leaked \in BOOLEAN /\ trail \in BOOLEAN
    /\ interview \in [status : {"pending", "in_progress", "closed"}, consent : BOOLEAN]
    /\ opens \in 0 .. MaxOpens /\ admitted \in 0 .. MaxStarts /\ entered \in Nat /\ strayed \in Nat
    /\ refused \in {"none", "pending", "in_progress", "closed", "fault"}

\* A room's token lets a candidate in once.  Hiding the tab, ending, Back, a
\* reload and another address each take it away, in whatever order two starts
\* and the answers to pages already left come in: the room is shown again only
\* if it was left for another page of the site -- by the header's link, by
\* signing out, or because a late answer sent the tab there -- for which
\* nothing takes the token.  (A browser that ran no unload handler is the
\* other exception.)
NoReentry ==
    "unload" \notin Mishaps =>
        entered + One(kept.room /\ view # "room") <= admitted + strayed

\* create-room refuses a candidate whose session is pending only when
\* something fails.  Violated: a candidate who came by the link and has no
\* account is let into the lobby, and refused for want of a header.
LinkIsEnough == refused # "pending"
=============================================================================
