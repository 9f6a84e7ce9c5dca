------------------------ MODULE CandidatePathProofs -------------------------
(***************************************************************************)
(* Theorems about the pages a candidate goes through, from the sign-in to   *)
(* the interview room, for any number of visits, submissions, starts and    *)
(* rooms.                                                                   *)
(***************************************************************************)
EXTENDS SignIn, Applying, InterviewLobby, InterviewRoom, FiniteSets, FiniteSetTheorems, TLAPS

-----------------------------------------------------------------------------
(* SignIn: nobody is left behind on a page that needs a session.  Two       *)
(* things carry it: whoever takes the tokens away starts a navigation or    *)
(* has yet to leave, and only Rendered ends one, after the layout has asked *)
(* for the user.                                                            *)

SignInInv == SignInTypeOK /\ NobodyIsLeftBehind

LEMMA SignInInitially == SignInInit => SignInInv
<1> SUFFICES ASSUME SignInInit PROVE SignInInv
  OBVIOUS
<1>1. SignInTypeOK
  BY DEF SignInInit, SignInTypeOK, NoRequest, NewForm, Paths, PublicPages, AdminPages
<1>2. NobodyIsLeftBehind
  BY DEF SignInInit, NobodyIsLeftBehind, AdminPages
<1> QED BY <1>1, <1>2 DEF SignInInv

-----------------------------------------------------------------------------
(* A navigation that is under way satisfies the invariant whatever else     *)
(* the step did, and its types are those of its address.                    *)

LEMMA UnderWay == ASSUME request'.at # "none" PROVE NobodyIsLeftBehind'
  BY DEF NobodyIsLeftBehind

LEMMA GoingTo ==
    ASSUME NEW p \in Paths, GoTo(p)
    PROVE  /\ request' \in [to : Paths, at : {"none", "middleware", "layout"}]
           /\ request'.at # "none"
  BY DEF GoTo

LEMMA Passing ==
    ASSUME SignInTypeOK, request' = [request EXCEPT !.at = "layout"]
    PROVE  /\ request' \in [to : Paths, at : {"none", "middleware", "layout"}]
           /\ request'.at # "none"
  BY DEF SignInTypeOK

LEMMA OneMore == ASSUME visits \in Nat, visits' = visits + 1 PROVE visits' \in Nat
  OBVIOUS

\* Every address the code navigates to by itself is one of the paths.
LEMMA Addresses ==
    /\ \A p \in Paths : LoginFor(p) \in Paths
    /\ LoginAfterwards \in Paths
    /\ {"/", "/dashboard", "/client", "/interview", "/auth/login",
        "/auth/login?type=candidate", "/auth/login?type=client"} \subseteq Paths
  BY DEF LoginFor, LoginAfterwards, Paths, PublicPages, AdminPages

-----------------------------------------------------------------------------
LEMMA SignInStep == SignInInv /\ [SignInNext]_signInVars => SignInInv'
<1> SUFFICES ASSUME SignInInv, [SignInNext]_signInVars PROVE SignInInv'
  OBVIOUS
<1>types. SignInTypeOK /\ NobodyIsLeftBehind
  BY DEF SignInInv
<1> USE <1>types, Addresses
\* What a step that starts or continues a navigation has to show.
<1>nav. ASSUME person' = person, page' = page, visits' \in Nat,
               token' \in {"good", "dead", "none"},
               leaving' \in {"no", "signing out", "signed out"},
               login' \in [otpSent : BOOLEAN, loading : BOOLEAN, error : BOOLEAN],
               request' \in [to : Paths, at : {"none", "middleware", "layout"}],
               request'.at # "none"
        PROVE  SignInInv'
  BY <1>nav, UnderWay DEF SignInInv, SignInTypeOK
\* And one that leaves the navigation, the page and the sign-out button alone.
<1>form. ASSUME UNCHANGED <<person, page, request, leaving>>, visits' \in Nat,
                token' \in {"good", "dead", "none"}, token' = "none" => token = "none",
                login' \in [otpSent : BOOLEAN, loading : BOOLEAN, error : BOOLEAN]
         PROVE  SignInInv'
  BY <1>form DEF SignInInv, SignInTypeOK, NobodyIsLeftBehind
<1>1. CASE \E p \in Paths : Visit(p)
  BY <1>1, <1>nav, GoingTo DEF Visit, SignInTypeOK
<1>2. CASE PublicPasses
  BY <1>2, <1>nav, Passing DEF PublicPasses, SignInTypeOK
<1>3. CASE MiddlewareRedirects
  <2>1. request.to \in Paths
    BY DEF SignInTypeOK
  <2>2. LoginFor(request.to) \in Paths /\ GoTo(LoginFor(request.to))
    BY <1>3, <2>1 DEF MiddlewareRedirects, redirectTo
  <2> QED BY <1>3, <2>2, <1>nav, GoingTo DEF MiddlewareRedirects, redirectTo, SignInTypeOK
<1>4. CASE MiddlewarePasses
  BY <1>4, <1>nav, Passing DEF MiddlewarePasses, SignInTypeOK
<1>5. CASE AdminLayoutRedirects \/ CandidateLayoutRedirects \/ ClientLayoutRedirects
  BY <1>5, <1>nav, GoingTo
     DEF AdminLayoutRedirects, CandidateLayoutRedirects, ClientLayoutRedirects, Redirected, SignInTypeOK
<1>6. CASE Rendered
  <2>1. SignInTypeOK'
    BY <1>6 DEF Rendered, SignInTypeOK, NoRequest, NewForm, Paths, PublicPages, AdminPages
  <2>2. page' \in AdminPages \union {"/portal", "/client"} => token' = "good"
    BY <1>6 DEF Rendered, User
  <2> QED BY <2>1, <2>2 DEF SignInInv, NobodyIsLeftBehind
<1>7. CASE handleAdminLogin \/ handleSendOtp \/ handleVerifyOtp
  <2>1. UNCHANGED <<person, token, page, request, leaving>> /\ Submit
    BY <1>7 DEF handleAdminLogin, handleSendOtp, handleVerifyOtp
  <2>2. visits' \in Nat /\ token' \in {"good", "dead", "none"} /\ (token' = "none" => token = "none")
    <3>1. visits \in Nat /\ visits' = visits + 1
      BY <2>1 DEF Submit, SignInTypeOK
    <3>2. token' = token /\ token \in {"good", "dead", "none"}
      BY <2>1 DEF SignInTypeOK
    <3> QED BY <3>1, <3>2, OneMore
  <2>3. login' \in [otpSent : BOOLEAN, loading : BOOLEAN, error : BOOLEAN]
    BY <2>1 DEF Submit, SignInTypeOK
  <2> QED BY <2>1, <2>2, <2>3, <1>form
<1>8. CASE LoginFails \/ OtpSent
  BY <1>8, <1>form DEF LoginFails, Fails, OtpSent, SignInTypeOK
<1>9. CASE AdminLoggedIn \/ OtpVerified
  BY <1>9, <1>nav, GoingTo DEF AdminLoggedIn, OtpVerified, SignInTypeOK
<1>10. CASE \E ok \in BOOLEAN : Callback(ok)
  <2> SUFFICES ASSUME NEW ok \in BOOLEAN, Callback(ok) PROVE SignInInv'
    BY <1>10
  <2>1. PICK p \in Paths : GoTo(p)
    BY DEF Callback
  <2> QED BY <2>1, <1>nav, GoingTo DEF Callback, SignInTypeOK
<1>11. CASE SessionDies
  BY <1>11, <1>form DEF SessionDies, SignInTypeOK
<1>12. CASE SignedOutEvent
  BY <1>12, <1>nav, GoingTo DEF SignedOutEvent, SignInTypeOK
<1>13. CASE handleLogout
  <2>1. SignInTypeOK'
    <3>1. visits \in Nat /\ visits' = visits + 1
      BY <1>13 DEF handleLogout, SignInTypeOK
    <3>2. visits' \in Nat
      BY <3>1, OneMore
    <3>3. leaving' \in {"no", "signing out", "signed out"} /\ UNCHANGED <<person, token, page, request, login>>
      BY <1>13 DEF handleLogout
    <3> QED BY <3>2, <3>3 DEF SignInTypeOK
  \* The tokens are still there.
  <2>2. token' # "none"
    BY <1>13 DEF handleLogout
  <2> QED BY <2>1, <2>2 DEF SignInInv, NobodyIsLeftBehind
<1>14. CASE SignedOut
  <2>1. SignInTypeOK'
    BY <1>14, GoingTo DEF SignedOut, SignInTypeOK
  <2>2. leaving' = "signed out"
    BY <1>14 DEF SignedOut
  <2> QED BY <2>1, <2>2 DEF SignInInv, NobodyIsLeftBehind
<1>15. CASE LoggedOut
  <2>1. PICK p \in Paths : GoTo(p)
    BY <1>15 DEF LoggedOut
  <2> QED BY <1>15, <2>1, <1>nav, GoingTo DEF LoggedOut, SignInTypeOK
<1>16. CASE UNCHANGED signInVars
  BY <1>16 DEF signInVars, SignInInv, SignInTypeOK, NobodyIsLeftBehind
<1> QED
  BY <1>1, <1>2, <1>3, <1>4, <1>5, <1>6, <1>7, <1>8, <1>9, <1>10, <1>11, <1>12, <1>13, <1>14, <1>15, <1>16
     DEF SignInNext

(* The browser never rests on a staff, portal or client page without the    *)
(* tokens of a session: the middleware, the listener of auth-error-handler  *)
(* or the sign-out button is taking it away.                                *)
THEOREM SignInKeepsNobody == SignInSpec => []NobodyIsLeftBehind
<1>1. SignInInv => NobodyIsLeftBehind
  BY DEF SignInInv
<1> QED BY SignInInitially, SignInStep, <1>1, PTL DEF SignInSpec

-----------------------------------------------------------------------------
(* InterviewLobby: who gets into the room, and how often.                   *)

StartPlaces == {"idle", "consent", "create", "activate", "ready", "refused", "over"}
Runs == [1 .. MaxStarts -> [at : StartPlaces, page : {"shown", "left", "gone"}]]

(* The part of LobbyTypeOK the argument needs.                              *)
LobbyTyped ==
    /\ kept \in [token : BOOLEAN, room : BOOLEAN]
    /\ starts \in Runs
    /\ entered \in Nat /\ admitted \in Nat /\ strayed \in Nat

(* A room that was created is in the hands of a start that has not returned,*)
(* or in the storage as a token not used yet, or it has been entered.  The  *)
(* token in the storage while the room is shown is the one it was entered   *)
(* with; it becomes one to be used again only when the room is left for     *)
(* another page of the site, which `strayed` counts.                        *)
Ready == {n \in 1 .. MaxStarts : starts[n].at = "ready"}
Unused == One(kept.room /\ view # "room")
Accounted == entered + Unused + Cardinality(Ready) <= admitted + strayed

(* The starts that are ready are finitely many.                             *)
LEMMA ReadyFinite == IsFiniteSet(Ready) /\ Cardinality(Ready) \in Nat
<1>1. Ready \subseteq 1 .. MaxStarts /\ IsFiniteSet(1 .. MaxStarts)
  BY LobbyAssumption, FS_Interval DEF Ready
<1> QED
  BY <1>1, FS_Subset, FS_CardinalityType

(* What does not make a start ready, nor answers one, changes the count by  *)
(* what it does to the storage, the view and the pages left.                *)
LEMMA SameReady ==
  ASSUME LobbyTyped, Accounted, Ready' = Ready, admitted' = admitted,
         entered' \in Nat, strayed' \in Nat,
         entered' + Unused' + strayed <= entered + Unused + strayed'
  PROVE  Accounted'
<1>1. Cardinality(Ready') = Cardinality(Ready) /\ Cardinality(Ready) \in Nat
  BY ReadyFinite
<1>2. Unused \in Nat /\ Unused' \in Nat
  BY DEF Unused, One
<1>3. entered \in Nat /\ admitted \in Nat /\ strayed \in Nat
  BY DEF LobbyTyped
<1>4. entered + Unused + Cardinality(Ready) <= admitted + strayed
  BY DEF Accounted
<1>5. entered' + Unused' + strayed <= entered + Unused + strayed' /\ entered' \in Nat /\ strayed' \in Nat
  OBVIOUS
<1>6. entered' + Unused' + Cardinality(Ready) <= admitted + strayed'
  <2> DEFINE e == entered  e1 == entered'  u == Unused  u1 == Unused'
             c == Cardinality(Ready)  a == admitted  s == strayed  s1 == strayed'
  <2>1. /\ e \in Nat /\ e1 \in Nat /\ u \in Nat /\ u1 \in Nat /\ c \in Nat /\ a \in Nat
        /\ s \in Nat /\ s1 \in Nat /\ e + u + c <= a + s /\ e1 + u1 + s <= e + u + s1
    BY <1>1, <1>2, <1>3, <1>4, <1>5
  <2> HIDE DEF e, e1, u, u1, c, a, s, s1
  <2>2. e1 + u1 + c <= a + s1
    BY <2>1
  <2> QED
    BY <2>2 DEF e1, u1, c, a, s1
<1> QED
  BY <1>1, <1>6 DEF Accounted

LEMMA LessOfTerm ==
  ASSUME NEW u \in Nat, NEW u1 \in Nat, NEW t \in Nat, u1 <= u
  PROVE  u1 + t <= u + t
  OBVIOUS

LEMMA NobodyEnters ==
  ASSUME LobbyTyped, Accounted, Ready' = Ready, admitted' = admitted, entered' = entered,
         strayed' \in Nat, Unused' + strayed <= Unused + strayed'
  PROVE  Accounted'
<1>1. entered \in Nat /\ strayed \in Nat /\ Unused \in Nat /\ Unused' \in Nat
  BY DEF LobbyTyped, Unused, One
<1>2. entered' + Unused' + strayed <= entered + Unused + strayed'
  <2> DEFINE e == entered  e1 == entered'  u == Unused  u1 == Unused'  s == strayed  s1 == strayed'
  <2>1. /\ e \in Nat /\ e1 = e /\ u \in Nat /\ u1 \in Nat /\ s \in Nat /\ s1 \in Nat
        /\ u1 + s <= u + s1
    BY <1>1
  <2> HIDE DEF e, e1, u, u1, s, s1
  <2>2. e1 + u1 + s <= e + u + s1
    BY <2>1
  <2> QED
    BY <2>2 DEF e, e1, u, u1, s, s1
<1>3. entered' \in Nat
  BY <1>1
<1> QED
  BY <1>2, <1>3, SameReady

(* A page of the site in place of another: the token stays, and if it was   *)
(* the room's page, it can be used again.                                   *)
LEMMA PageLeft ==
  ASSUME LobbyTyped, Accounted, NEW to \in Views \ {"room"}, NEW rest, LeavePage(to, starts, rest),
         kept' \in [token : BOOLEAN, room : BOOLEAN], kept'.room => kept.room,
         UNCHANGED <<admitted, entered>>
  PROVE  LobbyTyped' /\ Accounted'
<1>1. starts' \in Runs /\ \A m \in 1 .. MaxStarts : starts'[m].at = starts[m].at
  BY DEF LeavePage, LobbyTyped, Runs
<1>2. Ready' = Ready
  BY <1>1 DEF Ready
<1>3. view' # "room" /\ strayed' = strayed + One(view = "room")
  BY DEF LeavePage
<1>4. strayed' \in Nat
  BY <1>3 DEF LobbyTyped, One
<1>5. Unused' + strayed <= Unused + strayed'
  BY <1>3 DEF Unused, One, LobbyTyped
<1>6. Accounted'
  BY <1>2, <1>4, <1>5, NobodyEnters
<1> QED
  BY <1>1, <1>4, <1>6 DEF LobbyTyped

(* A new document in place of the old one: the unload handler of the room   *)
(* has taken its token.                                                     *)
LEMMA DocumentLeft ==
  ASSUME LobbyTyped, Accounted, "unload" \notin Mishaps, NEW to \in Views \ {"room"},
         NEW byLink \in BOOLEAN, NEW active \in BOOLEAN, LeaveDocument(to, byLink, active),
         UNCHANGED <<admitted, entered>>
  PROVE  LobbyTyped' /\ Accounted'
<1>1. starts' \in Runs /\ \A m \in 1 .. MaxStarts : starts'[m].at = starts[m].at
  BY DEF LeaveDocument, LobbyTyped, Runs
<1>2. Ready' = Ready
  BY <1>1 DEF Ready
<1>3. view' # "room" /\ strayed' = strayed
  BY DEF LeaveDocument
<1>4. /\ kept' \in [token : BOOLEAN, room : BOOLEAN]
      /\ kept'.room => kept.room /\ view # "room"
  <2> DEFINE listens == view \in InRoom \union {"thanks"} \/ leaked
  <2>1. view = "room" => listens
    BY DEF InRoom
  <2>2. kept' = [token |-> kept.token \/ byLink, room |-> kept.room /\ ~(TRUE /\ listens)]
    BY DEF LeaveDocument
  <2> HIDE DEF listens
  <2>3. kept'.token = (kept.token \/ byLink) /\ kept'.room = (kept.room /\ ~(TRUE /\ listens))
    BY <2>2
  <2>4. kept.token \in BOOLEAN /\ kept.room \in BOOLEAN
    BY DEF LobbyTyped
  <2>5. kept'.token \in BOOLEAN /\ kept'.room \in BOOLEAN
    BY <2>3, <2>4
  <2>6. kept' \in [token : BOOLEAN, room : BOOLEAN]
    BY <2>2, <2>3, <2>5
  <2> QED
    BY <2>1, <2>3, <2>6
<1>5. Unused' <= Unused /\ Unused \in Nat /\ Unused' \in Nat
  BY <1>3, <1>4 DEF Unused, One
<1>6. Unused' + strayed <= Unused + strayed'
  BY <1>3, <1>5, LessOfTerm DEF LobbyTyped
<1>7. Accounted'
  BY <1>2, <1>3, <1>6, NobodyEnters DEF LobbyTyped
<1> QED
  BY <1>1, <1>3, <1>4, <1>7 DEF LobbyTyped

(* A step that leaves no page.                                              *)
LEMMA PageStays ==
  ASSUME LobbyTyped, Accounted, UNCHANGED <<starts, admitted, entered, strayed>>,
         kept' \in [token : BOOLEAN, room : BOOLEAN],
         kept'.room /\ view' # "room" => kept.room /\ view # "room"
  PROVE  LobbyTyped' /\ Accounted'
<1>1. Unused' <= Unused /\ Unused \in Nat /\ Unused' \in Nat
  BY DEF Unused, One
<1>2. Unused' + strayed <= Unused + strayed'
  <2>1. strayed' = strayed /\ strayed \in Nat
    BY DEF LobbyTyped
  <2> QED
    BY <1>1, <2>1, LessOfTerm
<1>3. Ready' = Ready
  BY DEF Ready
<1>4. Accounted'
  BY <1>2, <1>3, NobodyEnters DEF LobbyTyped
<1> QED
  BY <1>4 DEF LobbyTyped

LEMMA StepReady ==
  ASSUME LobbyTyped, NEW n \in 1 .. MaxStarts, NEW to \in StartPlaces, StartAt(n, to)
  PROVE  /\ starts' \in Runs
         /\ starts[n].at # "ready" /\ to # "ready" => Ready' = Ready
         /\ starts[n].at # "ready" /\ to = "ready" => Ready' = Ready \union {n} /\ n \notin Ready
<1>1. starts' \in Runs
  BY DEF LobbyTyped, StartAt, Runs
<1>2. \A m \in 1 .. MaxStarts : starts'[m].at = IF m = n THEN to ELSE starts[m].at
  BY DEF LobbyTyped, StartAt, Runs
<1> QED
  BY <1>1, <1>2 DEF Ready

-----------------------------------------------------------------------------
(* The lobby and its checklist.                                             *)

\* The places the pages send a candidate to are not the room.
LEMMA NotTheRoom ==
    /\ {"loading", "checking", "home", "login", "portal"} \subseteq Views \ {"room"}
    /\ Portal \in Views \ {"room"}
  BY DEF Portal, Views, LobbyViews, SessionViews, InRoom

LEMMA LobbySteps ==
  ASSUME LobbyTyped, Accounted, "unload" \notin Mishaps,
         \/ \E byLink, swapped \in BOOLEAN : OpenLobby(byLink, swapped)
         \/ fetchPendingSession \/ fetchAstray
         \/ BrowserChecked \/ MicrophoneAnswered \/ requestMicrophone \/ setConsentChecked
  PROVE  LobbyTyped' /\ Accounted'
<1>1. ASSUME NEW byLink \in BOOLEAN, NEW swapped \in BOOLEAN, OpenLobby(byLink, swapped)
      PROVE  LobbyTyped' /\ Accounted'
  <2>1. UNCHANGED <<admitted, entered>>
    BY <1>1 DEF OpenLobby
  <2>2. CASE LeavePage("loading", starts, leftCalls) /\ UNCHANGED kept
    BY <2>1, <2>2, NotTheRoom, PageLeft DEF LobbyTyped
  <2>3. CASE LeaveDocument("loading", byLink, view \in InRoom)
    <3>1. (view \in InRoom) \in BOOLEAN /\ "loading" \in Views \ {"room"}
      BY NotTheRoom
    <3> QED
      BY <2>1, <2>3, <3>1, DocumentLeft
  <2> QED
    BY <1>1, <2>2, <2>3 DEF OpenLobby
<1>2. CASE fetchPendingSession
  <2>1. UNCHANGED <<starts, admitted, entered, strayed, kept>> /\ view = "loading"
    BY <1>2 DEF fetchPendingSession, wayVars
  <2> QED
    BY <2>1, PageStays DEF LobbyTyped
<1>3. CASE fetchAstray
  <2> DEFINE rest == [leftCalls EXCEPT !.lobby = @ - 1]
             Stays == leftCalls' = rest /\ UNCHANGED <<view, starts, trail, strayed>>
  <2>1. UNCHANGED <<kept, admitted, entered>>
    BY <1>3 DEF fetchAstray
  <2>2. \/ LeavePage("login", starts, rest)
        \/ LeavePage(Portal, starts, rest)
        \/ UNCHANGED <<view, starts, strayed>>
    <3>1. \/ LeavePage("login", starts, rest)
          \/ MySessionAnswers(Stays, LeavePage(Portal, starts, rest), Stays)
      BY <1>3 DEF fetchAstray
    <3>2. MySessionAnswers(Stays, LeavePage(Portal, starts, rest), Stays)
             => Stays \/ LeavePage(Portal, starts, rest)
      BY DEF MySessionAnswers
    <3> QED
      BY <3>1, <3>2
  <2>3. CASE LeavePage("login", starts, rest)
    BY <2>1, <2>3, NotTheRoom, PageLeft DEF LobbyTyped
  <2>4. CASE LeavePage(Portal, starts, rest)
    BY <2>1, <2>4, NotTheRoom, PageLeft DEF LobbyTyped
  <2>5. CASE UNCHANGED <<view, starts, strayed>>
    BY <2>1, <2>5, PageStays DEF LobbyTyped
  <2> QED
    BY <2>2, <2>3, <2>4, <2>5
<1>4. CASE BrowserChecked \/ MicrophoneAnswered \/ requestMicrophone \/ setConsentChecked
  <2>1. UNCHANGED <<kept, view, starts, admitted, entered, strayed>>
    BY <1>4 DEF BrowserChecked, MicrophoneAnswered, requestMicrophone, setConsentChecked, wayVars
  <2> QED
    BY <2>1, PageStays DEF LobbyTyped
<1> QED
  BY <1>1, <1>2, <1>3, <1>4

-----------------------------------------------------------------------------
(* The starts.                                                              *)

LEMMA StartSteps ==
  ASSUME LobbyTyped, Accounted, NEW n \in 1 .. MaxStarts,
         \/ handleReady(n) \/ ConsentRecorded(n) \/ CreateRoom(n) \/ RoomActivated(n)
         \/ StartSucceeds(n) \/ StartFails(n)
  PROVE  LobbyTyped' /\ Accounted'
<1>0. /\ entered \in Nat /\ admitted \in Nat /\ strayed \in Nat
      /\ Unused \in 0 .. 1 /\ Unused' \in 0 .. 1
  BY DEF LobbyTyped, Unused, One
<1>1. ASSUME UNCHANGED <<kept, view, admitted, entered, strayed>>, Ready' = Ready, starts' \in Runs
      PROVE  LobbyTyped' /\ Accounted'
  <2>1. Unused' = Unused
    BY <1>1 DEF Unused, One
  <2>2. entered' + Unused' + strayed <= entered + Unused + strayed'
    BY <1>0, <1>1, <2>1
  <2> QED
    BY <1>0, <1>1, <2>2, SameReady DEF LobbyTyped
<1>2. CASE handleReady(n)
  <2>1. starts' \in Runs
    BY <1>2 DEF handleReady, LobbyTyped, StartPlaces, Runs
  <2>2. \A m \in 1 .. MaxStarts : starts'[m].at = "ready" <=> starts[m].at = "ready"
    BY <1>2 DEF handleReady, LobbyTyped, Runs
  <2> QED
    BY <1>1, <1>2, <2>1, <2>2 DEF handleReady, Ready, wayVars
<1>3. CASE ConsentRecorded(n)
  BY <1>1, <1>3, StepReady DEF ConsentRecorded, StartPlaces, wayVars
<1>4. CASE CreateRoom(n)
  BY <1>1, <1>4, StepReady DEF CreateRoom, StartPlaces, wayVars
<1>5. CASE StartFails(n)
  BY <1>1, <1>5, StepReady DEF StartFails, StartPlaces, wayVars
<1>6. CASE RoomActivated(n)
  <2>1. Ready' = Ready \union {n} /\ n \notin Ready /\ starts' \in Runs
    BY <1>6, StepReady DEF RoomActivated, StartPlaces
  <2>2. Cardinality(Ready') = Cardinality(Ready) + 1 /\ Cardinality(Ready) \in Nat
    BY <2>1, ReadyFinite, FS_AddElement
  <2>3. UNCHANGED <<kept, view, entered, strayed>> /\ admitted' = admitted + 1
    BY <1>6 DEF RoomActivated, wayVars
  <2>4. Unused' = Unused
    BY <2>3 DEF Unused, One
  <2>5. Accounted'
    BY <1>0, <2>2, <2>3, <2>4 DEF Accounted
  <2> QED
    BY <1>0, <2>1, <2>3, <2>5 DEF LobbyTyped
<1>7. CASE StartSucceeds(n)
  <2> DEFINE runs == [starts EXCEPT ![n].at = "over"]
  <2>1. runs \in Runs /\ \A m \in 1 .. MaxStarts : runs[m].at = IF m = n THEN "over" ELSE starts[m].at
    BY DEF LobbyTyped, Runs, StartPlaces
  <2>2. \/ starts' = runs /\ UNCHANGED strayed
        \/ view # "room" /\ LeavePage("checking", runs, leftCalls)
    BY <1>7 DEF StartSucceeds, SessionViews, InRoom
  <2>3. /\ starts' \in Runs /\ strayed' = strayed
        /\ \A m \in 1 .. MaxStarts : starts'[m].at = IF m = n THEN "over" ELSE starts[m].at
    <3>1. CASE starts' = runs /\ UNCHANGED strayed
      BY <2>1, <3>1
    <3>2. CASE view # "room" /\ LeavePage("checking", runs, leftCalls)
      <4> HIDE DEF runs
      <4>1. strayed' = strayed
        BY <1>0, <3>2 DEF LeavePage, One
      <4>2. /\ starts' \in Runs
            /\ \A m \in 1 .. MaxStarts : starts'[m].at = runs[m].at
        BY <2>1, <3>2 DEF LeavePage, Runs
      <4> QED
        BY <2>1, <4>1, <4>2
    <3> QED
      BY <2>2, <3>1, <3>2
  <2>4. Ready' = Ready \ {n} /\ n \in Ready
    BY <1>7, <2>3 DEF Ready, StartSucceeds
  <2>5. Cardinality(Ready') = Cardinality(Ready) - 1 /\ Cardinality(Ready) \in Nat
    BY <2>4, ReadyFinite, FS_RemoveElement
  <2>6. UNCHANGED <<entered, admitted>>
    BY <1>7 DEF StartSucceeds
  <2>7. Accounted'
    BY <1>0, <2>3, <2>5, <2>6 DEF Accounted
  <2>8. kept' \in [token : BOOLEAN, room : BOOLEAN]
    BY <1>7 DEF StartSucceeds, LobbyTyped
  <2> QED
    BY <1>0, <2>3, <2>6, <2>7, <2>8 DEF LobbyTyped
<1> QED
  BY <1>2, <1>3, <1>4, <1>5, <1>6, <1>7

-----------------------------------------------------------------------------
(* The session page.                                                        *)

LEMMA SessionSteps ==
  ASSUME LobbyTyped, Accounted, "unload" \notin Mishaps,
         \/ \E swapped \in BOOLEAN : OpenSession(swapped)
         \/ validateAndInit \/ validateAstray \/ TabHidden \/ EndSession \/ SessionEnded \/ BackButton
         \/ BeaconArrives \/ InterviewOver
  PROVE  LobbyTyped' /\ Accounted'
<1>1. ASSUME UNCHANGED <<starts, admitted, entered, strayed>>, kept' = [kept EXCEPT !.room = FALSE]
      PROVE  LobbyTyped' /\ Accounted'
  BY <1>1, PageStays DEF LobbyTyped
<1>2. ASSUME NEW swapped \in BOOLEAN, OpenSession(swapped)
      PROVE  LobbyTyped' /\ Accounted'
  <2>1. UNCHANGED <<admitted, entered>>
    BY <1>2 DEF OpenSession
  <2>2. CASE LeavePage("checking", starts, leftCalls) /\ UNCHANGED kept
    BY <2>1, <2>2, NotTheRoom, PageLeft DEF LobbyTyped
  <2>3. CASE LeaveDocument("checking", FALSE, view \in InRoom)
    <3>1. (view \in InRoom) \in BOOLEAN /\ "checking" \in Views \ {"room"}
      BY NotTheRoom
    <3> QED
      BY <2>1, <2>3, <3>1, DocumentLeft
  <2> QED
    BY <1>2, <2>2, <2>3 DEF OpenSession
<1>3. CASE validateAndInit
  <2> DEFINE Enters == view' = "room" /\ entered' = entered + 1 /\ UNCHANGED kept
             TurnedAway == view' = Portal /\ kept' = [kept EXCEPT !.room = FALSE] /\ UNCHANGED entered
  <2>1. view = "checking" /\ UNCHANGED <<starts, admitted, strayed>>
    BY <1>3 DEF validateAndInit, wayVars
  <2>2. \/ ~kept.room /\ UNCHANGED <<kept, entered>>
        \/ kept.room /\ Enters
        \/ TurnedAway
    <3>1. \/ ~kept.room /\ UNCHANGED <<kept, entered>>
          \/ kept.room /\ MySessionAnswers(Enters, TurnedAway, Enters)
          \/ kept.room /\ Enters
      BY <1>3 DEF validateAndInit
    <3>2. MySessionAnswers(Enters, TurnedAway, Enters) => Enters \/ TurnedAway
      BY DEF MySessionAnswers
    <3> QED
      BY <3>1, <3>2
  <2>3. CASE ~kept.room /\ UNCHANGED <<kept, entered>>
    BY <2>1, <2>3, PageStays DEF LobbyTyped
  <2>4. CASE kept.room /\ Enters
    <3>1. Unused = 1 /\ Unused' = 0
      BY <2>1, <2>4 DEF Unused, One
    <3>2. /\ entered \in Nat /\ strayed \in Nat /\ entered' = entered + 1
      BY <2>4 DEF LobbyTyped
    <3>3. entered' \in Nat /\ entered' + Unused' + strayed <= entered + Unused + strayed'
      BY <2>1, <3>1, <3>2
    <3>4. Ready' = Ready
      BY <2>1 DEF Ready
    <3>5. Accounted'
      BY <2>1, <3>2, <3>3, <3>4, SameReady
    <3> QED
      BY <2>1, <2>4, <3>3, <3>5 DEF LobbyTyped
  <2>5. CASE TurnedAway
    BY <1>1, <2>1, <2>5
  <2> QED
    BY <2>2, <2>3, <2>4, <2>5
<1>4. CASE validateAstray
  <2> DEFINE rest == [leftCalls EXCEPT !.session = @ - 1]
             Leaks == leaked' = TRUE /\ leftCalls' = rest /\ UNCHANGED <<kept, view, starts, trail, strayed>>
             TurnedAway == /\ LeavePage(Portal, starts, rest)
                           /\ kept' = [kept EXCEPT !.room = FALSE]
                           /\ UNCHANGED leaked
  <2>1. UNCHANGED <<admitted, entered>>
    BY <1>4 DEF validateAstray
  <2>2. Leaks \/ TurnedAway
    <3>1. MySessionAnswers(Leaks, TurnedAway, Leaks) \/ Leaks
      BY <1>4 DEF validateAstray
    <3>2. MySessionAnswers(Leaks, TurnedAway, Leaks) => Leaks \/ TurnedAway
      BY DEF MySessionAnswers
    <3> QED
      BY <3>1, <3>2
  <2>3. CASE Leaks
    BY <2>1, <2>3, PageStays DEF LobbyTyped
  <2>4. CASE TurnedAway
    <3>1. kept' \in [token : BOOLEAN, room : BOOLEAN] /\ ~kept'.room
      BY <2>4 DEF LobbyTyped
    <3>2. LeavePage(Portal, starts, rest)
      BY <2>4
    <3> QED
      BY <2>1, <3>1, <3>2, NotTheRoom, PageLeft
  <2> QED
    BY <2>2, <2>3, <2>4
<1>5. CASE TabHidden
  BY <1>1, <1>5 DEF TabHidden, wayVars
<1>6. CASE EndSession
  BY <1>1, <1>6 DEF EndSession, wayVars
<1>7. CASE SessionEnded
  <2>1. CASE UNCHANGED <<kept, starts, beacons, wayVars>> /\ view' = "thanks"
    <3>1. UNCHANGED <<kept, starts, admitted, entered, strayed>> /\ view # "room"
      BY <1>7, <2>1 DEF SessionEnded, wayVars
    <3> QED
      BY <3>1, PageStays DEF LobbyTyped
  <2>2. CASE LeaveDocument(Portal, FALSE, FALSE)
    <3>1. UNCHANGED <<admitted, entered>>
      BY <1>7 DEF SessionEnded
    <3> QED
      BY <2>2, <3>1, NotTheRoom, DocumentLeft
  <2> QED
    BY <1>7, <2>1, <2>2 DEF SessionEnded
<1>8. CASE BackButton
  BY <1>1, <1>8 DEF BackButton, wayVars
<1>9. CASE BeaconArrives \/ InterviewOver
  <2>1. UNCHANGED <<starts, admitted, entered, strayed, kept, view>>
    BY <1>9 DEF BeaconArrives, InterviewOver, wayVars
  <2> QED
    BY <2>1, PageStays DEF LobbyTyped
<1> QED
  BY <1>2, <1>3, <1>4, <1>5, <1>6, <1>7, <1>8, <1>9

-----------------------------------------------------------------------------
(* The header, signing in and signing out: every one swaps the page.        *)

LEMMA SiteSteps ==
  ASSUME LobbyTyped, Accounted, HeaderLink \/ SessionLost \/ CodeVerified
  PROVE  LobbyTyped' /\ Accounted'
<1>1. UNCHANGED <<kept, admitted, entered>>
  BY DEF HeaderLink, SessionLost, CodeVerified
<1>2. PICK to \in {"home", "login", "loading"} : LeavePage(to, starts, leftCalls)
  BY DEF HeaderLink, SessionLost, CodeVerified
<1> QED
  BY <1>1, <1>2, NotTheRoom, PageLeft DEF LobbyTyped

(* However many starts are under way at once, whatever they and the calls   *)
(* of pages already left answer, and in whatever order the candidate goes   *)
(* in and out of the lobby and the room: if the browser runs its unload     *)
(* handlers, the room is shown at most once for each room that was created  *)
(* and once for each time it was left for another page of the site, which   *)
(* the code allows.                                                         *)
THEOREM LobbyNoReentry == LobbySpec => []NoReentry
<1>1. CASE "unload" \notin Mishaps
  <2>1. LobbyInit => LobbyTyped /\ Accounted
    <3> SUFFICES ASSUME LobbyInit PROVE LobbyTyped /\ Accounted
      OBVIOUS
    <3>1. LobbyTyped
      BY DEF LobbyInit, LobbyTyped, StartPlaces, Runs
    <3>2. Ready = {} /\ Unused = 0 /\ entered = 0 /\ admitted = 0 /\ strayed = 0
      BY DEF LobbyInit, Ready, Unused, One
    <3>3. Cardinality(Ready) = 0
      BY <3>2, FS_EmptySet
    <3> QED
      BY <3>1, <3>2, <3>3 DEF Accounted
  <2>2. LobbyTyped /\ Accounted /\ [LobbyNext]_lobbyVars => LobbyTyped' /\ Accounted'
    <3> SUFFICES ASSUME LobbyTyped, Accounted, [LobbyNext]_lobbyVars PROVE LobbyTyped' /\ Accounted'
      OBVIOUS
    <3>1. CASE UNCHANGED lobbyVars
      BY <3>1 DEF lobbyVars, wayVars, LobbyTyped, Accounted, Ready, Unused
    <3> QED
      BY <1>1, <3>1, LobbySteps, StartSteps, SessionSteps, SiteSteps DEF LobbyNext
  <2>3. LobbyTyped /\ Accounted => NoReentry
    <3> SUFFICES ASSUME LobbyTyped, Accounted PROVE NoReentry
      OBVIOUS
    <3>1. /\ entered \in Nat /\ admitted \in Nat /\ strayed \in Nat
          /\ Cardinality(Ready) \in Nat /\ Unused \in Nat
      BY ReadyFinite DEF LobbyTyped, Unused, One
    <3>2. entered + Unused <= admitted + strayed
      BY <3>1 DEF Accounted
    <3> QED
      BY <3>2 DEF NoReentry, Unused
  <2> QED
    BY <2>1, <2>2, <2>3, PTL DEF LobbySpec
<1>2. CASE "unload" \in Mishaps
  <2>1. NoReentry
    BY <1>2 DEF NoReentry
  <2> QED
    BY <2>1, PTL
<1> QED
  BY <1>1, <1>2

-----------------------------------------------------------------------------
(* InterviewRoom: the types, and that the page ends the session once.       *)

Agents == [phase : {"greeting", "interview", "closing", "gone"}, state : AgentStates, timer : 0 .. Off,
           left : 0 .. Countdown, over : BOOLEAN, question : BOOLEAN, grace : BOOLEAN,
           confirming : BOOLEAN, number : 0 .. RoomLength]
Messages ==
    [type : {"question_progress"}, n : 0 .. RoomLength]
    \union [type : {"timer_started", "timer_resumed", "agent_speaking", "user_speaking",
                    "grace_period_started", "interview_closing", "session_end", "terminated"},
            n : 0 .. Countdown]
Rings == [left : 0 .. Off, counting : BOOLEAN, grace : BOOLEAN, talking : BOOLEAN, active : BOOLEAN,
          awaiting : BOOLEAN, dirty : BOOLEAN]
Faces == [question : Nat, connected : BOOLEAN, ended : BOOLEAN, ends : Nat, closing : BOOLEAN,
          violation : BOOLEAN]

(* RoomTypeOK with the fields it does not name, and with what is on the     *)
(* data channel: a countdown on the way is one the agent may have armed.    *)
RoomTyped ==
    /\ ai \in Agents
    /\ wire \in Seq(Messages) /\ Len(wire) <= MaxWire
    /\ talker \in [speaking : BOOLEAN, talks : 0 .. MaxTalks]
    /\ ring \in Rings
    /\ face \in Faces
    /\ shows \in AgentStates

(* sessionEndedRef is set with the first call, and the countdown is cleared *)
(* with it.                                                                 *)
EndedOnce ==
    /\ face.ends = IF face.ended THEN 1 ELSE 0
    /\ face.ended => ~ring.counting

LEMMA RoomBounds == Countdown \in Nat \ {0} /\ RoomLength \in Nat \ {0} /\ MaxWire \in Nat /\ MaxTalks \in Nat
  BY RoomAssumption

LEMMA RoomCounts == Off \in 0 .. Off /\ 0 .. Countdown \subseteq 0 .. Off
  BY RoomBounds DEF Off

-----------------------------------------------------------------------------
(* What is published.                                                       *)

LEMMA SayType ==
  /\ \A n \in 0 .. RoomLength : Say("question_progress", n) \in Messages
  /\ \A n \in 0 .. Countdown :
       \A type \in {"timer_started", "timer_resumed", "agent_speaking", "user_speaking",
                    "grace_period_started", "interview_closing", "session_end", "terminated"} :
         Say(type, n) \in Messages
  BY DEF Say, Messages

LEMMA PublishType ==
  ASSUME RoomTyped, NEW messages \in Seq(Messages), Publish(messages)
  PROVE  wire' \in Seq(Messages) /\ Len(wire') <= MaxWire
  BY RoomBounds DEF Publish, RoomTyped

LEMMA PublishOne ==
  ASSUME RoomTyped, NEW m \in Messages, Publish(<<m>>)
  PROVE  wire' \in Seq(Messages) /\ Len(wire') <= MaxWire
<1>1. <<m>> \in Seq(Messages)
  OBVIOUS
<1> QED
  BY <1>1, PublishType

LEMMA ArmType ==
  ASSUME RoomTyped, NEW a \in Agents, NEW type \in {"timer_started", "timer_resumed"}, NEW over \in BOOLEAN,
         Arm(a, type, over)
  PROVE  ai' \in Agents /\ wire' \in Seq(Messages) /\ Len(wire') <= MaxWire
<1>1. CASE Interviewing /\ a.question /\ a.timer = Off
  <2>1. a.left \in 0 .. Countdown /\ a.left \in 0 .. Off
    BY RoomBounds DEF Agents, Off
  <2>2. ai' = [a EXCEPT !.timer = a.left, !.over = over] /\ Publish(<<Say(type, a.left)>>)
    BY <1>1 DEF Arm
  <2>3. Say(type, a.left) \in Messages
    BY <2>1, SayType
  <2>4. ai' \in Agents
    BY <2>1, <2>2 DEF Agents
  <2> QED
    BY <2>2, <2>3, <2>4, PublishOne
<1>2. CASE ~(Interviewing /\ a.question /\ a.timer = Off)
  BY <1>2 DEF Arm, RoomTyped
<1> QED
  BY <1>1, <1>2

-----------------------------------------------------------------------------
(* The page's countdown.                                                    *)

LEMMA RingTypes ==
  ASSUME NEW r \in Rings
  PROVE  /\ clearCountdown(r) \in Rings /\ ~clearCountdown(r).counting
         /\ freezeCountdown(r) \in Rings /\ ~freezeCountdown(r).counting
         /\ \A n \in 0 .. Countdown : startCountdown(r, n) \in Rings
         /\ Effect(r) \in Rings /\ Effect(r).counting = r.counting
<1>1. clearCountdown(r) \in Rings /\ ~clearCountdown(r).counting
  BY RoomCounts DEF Rings, clearCountdown
<1>2. freezeCountdown(r) \in Rings /\ ~freezeCountdown(r).counting
  BY DEF Rings, freezeCountdown
<1>3. \A n \in 0 .. Countdown : startCountdown(r, n) \in Rings
  BY RoomCounts DEF Rings, startCountdown
<1>4. Effect(r) \in Rings /\ Effect(r).counting = r.counting
  <2>1. [r EXCEPT !.dirty = TRUE] \in Rings /\ [r EXCEPT !.dirty = TRUE].counting = r.counting
    BY DEF Rings
  <2> QED
    BY <2>1 DEF Effect
<1> QED
  BY <1>1, <1>2, <1>3, <1>4

LEMMA EndSessionType ==
  ASSUME RoomTyped, endSession(ring)
  PROVE  ring' \in Rings /\ face' \in Faces
<1>1. [face EXCEPT !.ended = TRUE, !.ends = @ + 1] \in Faces
  <2>1. face.ends + 1 \in Nat
    BY DEF RoomTyped, Faces
  <2> QED
    BY <2>1 DEF RoomTyped, Faces
<1>2. Effect(ring) \in Rings /\ clearCountdown(Effect(ring)) \in Rings
  BY RingTypes DEF RoomTyped
<1> QED
  BY <1>1, <1>2 DEF endSession, RoomTyped

(* Whatever is heard, the page's variables keep their types.                *)
LEMMA HearsType ==
  ASSUME RoomTyped, NEW m \in Messages, Hears(m)
  PROVE  ring' \in Rings /\ face' \in Faces
<1> USE DEF RoomTyped
<1>0. m.n \in Nat /\ (m.type # "question_progress" => m.n \in 0 .. Countdown)
  BY RoomBounds DEF Messages
<1>1. CASE m.type = "question_progress"
  <2>1. [clearCountdown(ring) EXCEPT !.awaiting = TRUE, !.active = TRUE, !.grace = FALSE, !.talking = FALSE] \in Rings
    BY RingTypes DEF Rings
  <2>2. ring' \in Rings
    BY <1>1, <2>1, RingTypes DEF Hears
  <2>3. face' = [face EXCEPT !.question = m.n]
    BY <1>1 DEF Hears
  <2> QED
    BY <2>2, <2>3, <1>0 DEF Faces
<1>2. CASE m.type = "timer_started"
  <2>1. [ring EXCEPT !.awaiting = FALSE, !.active = TRUE, !.grace = FALSE] \in Rings
    BY DEF Rings
  <2> QED
    BY <1>0, <1>2, <2>1, RingTypes DEF Hears
<1>3. CASE m.type = "agent_speaking"
  <2>1. [clearCountdown(ring) EXCEPT !.awaiting = FALSE, !.grace = FALSE, !.talking = FALSE] \in Rings
    BY RingTypes DEF Rings
  <2> QED
    BY <1>3, <2>1, RingTypes DEF Hears
<1>4. CASE m.type = "user_speaking"
  <2>1. m.n \in 0 .. Off
    BY <1>0, <1>4, RoomCounts
  <2>2. [freezeCountdown(ring) EXCEPT !.left = m.n, !.grace = FALSE, !.talking = TRUE] \in Rings
    BY <2>1, RingTypes DEF Rings
  <2> QED
    BY <1>4, <2>2, RingTypes DEF Hears
<1>5. CASE m.type = "grace_period_started"
  <2>1. [clearCountdown(ring) EXCEPT !.grace = TRUE, !.talking = FALSE] \in Rings
    BY RingTypes DEF Rings
  <2> QED
    BY <1>5, <2>1, RingTypes DEF Hears
<1>6. CASE m.type = "timer_resumed"
  <2> DEFINE r == [ring EXCEPT !.grace = FALSE, !.talking = FALSE]
  <2>1. r \in Rings
    BY DEF Rings
  <2>2. /\ ring' = Effect(IF r.active /\ ~face.ended THEN startCountdown(r, m.n) ELSE r)
        /\ face' = face
    BY <1>6 DEF Hears
  <2>3. startCountdown(r, m.n) \in Rings
    BY <1>0, <1>6, <2>1, RingTypes
  <2> HIDE DEF r
  <2> QED
    BY <2>1, <2>2, <2>3, RingTypes
<1>7. CASE m.type \in {"session_end", "terminated"}
  <2>1. endSession(ring)
    BY <1>7 DEF Hears
  <2> QED
    BY <2>1, EndSessionType
<1>8. CASE m.type = "interview_closing"
  <2>1. [clearCountdown(ring) EXCEPT !.grace = FALSE, !.talking = FALSE] \in Rings
    BY RingTypes DEF Rings
  <2>2. ring' \in Rings
    BY <1>8, <2>1, RingTypes DEF Hears
  <2>3. face' = [face EXCEPT !.closing = TRUE]
    BY <1>8 DEF Hears
  <2> QED
    BY <2>2, <2>3 DEF Faces
<1> QED
  BY <1>1, <1>2, <1>3, <1>4, <1>5, <1>6, <1>7, <1>8 DEF Messages

-----------------------------------------------------------------------------
(* The agent's steps: its record, and what it publishes.                    *)

LEMMA AgentTypes ==
  ASSUME RoomTyped,
         AgentSpeaks \/ AgentListens \/ AgentThinks \/ FirstQuestionDue \/ TalkStarts \/ TalkStops
           \/ GraceEnds \/ Advances \/ AgentLeaves
  PROVE  RoomTyped'
<1> USE DEF RoomTyped
<1>0. /\ ai.timer \in 0 .. Off /\ ai.left \in 0 .. Countdown /\ ai.number \in 0 .. RoomLength
      /\ (ai.timer # Off => ai.timer \in 0 .. Countdown)
      /\ Off \in 0 .. Off /\ 0 \in 0 .. Countdown /\ Countdown \in 0 .. Countdown
      /\ 0 \in 0 .. RoomLength /\ 1 \in 0 .. RoomLength
  BY RoomBounds, RoomCounts DEF Agents, Off
<1>1. CASE AgentSpeaks
  <2>1. ai' \in Agents
    BY <1>0, <1>1 DEF AgentSpeaks, Agents, AgentStates
  <2>2. Say("agent_speaking", 0) \in Messages /\ Say("question_progress", 1) \in Messages
    BY <1>0, SayType
  <2>3. <<Say("agent_speaking", 0)>> \o (IF ai.number = 0 THEN <<Say("question_progress", 1)>> ELSE <<>>)
          \in Seq(Messages)
    BY <2>2
  <2>4. wire' \in Seq(Messages) /\ Len(wire') <= MaxWire
    BY <1>1, <2>3, PublishType DEF AgentSpeaks
  <2> QED
    BY <1>1, <2>1, <2>4 DEF AgentSpeaks
<1>2. CASE AgentListens
  <2>1. PICK asked \in BOOLEAN :
          LET a == [ai EXCEPT !.state = "listening", !.question = asked]
          IN  IF a.grace THEN ai' = a /\ UNCHANGED wire ELSE Arm(a, "timer_started", talker.speaking)
    <3>1. ai.question \in BOOLEAN
      BY DEF Agents
    <3> QED
      BY <1>2, <3>1 DEF AgentListens
  <2> DEFINE a == [ai EXCEPT !.state = "listening", !.question = asked]
  <2>2. a \in Agents
    BY DEF Agents, AgentStates
  <2>3. (ai' = a /\ UNCHANGED wire) \/ Arm(a, "timer_started", talker.speaking)
    BY <2>1
  <2>4. talker.speaking \in BOOLEAN
    OBVIOUS
  <2> HIDE DEF a
  <2>5. ai' \in Agents /\ wire' \in Seq(Messages) /\ Len(wire') <= MaxWire
    BY <2>2, <2>3, <2>4, ArmType
  <2> QED
    BY <1>2, <2>5 DEF AgentListens
<1>3. CASE AgentThinks
  BY <1>3 DEF AgentThinks, Agents, AgentStates
<1>4. CASE FirstQuestionDue
  BY <1>4 DEF FirstQuestionDue, Agents
<1>5. CASE TalkStarts
  <2> DEFINE left == IF ai.timer = Off THEN ai.left ELSE ai.timer
  <2>1. left \in 0 .. Countdown
    BY <1>0
  <2>2. ai' = [ai EXCEPT !.grace = FALSE, !.left = left, !.timer = Off] /\ Publish(<<Say("user_speaking", left)>>)
    BY <1>5 DEF TalkStarts
  <2>3. talker.talks + 1 \in 0 .. MaxTalks
    BY <1>5, RoomBounds DEF TalkStarts
  <2> HIDE DEF left
  <2>4. ai' \in Agents
    BY <1>0, <2>1, <2>2 DEF Agents
  <2>5. wire' \in Seq(Messages) /\ Len(wire') <= MaxWire
    BY <2>1, <2>2, SayType, PublishOne
  <2>6. talker' \in [speaking : BOOLEAN, talks : 0 .. MaxTalks]
    BY <1>5, <2>3 DEF TalkStarts
  <2> QED
    BY <1>5, <2>4, <2>5, <2>6 DEF TalkStarts
<1>6. CASE TalkStops
  <2>1. ai' \in Agents
    BY <1>6 DEF TalkStops, Agents
  <2>2. wire' \in Seq(Messages) /\ Len(wire') <= MaxWire
    BY <1>0, <1>6, SayType, PublishOne DEF TalkStops
  <2> QED
    BY <1>6, <2>1, <2>2 DEF TalkStops
<1>7. CASE GraceEnds
  <2>1. /\ [ai EXCEPT !.grace = FALSE] \in Agents
        /\ [ai EXCEPT !.grace = FALSE, !.confirming = TRUE] \in Agents
    BY DEF Agents
  <2>2. CASE Arm([ai EXCEPT !.grace = FALSE], "timer_resumed", FALSE)
    <3>1. ai' \in Agents /\ wire' \in Seq(Messages) /\ Len(wire') <= MaxWire
      BY <2>1, <2>2, ArmType
    <3> QED
      BY <1>7, <3>1 DEF GraceEnds
  <2>3. CASE /\ ai' = [ai EXCEPT !.grace = FALSE, !.confirming = TRUE]
             /\ Publish(<<Say("grace_period_started", ai.left)>>)
    <3>1. wire' \in Seq(Messages) /\ Len(wire') <= MaxWire
      BY <1>0, <2>3, SayType, PublishOne
    <3> QED
      BY <1>7, <2>1, <2>3, <3>1 DEF GraceEnds
  <2> QED
    BY <1>7, <2>2, <2>3 DEF GraceEnds
<1>8. CASE Advances
  <2> DEFINE a == [ai EXCEPT !.timer = Off, !.grace = FALSE, !.confirming = FALSE, !.left = Countdown,
                             !.question = FALSE]
  <2>1. a \in Agents /\ a.number = ai.number
    BY <1>0 DEF Agents
  <2>2. CASE ai.number = RoomLength
    <3>1. ai' = [a EXCEPT !.phase = "closing"] /\ Publish(<<Say("interview_closing", 0)>>)
      BY <1>8, <2>2 DEF Advances
    <3> HIDE DEF a
    <3>2. ai' \in Agents
      BY <2>1, <3>1 DEF Agents
    <3>3. wire' \in Seq(Messages) /\ Len(wire') <= MaxWire
      BY <1>0, <3>1, SayType, PublishOne
    <3> QED
      BY <1>8, <3>2, <3>3 DEF Advances
  <2>3. CASE ai.number # RoomLength
    <3>1. ai' = [a EXCEPT !.number = @ + 1] /\ Publish(<<Say("question_progress", ai.number + 1)>>)
      BY <1>8, <2>3 DEF Advances
    <3> HIDE DEF a
    <3>2. ai.number + 1 \in 0 .. RoomLength
      BY <1>0, <2>3, RoomBounds
    <3>3. ai' \in Agents
      BY <2>1, <3>1, <3>2 DEF Agents
    <3>4. wire' \in Seq(Messages) /\ Len(wire') <= MaxWire
      BY <3>1, <3>2, SayType, PublishOne
    <3> QED
      BY <1>8, <3>3, <3>4 DEF Advances
  <2> QED
    BY <2>2, <2>3
<1>9. CASE AgentLeaves
  <2>1. ai' \in Agents
    BY <1>0, <1>9 DEF AgentLeaves, Agents
  <2>2. wire' \in Seq(Messages) /\ Len(wire') <= MaxWire
    BY <1>0, <1>9, SayType, PublishOne DEF AgentLeaves
  <2> QED
    BY <1>9, <2>1, <2>2 DEF AgentLeaves
<1> QED
  BY <1>1, <1>2, <1>3, <1>4, <1>5, <1>6, <1>7, <1>8, <1>9

-----------------------------------------------------------------------------
(* The page's steps.                                                        *)

LEMMA PageTypes ==
  ASSUME RoomTyped,
         \/ DataReceived \/ StateReceived \/ FallbackEffect \/ SecondPasses \/ EndInterview
         \/ handleVisibilityChange \/ \E late \in BOOLEAN : ConnectionLost(late)
  PROVE  RoomTyped'
<1> USE DEF RoomTyped
<1>1. CASE DataReceived
  <2>1. Head(wire) \in Messages /\ Tail(wire) \in Seq(Messages) /\ Len(Tail(wire)) <= MaxWire
    BY <1>1, RoomBounds DEF DataReceived
  <2>2. ring' \in Rings /\ face' \in Faces
    BY <1>1, <2>1, HearsType DEF DataReceived
  <2> QED
    BY <1>1, <2>1, <2>2 DEF DataReceived
<1>2. CASE StateReceived
  <2>1. shows' \in AgentStates
    BY <1>2 DEF StateReceived, Agents
  <2>2. ring' \in Rings
    BY <1>2 DEF StateReceived, Rings
  <2> QED
    BY <1>2, <2>1, <2>2 DEF StateReceived
<1>3. CASE FallbackEffect
  <2>1. [ring EXCEPT !.dirty = FALSE] \in Rings
    BY DEF Rings
  <2>2. Countdown \in 0 .. Countdown
    BY RoomBounds
  <2> QED
    BY <1>3, <2>1, <2>2, RingTypes DEF FallbackEffect
<1>4. CASE SecondPasses
  <2>1. (IF ai.timer = Off THEN Off ELSE ai.timer - 1) \in 0 .. Off
    BY <1>4, RoomBounds DEF SecondPasses, Agents, Off
  <2>2. ai' \in Agents
    <3>1. ai' = [ai EXCEPT !.timer = IF ai.timer = Off THEN Off ELSE ai.timer - 1]
      BY <1>4 DEF SecondPasses, Agents
    <3> QED
      BY <2>1, <3>1 DEF Agents
  <2>3. ring.left > 1 => ring.left - 1 \in 0 .. Off
    BY RoomBounds DEF Rings, Off
  <2>4. ring.left > 1 => [ring EXCEPT !.left = @ - 1] \in Rings
    BY <2>3 DEF Rings
  <2>5. ring' \in Rings
    BY <1>4, <2>4, RingTypes DEF SecondPasses
  <2> QED
    BY <1>4, <2>2, <2>5 DEF SecondPasses
<1>5. CASE EndInterview
  BY <1>5, EndSessionType DEF EndInterview
<1>6. CASE handleVisibilityChange
  <2>1. face' \in Faces
    BY <1>6 DEF handleVisibilityChange, Faces
  <2>2. CASE /\ ai' = [ai EXCEPT !.phase = "gone", !.timer = Off, !.grace = FALSE]
             /\ Publish(<<Say("terminated", 0)>>)
    <3>1. ai' \in Agents
      BY <2>2, RoomCounts DEF Agents
    <3>2. 0 \in 0 .. Countdown
      BY RoomBounds
    <3>3. wire' \in Seq(Messages) /\ Len(wire') <= MaxWire
      BY <2>2, <3>2, SayType, PublishOne
    <3> QED
      BY <1>6, <2>1, <3>1, <3>3 DEF handleVisibilityChange
  <2>3. CASE UNCHANGED <<ai, wire>>
    BY <1>6, <2>1, <2>3 DEF handleVisibilityChange
  <2> QED
    BY <1>6, <2>2, <2>3 DEF handleVisibilityChange
<1>7. ASSUME NEW late \in BOOLEAN, ConnectionLost(late)
      PROVE  RoomTyped'
  <2>1. face.ends + 1 \in Nat
    BY DEF Faces
  <2>2. /\ [face EXCEPT !.connected = FALSE, !.ended = TRUE, !.ends = @ + 1] \in Faces
        /\ [face EXCEPT !.connected = FALSE] \in Faces
    BY <2>1 DEF Faces
  <2>3. \/ ring' = clearCountdown(ring) /\ face' = [face EXCEPT !.connected = FALSE, !.ended = TRUE, !.ends = @ + 1]
        \/ ring' = ring /\ face' = [face EXCEPT !.connected = FALSE]
    BY <1>7, Zenon DEF ConnectionLost
  <2>4. <<>> \in Seq(Messages) /\ Len(<<>>) <= MaxWire
    BY RoomBounds
  <2>5. wire' = <<>> /\ UNCHANGED <<ai, talker, shows>>
    BY <1>7, Zenon DEF ConnectionLost
  <2> QED
    BY <2>2, <2>3, <2>4, <2>5, RingTypes
<1> QED
  BY <1>1, <1>2, <1>3, <1>4, <1>5, <1>6, <1>7

LEMMA RoomTypedInductive == RoomSpec => []RoomTyped
<1>1. RoomInit => RoomTyped
  <2>1. /\ Off \in 0 .. Off /\ Countdown \in 0 .. Countdown /\ 0 \in 0 .. RoomLength /\ 0 \in 0 .. MaxTalks
        /\ Len(<<>>) <= MaxWire
    BY RoomBounds, RoomCounts
  <2> SUFFICES ASSUME RoomInit PROVE RoomTyped
    OBVIOUS
  <2>2. ai \in Agents /\ shows \in AgentStates
    BY <2>1 DEF RoomInit, Agents, AgentStates
  <2>3. wire \in Seq(Messages) /\ Len(wire) <= MaxWire /\ talker \in [speaking : BOOLEAN, talks : 0 .. MaxTalks]
    BY <2>1 DEF RoomInit
  <2>4. ring \in Rings /\ face \in Faces
    BY <2>1 DEF RoomInit, Rings, Faces
  <2> QED
    BY <2>2, <2>3, <2>4 DEF RoomTyped
<1>2. RoomTyped /\ [RoomNext]_roomVars => RoomTyped'
  <2> SUFFICES ASSUME RoomTyped, [RoomNext]_roomVars PROVE RoomTyped'
    OBVIOUS
  <2>1. CASE UNCHANGED roomVars
    BY <2>1 DEF roomVars, RoomTyped
  <2> QED
    BY <2>1, AgentTypes, PageTypes DEF RoomNext
<1> QED
  BY <1>1, <1>2, PTL DEF RoomSpec

(* Every variable of the room keeps its type, whatever the agent publishes  *)
(* and however late it arrives: no countdown is longer than the agent's.    *)
THEOREM RoomTypes == RoomSpec => []RoomTypeOK
<1>1. RoomTyped => RoomTypeOK
  BY DEF RoomTyped, RoomTypeOK, Agents, Rings, Faces
<1> QED
  BY <1>1, RoomTypedInductive, PTL

-----------------------------------------------------------------------------
(* The end of the session.                                                  *)

LEMMA EndSessionOnce ==
  ASSUME RoomTyped, EndedOnce, endSession(ring)
  PROVE  EndedOnce'
<1> USE DEF RoomTyped, EndedOnce
<1>1. CASE face.ended
  <2>1. face' = face /\ ring' = Effect(ring)
    BY <1>1 DEF endSession
  <2> QED
    BY <2>1, RingTypes
<1>2. CASE ~face.ended
  <2>1. face'.ended /\ face'.ends = 1
    BY <1>2 DEF endSession, Faces
  <2>2. ~ring'.counting
    BY <1>2, RingTypes DEF endSession
  <2> QED
    BY <2>1, <2>2
<1> QED
  BY <1>1, <1>2

(* Only endSession and the lost connection end it, and no message starts a  *)
(* countdown after it.                                                      *)
LEMMA HearsOnce ==
  ASSUME RoomTyped, EndedOnce, NEW m \in Messages, Hears(m)
  PROVE  EndedOnce'
<1> USE DEF RoomTyped
<1>1. CASE m.type \in {"session_end", "terminated"}
  BY <1>1, EndSessionOnce DEF Hears
<1>2. ASSUME face'.ended = face.ended, face'.ends = face.ends, ring'.counting => ring.counting \/ ~face.ended
      PROVE  EndedOnce'
  BY <1>2 DEF EndedOnce
<1>3. CASE m.type = "question_progress"
  <2>1. [clearCountdown(ring) EXCEPT !.awaiting = TRUE, !.active = TRUE, !.grace = FALSE, !.talking = FALSE] \in Rings
    BY RingTypes DEF Rings
  <2>2. ~[clearCountdown(ring) EXCEPT !.awaiting = TRUE, !.active = TRUE, !.grace = FALSE, !.talking = FALSE].counting
    BY RingTypes DEF Rings
  <2>3. ~ring'.counting
    BY <1>3, <2>1, <2>2, RingTypes DEF Hears
  <2>4. face'.ended = face.ended /\ face'.ends = face.ends
    BY <1>3 DEF Hears, Faces
  <2> QED
    BY <1>2, <2>3, <2>4
<1>4. CASE m.type = "timer_started"
  <2>1. face' = face /\ (face.ended => ring' = ring)
    BY <1>4 DEF Hears
  <2> QED
    BY <1>2, <2>1
<1>5. CASE m.type = "agent_speaking"
  <2>1. [clearCountdown(ring) EXCEPT !.awaiting = FALSE, !.grace = FALSE, !.talking = FALSE] \in Rings
    BY RingTypes DEF Rings
  <2>2. ~[clearCountdown(ring) EXCEPT !.awaiting = FALSE, !.grace = FALSE, !.talking = FALSE].counting
    BY RingTypes DEF Rings
  <2>3. ~ring'.counting /\ face' = face
    BY <1>5, <2>1, <2>2, RingTypes DEF Hears
  <2> QED
    BY <1>2, <2>3
<1>6. CASE m.type = "user_speaking"
  <2>0. m.n \in 0 .. Off
    BY <1>6, RoomCounts DEF Messages
  <2>1. [freezeCountdown(ring) EXCEPT !.left = m.n, !.grace = FALSE, !.talking = TRUE] \in Rings
    BY <2>0, RingTypes DEF Rings
  <2>2. ~[freezeCountdown(ring) EXCEPT !.left = m.n, !.grace = FALSE, !.talking = TRUE].counting
    BY RingTypes DEF Rings
  <2>3. ~ring'.counting /\ face' = face
    BY <1>6, <2>1, <2>2, RingTypes DEF Hears
  <2> QED
    BY <1>2, <2>3
<1>7. CASE m.type = "grace_period_started"
  <2>1. [clearCountdown(ring) EXCEPT !.grace = TRUE, !.talking = FALSE] \in Rings
    BY RingTypes DEF Rings
  <2>2. ~[clearCountdown(ring) EXCEPT !.grace = TRUE, !.talking = FALSE].counting
    BY RingTypes DEF Rings
  <2>3. ~ring'.counting /\ face' = face
    BY <1>7, <2>1, <2>2, RingTypes DEF Hears
  <2> QED
    BY <1>2, <2>3
<1>8. CASE m.type = "timer_resumed"
  <2> DEFINE r == [ring EXCEPT !.grace = FALSE, !.talking = FALSE]
  <2>1. r \in Rings /\ r.counting = ring.counting
    BY DEF Rings
  <2>2. ring' = Effect(IF r.active /\ ~face.ended THEN startCountdown(r, m.n) ELSE r) /\ face' = face
    BY <1>8 DEF Hears
  <2> HIDE DEF r
  <2>3. face.ended => ring'.counting = ring.counting
    BY <2>1, <2>2, RingTypes
  <2> QED
    BY <1>2, <2>2, <2>3
<1>9. CASE m.type = "interview_closing"
  <2>1. [clearCountdown(ring) EXCEPT !.grace = FALSE, !.talking = FALSE] \in Rings
    BY RingTypes DEF Rings
  <2>2. ~[clearCountdown(ring) EXCEPT !.grace = FALSE, !.talking = FALSE].counting
    BY RingTypes DEF Rings
  <2>3. ~ring'.counting
    BY <1>9, <2>1, <2>2, RingTypes DEF Hears
  <2>4. face'.ended = face.ended /\ face'.ends = face.ends
    BY <1>9 DEF Hears, Faces
  <2> QED
    BY <1>2, <2>3, <2>4
<1> QED
  BY <1>1, <1>3, <1>4, <1>5, <1>6, <1>7, <1>8, <1>9 DEF Messages

(* However the agent's last word, the button, the lost connection and the   *)
(* hidden tab come together, the session is ended once, and no message,     *)
(* effect or tick starts or keeps a countdown afterwards.                   *)
THEOREM RoomEndsOnce == RoomSpec => []EndsOnce
<1>1. RoomInit => EndedOnce
  BY DEF RoomInit, EndedOnce
<1>2. RoomTyped /\ EndedOnce /\ [RoomNext]_roomVars => EndedOnce'
  <2> SUFFICES ASSUME RoomTyped, EndedOnce, [RoomNext]_roomVars PROVE EndedOnce'
    OBVIOUS
  <2> USE DEF RoomTyped
  <2>1. CASE UNCHANGED <<ring, face>>
    BY <2>1 DEF EndedOnce
  <2>2. CASE DataReceived
    <3>1. Head(wire) \in Messages
      BY <2>2 DEF DataReceived
    <3> QED
      BY <2>2, <3>1, HearsOnce DEF DataReceived
  <2>3. CASE StateReceived
    <3>1. ring'.counting = ring.counting
      BY <2>3 DEF StateReceived, Rings
    <3> QED
      BY <2>3, <3>1 DEF StateReceived, EndedOnce
  <2>4. CASE FallbackEffect
    <3>1. face.ended => ring'.counting = ring.counting
      BY <2>4 DEF FallbackEffect, Rings
    <3> QED
      BY <2>4, <3>1 DEF FallbackEffect, EndedOnce
  <2>5. CASE SecondPasses
    <3>1. ring'.counting => ring.counting
      BY <2>5 DEF SecondPasses
    <3> QED
      BY <2>5, <3>1 DEF SecondPasses, EndedOnce
  <2>6. CASE EndInterview
    BY <2>6, EndSessionOnce DEF EndInterview
  <2>7. CASE handleVisibilityChange
    <3>1. face'.ended = face.ended /\ face'.ends = face.ends
      BY <2>7 DEF handleVisibilityChange, Faces
    <3> QED
      BY <2>7, <3>1 DEF handleVisibilityChange, EndedOnce
  <2>8. ASSUME NEW late \in BOOLEAN, ConnectionLost(late)
        PROVE  EndedOnce'
    <3>1. CASE late /\ ~face.ended /\ ~face.violation
      <4>0. face' = [face EXCEPT !.connected = FALSE, !.ended = TRUE, !.ends = @ + 1]
        BY <2>8, <3>1, Zenon DEF ConnectionLost
      <4>1. face'.ended /\ face'.ends = 1
        BY <3>1, <4>0 DEF Faces, EndedOnce
      <4>2. ~ring'.counting
        BY <2>8, <3>1, RingTypes DEF ConnectionLost
      <4> QED
        BY <4>1, <4>2 DEF EndedOnce
    <3>2. CASE ~(late /\ ~face.ended /\ ~face.violation)
      <4>1. face'.ended = face.ended /\ face'.ends = face.ends /\ ring' = ring
        BY <2>8, <3>2 DEF ConnectionLost, Faces
      <4> QED
        BY <4>1 DEF EndedOnce
    <3> QED
      BY <3>1, <3>2
  <2>9. AgentSpeaks \/ AgentListens \/ AgentThinks \/ FirstQuestionDue \/ TalkStarts \/ TalkStops
          \/ GraceEnds \/ Advances \/ AgentLeaves => UNCHANGED <<ring, face>>
    BY DEF AgentSpeaks, AgentListens, AgentThinks, FirstQuestionDue, TalkStarts, TalkStops, GraceEnds,
           Advances, AgentLeaves
  <2> QED
    BY <2>1, <2>2, <2>3, <2>4, <2>5, <2>6, <2>7, <2>8, <2>9 DEF RoomNext, roomVars
<1>3. EndedOnce => EndsOnce
  BY DEF EndedOnce, EndsOnce
<1> QED
  BY <1>1, <1>2, <1>3, RoomTypedInductive, PTL DEF RoomSpec

-----------------------------------------------------------------------------
(* InterviewRoom: the countdown is the agent's.  What the page will know    *)
(* once it has heard everything is what the agent knows now: the last       *)
(* question on the channel, or the one shown, is the agent's, and while a   *)
(* timer is armed nothing is published after it.                            *)

NoQuestion(w) == \A i \in 1 .. Len(w) : w[i].type # "question_progress"
QuestionOnTheWay(w, n) ==
    \E i \in 1 .. Len(w) : /\ w[i].type = "question_progress" /\ w[i].n = n
                           /\ \A j \in i + 1 .. Len(w) : w[j].type # "question_progress"

(* Before the first question there is neither a question nor a timer.       *)
NumbersGrow ==
    /\ ai.question \/ ai.timer # Off => ai.number > 0
    /\ Interviewing /\ ai.state = "speaking" => ai.number > 0

QuestionHeard == face.connected /\ ai.number > 0 =>
    \/ QuestionOnTheWay(wire, ai.number)
    \/ NoQuestion(wire) /\ face.question = ai.number /\ ring.active

(* A timer armed in silence is cancelled with the first word and with the   *)
(* grace period, so that neither is published over it.                      *)
ArmedInSilence ==
    /\ ai.grace => ~talker.speaking
    /\ ai.timer # Off /\ ~ai.over => ~ai.grace /\ ~talker.speaking

TimerHeard == ai.timer # Off /\ ~ai.over /\ face.connected /\ ~face.ended =>
    IF wire = <<>> THEN ai.timer # 0 => ring.counting /\ ring.left >= ai.timer
    ELSE /\ wire[Len(wire)].type \in {"timer_started", "timer_resumed"}
         /\ wire[Len(wire)].n >= ai.timer

CountsSomething == ring.counting => ring.left # Off

CountdownInv == NumbersGrow /\ QuestionHeard /\ ArmedInSilence /\ TimerHeard /\ CountsSomething

LEMMA AppendOther ==
  ASSUME NEW w \in Seq(Messages), NEW m \in Messages, m.type # "question_progress"
  PROVE  /\ NoQuestion(w) => NoQuestion(w \o <<m>>)
         /\ \A n : QuestionOnTheWay(w, n) => QuestionOnTheWay(w \o <<m>>, n)
<1> DEFINE v == w \o <<m>>
<1>1. /\ v \in Seq(Messages) /\ Len(v) = Len(w) + 1 /\ Len(w) \in Nat
      /\ \A i \in 1 .. Len(w) : v[i] = w[i]
      /\ v[Len(w) + 1] = m
  OBVIOUS
<1> HIDE DEF v
<1>2. NoQuestion(w) => NoQuestion(v)
  BY <1>1 DEF NoQuestion
<1>3. ASSUME NEW n, QuestionOnTheWay(w, n) PROVE QuestionOnTheWay(v, n)
  <2>1. PICK i \in 1 .. Len(w) : /\ w[i].type = "question_progress" /\ w[i].n = n
                                 /\ \A j \in i + 1 .. Len(w) : w[j].type # "question_progress"
    BY <1>3 DEF QuestionOnTheWay
  <2>2. i \in 1 .. Len(v) /\ v[i] = w[i]
    BY <1>1
  <2>3. \A j \in i + 1 .. Len(v) : v[j].type # "question_progress"
    BY <1>1, <2>1
  <2> QED
    BY <2>1, <2>2, <2>3 DEF QuestionOnTheWay
<1> QED
  BY <1>2, <1>3 DEF v

LEMMA AppendQuestion ==
  ASSUME NEW w \in Seq(Messages), NEW m \in Messages, m.type = "question_progress"
  PROVE  QuestionOnTheWay(w \o <<m>>, m.n)
<1> DEFINE v == w \o <<m>>
<1>1. v \in Seq(Messages) /\ Len(v) = Len(w) + 1 /\ Len(w) \in Nat /\ v[Len(v)] = m
  OBVIOUS
<1> HIDE DEF v
<1>2. Len(v) \in 1 .. Len(v) /\ Len(v) + 1 .. Len(v) = {}
  BY <1>1
<1>3. QuestionOnTheWay(v, m.n)
  BY <1>1, <1>2 DEF QuestionOnTheWay
<1> QED
  BY <1>3 DEF v

LEMMA TailTells ==
  ASSUME NEW w \in Seq(Messages), w # <<>>
  PROVE  /\ NoQuestion(w) => NoQuestion(Tail(w)) /\ Head(w).type # "question_progress"
         /\ \A n : QuestionOnTheWay(w, n) =>
              \/ QuestionOnTheWay(Tail(w), n)
              \/ NoQuestion(Tail(w)) /\ Head(w).type = "question_progress" /\ Head(w).n = n
<1> DEFINE v == Tail(w)
<1>1. /\ v \in Seq(Messages) /\ Len(w) = Len(v) + 1 /\ Len(v) \in Nat /\ Head(w) = w[1]
      /\ \A i \in 1 .. Len(v) : v[i] = w[i + 1]
  OBVIOUS
<1> HIDE DEF v
<1>2. NoQuestion(w) => NoQuestion(v) /\ Head(w).type # "question_progress"
  <2>1. \A i \in 1 .. Len(v) : i + 1 \in 1 .. Len(w)
    BY <1>1
  <2>2. 1 \in 1 .. Len(w)
    BY <1>1
  <2> QED
    BY <1>1, <2>1, <2>2 DEF NoQuestion
<1>3. ASSUME NEW n, QuestionOnTheWay(w, n)
      PROVE  \/ QuestionOnTheWay(v, n)
             \/ NoQuestion(v) /\ Head(w).type = "question_progress" /\ Head(w).n = n
  <2>1. PICK i \in 1 .. Len(w) : /\ w[i].type = "question_progress" /\ w[i].n = n
                                 /\ \A j \in i + 1 .. Len(w) : w[j].type # "question_progress"
    BY <1>3 DEF QuestionOnTheWay
  <2>2. CASE i = 1
    <3>1. \A j \in 1 .. Len(v) : j + 1 \in i + 1 .. Len(w)
      BY <1>1, <2>2
    <3>2. NoQuestion(v)
      BY <1>1, <2>1, <3>1 DEF NoQuestion
    <3> QED
      BY <1>1, <2>1, <2>2, <3>2
  <2>3. CASE i # 1
    <3> DEFINE k == i - 1
    <3>1. k \in 1 .. Len(v) /\ k + 1 = i
      BY <1>1, <2>3
    <3>2. \A j \in k + 1 .. Len(v) : j + 1 \in i + 1 .. Len(w) /\ j \in 1 .. Len(v)
      BY <1>1, <2>3
    <3> HIDE DEF k
    <3>3. v[k] = w[i] /\ \A j \in k + 1 .. Len(v) : v[j].type # "question_progress"
      BY <1>1, <2>1, <3>1, <3>2
    <3> QED
      BY <2>1, <3>1, <3>3 DEF QuestionOnTheWay
  <2> QED
    BY <2>2, <2>3
<1> QED
  BY <1>2, <1>3 DEF v

(* What the page has heard and what is on its way changes only with a       *)
(* message: one more of another type, or the question the agent comes to.   *)
LEMMA PublishTells ==
  ASSUME RoomTyped, QuestionHeard, UNCHANGED <<ring, face>>,
         \/ ai'.number = ai.number /\ wire' = wire
         \/ /\ ai'.number = ai.number
            /\ \E m \in Messages : m.type # "question_progress" /\ wire' = wire \o <<m>>
         \/ \E w \in Seq(Messages), m \in Messages :
              m.type = "question_progress" /\ m.n = ai'.number /\ wire' = w \o <<m>>
  PROVE  QuestionHeard'
<1> USE DEF RoomTyped
<1>1. CASE ai'.number = ai.number /\ wire' = wire
  BY <1>1 DEF QuestionHeard
<1>2. CASE /\ ai'.number = ai.number
           /\ \E m \in Messages : m.type # "question_progress" /\ wire' = wire \o <<m>>
  BY <1>2, AppendOther DEF QuestionHeard
<1>3. CASE \E w \in Seq(Messages), m \in Messages :
              m.type = "question_progress" /\ m.n = ai'.number /\ wire' = w \o <<m>>
  BY <1>3, AppendQuestion DEF QuestionHeard
<1> QED
  BY <1>1, <1>2, <1>3

LEMMA SayFields == \A type, n : Say(type, n).type = type /\ Say(type, n).n = n
  BY DEF Say

(* The timer is armed in silence, with what it publishes last.              *)
LEMMA ArmTells ==
  ASSUME RoomTyped, CountdownInv, UNCHANGED <<talker, ring, face>>,
         NEW a \in Agents, NEW type \in {"timer_started", "timer_resumed"}, NEW over \in BOOLEAN,
         a.timer = ai.timer, a.over = ai.over, a.number = ai.number, a.phase = ai.phase,
         a.question => a.number > 0, ~a.grace, ~over => ~talker.speaking,
         a.state = "speaking" => ai.state = "speaking",
         Arm(a, type, over)
  PROVE  CountdownInv'
<1> USE DEF RoomTyped
<1>1. CASE Interviewing /\ a.question /\ a.timer = Off
  <2>1. a.left \in 0 .. Countdown /\ a.left \in 0 .. Off
    BY RoomBounds DEF Agents, Off
  <2>2. ai' = [a EXCEPT !.timer = a.left, !.over = over] /\ wire' = wire \o <<Say(type, a.left)>>
    BY <1>1 DEF Arm, Publish
  <2>3. /\ ai'.timer = a.left /\ ai'.over = over /\ ai'.number = ai.number /\ ai'.question = a.question
        /\ ai'.grace = a.grace /\ ai'.phase = ai.phase /\ ai'.state = a.state
    BY <2>2 DEF Agents
  <2>4. Say(type, a.left) \in Messages /\ Say(type, a.left).type = type /\ Say(type, a.left).n = a.left
    BY <2>1, SayType, SayFields
  <2>5. type # "question_progress" /\ wire' # <<>> /\ wire'[Len(wire')] = Say(type, a.left)
    BY <2>2, <2>4
  <2>6. NumbersGrow'
    BY <1>1, <2>3 DEF CountdownInv, NumbersGrow, Interviewing
  <2>7. QuestionHeard'
    BY <2>2, <2>3, <2>4, <2>5, PublishTells DEF CountdownInv
  <2>8. ArmedInSilence'
    BY <2>3 DEF ArmedInSilence
  <2>9. TimerHeard'
    BY <2>1, <2>3, <2>4, <2>5 DEF TimerHeard
  <2> QED
    BY <2>6, <2>7, <2>8, <2>9 DEF CountdownInv, CountsSomething
<1>2. CASE ~(Interviewing /\ a.question /\ a.timer = Off)
  <2>1. ai' = a /\ wire' = wire
    BY <1>2 DEF Arm
  <2>2. NumbersGrow'
    BY <2>1 DEF CountdownInv, NumbersGrow, Interviewing
  <2>3. QuestionHeard'
    BY <2>1, PublishTells DEF CountdownInv
  <2> QED
    BY <2>1, <2>2, <2>3 DEF CountdownInv, ArmedInSilence, TimerHeard, CountsSomething
<1> QED
  BY <1>1, <1>2
(* Any other step of the agent's that publishes leaves no timer.            *)
LEMMA DisarmedTells ==
  ASSUME RoomTyped, CountdownInv, UNCHANGED <<ring, face>>, ai'.timer = Off,
         NumbersGrow', QuestionHeard', ai'.grace => ~talker'.speaking
  PROVE  CountdownInv'
BY DEF CountdownInv, ArmedInSilence, TimerHeard, CountsSomething

LEMMA AgentTells ==
  ASSUME RoomTyped, CountdownInv,
         AgentSpeaks \/ AgentListens \/ AgentThinks \/ FirstQuestionDue \/ TalkStarts \/ TalkStops
           \/ GraceEnds \/ Advances \/ AgentLeaves
  PROVE  CountdownInv'
<1> USE DEF RoomTyped
<1>0. /\ ai.timer \in 0 .. Off /\ ai.left \in 0 .. Countdown /\ ai.number \in 0 .. RoomLength
      /\ (ai.timer # Off => ai.timer \in 0 .. Countdown)
      /\ Off \in 0 .. Off /\ 0 \in 0 .. Countdown /\ Countdown \in 0 .. Countdown
      /\ 0 \in 0 .. RoomLength /\ 1 \in 0 .. RoomLength
  BY RoomBounds, RoomCounts DEF Agents, Off
<1>00. ai.question \/ ai.timer # Off => ai.number > 0
  BY DEF CountdownInv, NumbersGrow
<1>1. CASE AgentSpeaks
  <2>1. /\ ai'.timer = Off /\ ai'.grace = FALSE /\ ai'.question = ai.question /\ ai'.phase = ai.phase
        /\ ai'.number = IF Interviewing /\ ai.number = 0 THEN 1 ELSE ai.number
    BY <1>1 DEF AgentSpeaks, Agents
  <2>2. NumbersGrow'
    BY <1>0, <1>00, <2>1 DEF NumbersGrow, Interviewing
  <2>3. /\ Say("agent_speaking", 0) \in Messages /\ Say("question_progress", 1) \in Messages
        /\ Say("agent_speaking", 0).type = "agent_speaking"
        /\ Say("question_progress", 1).type = "question_progress" /\ Say("question_progress", 1).n = 1
    BY <1>0, SayType, SayFields
  <2>4. UNCHANGED <<ring, face, talker>>
    BY <1>1 DEF AgentSpeaks
  <2>5. CASE Interviewing /\ ai.number = 0
    <3>1. wire' = wire \o (<<Say("agent_speaking", 0)>> \o <<Say("question_progress", 1)>>)
      BY <1>1, <2>5 DEF AgentSpeaks, Publish
    <3> DEFINE w == wire \o <<Say("agent_speaking", 0)>>
    <3>2. wire' = w \o <<Say("question_progress", 1)>> /\ w \in Seq(Messages)
      BY <2>3, <3>1
    <3> HIDE DEF w
    <3>3. QuestionHeard'
      BY <2>1, <2>3, <2>4, <2>5, <3>2, PublishTells DEF CountdownInv
    <3> QED
      BY <2>1, <2>2, <2>4, <3>3, DisarmedTells
  <2>6. CASE Interviewing /\ ai.number # 0
    <3>1. wire' = wire \o (<<Say("agent_speaking", 0)>> \o <<>>)
      BY <1>1, <2>6 DEF AgentSpeaks, Publish
    <3>2. wire' = wire \o <<Say("agent_speaking", 0)>>
      BY <2>3, <3>1
    <3>3. QuestionHeard'
      BY <2>1, <2>3, <2>4, <2>6, <3>2, PublishTells DEF CountdownInv
    <3> QED
      BY <2>1, <2>2, <2>4, <3>3, DisarmedTells
  <2>7. CASE ~Interviewing
    <3>1. wire' = wire
      BY <1>1, <2>7 DEF AgentSpeaks
    <3>2. QuestionHeard'
      BY <2>1, <2>4, <2>7, <3>1, PublishTells DEF CountdownInv
    <3> QED
      BY <2>1, <2>2, <2>4, <3>2, DisarmedTells
  <2> QED
    BY <2>5, <2>6, <2>7
<1>2. CASE AgentListens
  <2>1. PICK asked \in {ai.question, ai.question \/ (Interviewing /\ ai.state = "speaking")} :
          LET a == [ai EXCEPT !.state = "listening", !.question = asked]
          IN  IF a.grace THEN ai' = a /\ UNCHANGED wire ELSE Arm(a, "timer_started", talker.speaking)
    BY <1>2 DEF AgentListens
  <2> DEFINE a == [ai EXCEPT !.state = "listening", !.question = asked]
  <2>2. asked \in BOOLEAN /\ (asked => ai.number > 0)
    BY <1>00 DEF CountdownInv, NumbersGrow, Agents
  <2>3. /\ a \in Agents /\ a.timer = ai.timer /\ a.over = ai.over /\ a.number = ai.number
        /\ a.phase = ai.phase /\ a.question = asked /\ a.grace = ai.grace /\ a.state = "listening"
    BY <2>2 DEF Agents, AgentStates
  <2>4. IF a.grace THEN ai' = a /\ UNCHANGED wire ELSE Arm(a, "timer_started", talker.speaking)
    BY <2>1
  <2>5. talker.speaking \in BOOLEAN /\ UNCHANGED <<talker, ring, face>>
    BY <1>2 DEF AgentListens
  <2> HIDE DEF a
  <2>6. CASE a.grace
    <3>1. ai' = a /\ wire' = wire
      BY <2>4, <2>6
    <3>2. QuestionHeard'
      BY <2>3, <2>5, <3>1, PublishTells DEF CountdownInv
    <3>3. NumbersGrow'
      BY <1>00, <2>2, <2>3, <3>1 DEF NumbersGrow
    <3> QED
      BY <2>3, <2>5, <3>1, <3>2, <3>3 DEF CountdownInv, ArmedInSilence, TimerHeard, CountsSomething
  <2>7. CASE ~a.grace
    <3>1. Arm(a, "timer_started", talker.speaking)
      BY <2>4, <2>7
    <3> QED
      BY <2>2, <2>3, <2>5, <2>7, <3>1, ArmTells
  <2> QED
    BY <2>6, <2>7
<1>3. CASE AgentThinks
  <2>1. /\ ai'.timer = ai.timer /\ ai'.grace = ai.grace /\ ai'.question = ai.question /\ ai'.number = ai.number
        /\ ai'.over = ai.over /\ ai'.state = "thinking" /\ UNCHANGED <<wire, talker, ring, face>>
    BY <1>3 DEF AgentThinks, Agents
  <2>2. QuestionHeard'
    BY <2>1, PublishTells DEF CountdownInv
  <2>3. NumbersGrow'
    BY <1>00, <2>1 DEF NumbersGrow
  <2> QED
    BY <2>1, <2>2, <2>3 DEF CountdownInv, ArmedInSilence, TimerHeard, CountsSomething
<1>4. CASE FirstQuestionDue
  <2>1. /\ ai'.timer = ai.timer /\ ai'.grace = ai.grace /\ ai'.question = ai.question /\ ai'.number = ai.number
        /\ ai'.over = ai.over /\ ai'.state # "speaking" /\ UNCHANGED <<wire, talker, ring, face>>
    BY <1>4 DEF FirstQuestionDue, Agents
  <2>2. QuestionHeard'
    BY <2>1, PublishTells DEF CountdownInv
  <2>3. NumbersGrow'
    BY <1>00, <2>1 DEF NumbersGrow
  <2> QED
    BY <2>1, <2>2, <2>3 DEF CountdownInv, ArmedInSilence, TimerHeard, CountsSomething
<1>5. CASE TalkStarts
  <2> DEFINE left == IF ai.timer = Off THEN ai.left ELSE ai.timer
  <2>1. left \in 0 .. Countdown
    BY <1>0
  <2>2. ai' = [ai EXCEPT !.grace = FALSE, !.left = left, !.timer = Off]
        /\ wire' = wire \o <<Say("user_speaking", left)>> /\ UNCHANGED <<ring, face>>
    BY <1>5 DEF TalkStarts, Publish
  <2> HIDE DEF left
  <2>3. /\ ai'.timer = Off /\ ai'.grace = FALSE /\ ai'.question = ai.question /\ ai'.number = ai.number
        /\ ai'.state = ai.state /\ ai'.phase = ai.phase
    BY <2>2 DEF Agents
  <2>4. Say("user_speaking", left) \in Messages /\ Say("user_speaking", left).type # "question_progress"
    BY <2>1, SayType, SayFields
  <2>5. QuestionHeard'
    BY <2>2, <2>3, <2>4, PublishTells DEF CountdownInv
  <2>6. NumbersGrow'
    BY <2>3 DEF CountdownInv, NumbersGrow, Interviewing
  <2> QED
    BY <2>2, <2>3, <2>5, <2>6, DisarmedTells
<1>6. CASE TalkStops
  <2>1. talker'.speaking = FALSE /\ UNCHANGED <<ring, face>> /\ talker.speaking
    BY <1>6 DEF TalkStops
  <2>2. CASE Interviewing /\ ai.state = "listening"
    <3>1. ai' = [ai EXCEPT !.grace = TRUE] /\ wire' = wire \o <<Say("grace_period_started", ai.left)>>
      BY <1>6, <2>2 DEF TalkStops, Publish
    <3>2. /\ ai'.timer = ai.timer /\ ai'.question = ai.question /\ ai'.number = ai.number
          /\ ai'.state = ai.state /\ ai'.phase = ai.phase /\ ai'.over = ai.over
      BY <3>1 DEF Agents
    <3>3. /\ Say("grace_period_started", ai.left) \in Messages
          /\ Say("grace_period_started", ai.left).type # "question_progress"
      BY <1>0, SayType, SayFields
    <3>4. QuestionHeard'
      BY <2>1, <3>1, <3>2, <3>3, PublishTells DEF CountdownInv
    <3>5. NumbersGrow'
      BY <3>2 DEF CountdownInv, NumbersGrow, Interviewing
    <3>6. ai.timer # Off => ai.over
      BY <2>1 DEF CountdownInv, ArmedInSilence
    <3> QED
      BY <2>1, <3>2, <3>4, <3>5, <3>6 DEF CountdownInv, ArmedInSilence, TimerHeard, CountsSomething
  <2>3. CASE ~(Interviewing /\ ai.state = "listening")
    <3>1. ai' = ai /\ wire' = wire
      BY <1>6, <2>3 DEF TalkStops
    <3>2. QuestionHeard'
      BY <2>1, <3>1, PublishTells DEF CountdownInv
    <3> QED
      BY <2>1, <3>1, <3>2
      DEF CountdownInv, NumbersGrow, Interviewing, ArmedInSilence, TimerHeard, CountsSomething
  <2> QED
    BY <2>2, <2>3
<1>7. CASE GraceEnds
  <2>0. ~talker.speaking /\ UNCHANGED <<talker, ring, face>> /\ ai.grace
    BY <1>7 DEF GraceEnds, CountdownInv, ArmedInSilence
  <2>1. CASE Arm([ai EXCEPT !.grace = FALSE], "timer_resumed", FALSE)
    <3> DEFINE a == [ai EXCEPT !.grace = FALSE]
    <3>1. /\ a \in Agents /\ a.timer = ai.timer /\ a.over = ai.over /\ a.number = ai.number
          /\ a.phase = ai.phase /\ a.question = ai.question /\ a.grace = FALSE /\ a.state = ai.state
      BY DEF Agents
    <3>2. Arm(a, "timer_resumed", FALSE)
      BY <2>1
    <3> HIDE DEF a
    <3> QED
      BY <1>00, <2>0, <3>1, <3>2, ArmTells
  <2>2. CASE /\ ai' = [ai EXCEPT !.grace = FALSE, !.confirming = TRUE]
             /\ Publish(<<Say("grace_period_started", ai.left)>>)
    <3>1. wire' = wire \o <<Say("grace_period_started", ai.left)>>
      BY <2>2 DEF Publish
    <3>2. /\ ai'.timer = ai.timer /\ ai'.question = ai.question /\ ai'.number = ai.number /\ ai'.grace = FALSE
          /\ ai'.state = ai.state /\ ai'.phase = ai.phase /\ ai'.over = ai.over
      BY <2>2 DEF Agents
    <3>3. /\ Say("grace_period_started", ai.left) \in Messages
          /\ Say("grace_period_started", ai.left).type # "question_progress"
      BY <1>0, SayType, SayFields
    <3>4. QuestionHeard'
      BY <2>0, <3>1, <3>2, <3>3, PublishTells DEF CountdownInv
    <3>5. NumbersGrow'
      BY <3>2 DEF CountdownInv, NumbersGrow, Interviewing
    <3>6. ai.timer # Off => ai.over
      BY <2>0 DEF CountdownInv, ArmedInSilence
    <3> QED
      BY <2>0, <3>2, <3>4, <3>5, <3>6 DEF CountdownInv, ArmedInSilence, TimerHeard, CountsSomething
  <2> QED
    BY <1>7, <2>1, <2>2 DEF GraceEnds
<1>8. CASE Advances
  <2> DEFINE a == [ai EXCEPT !.timer = Off, !.grace = FALSE, !.confirming = FALSE, !.left = Countdown,
                             !.question = FALSE]
  <2>1. /\ a \in Agents /\ a.number = ai.number /\ a.timer = Off /\ a.grace = FALSE /\ a.question = FALSE
        /\ a.state = ai.state /\ a.phase = ai.phase
    BY <1>0 DEF Agents
  <2>2. UNCHANGED <<talker, ring, face>> /\ ai.number > 0
    BY <1>8, <1>00 DEF Advances
  <2>3. CASE ai.number = RoomLength
    <3>1. ai' = [a EXCEPT !.phase = "closing"] /\ wire' = wire \o <<Say("interview_closing", 0)>>
      BY <1>8, <2>3 DEF Advances, Publish
    <3> HIDE DEF a
    <3>2. ai'.timer = Off /\ ai'.grace = FALSE /\ ai'.number = ai.number
      BY <2>1, <3>1 DEF Agents
    <3>3. /\ Say("interview_closing", 0) \in Messages
          /\ Say("interview_closing", 0).type # "question_progress"
      BY <1>0, SayType, SayFields
    <3>4. QuestionHeard'
      BY <2>2, <3>1, <3>2, <3>3, PublishTells DEF CountdownInv
    <3>5. NumbersGrow'
      BY <2>2, <3>2 DEF NumbersGrow
    <3> QED
      BY <2>2, <3>2, <3>4, <3>5, DisarmedTells
  <2>4. CASE ai.number # RoomLength
    <3> DEFINE n == ai.number + 1
    <3>0. n \in 0 .. RoomLength /\ n > 0
      BY <1>0, <2>4, RoomBounds
    <3>1. ai' = [a EXCEPT !.number = n] /\ wire' = wire \o <<Say("question_progress", n)>>
      BY <1>8, <2>1, <2>4 DEF Advances, Publish
    <3> HIDE DEF a, n
    <3>2. ai'.timer = Off /\ ai'.grace = FALSE /\ ai'.number = n
      BY <2>1, <3>1 DEF Agents
    <3>3. /\ Say("question_progress", n) \in Messages
          /\ Say("question_progress", n).type = "question_progress" /\ Say("question_progress", n).n = n
      BY <3>0, SayType, SayFields
    <3>4. QuestionHeard'
      BY <2>2, <3>1, <3>2, <3>3, PublishTells DEF CountdownInv
    <3>5. NumbersGrow'
      BY <3>0, <3>2 DEF NumbersGrow
    <3> QED
      BY <2>2, <3>2, <3>4, <3>5, DisarmedTells
  <2> QED
    BY <2>3, <2>4
<1>9. CASE AgentLeaves
  <2>1. /\ ai'.timer = Off /\ ai'.grace = FALSE /\ ai'.number = ai.number /\ ai'.question = ai.question
        /\ ai'.phase = "gone"
    BY <1>9 DEF AgentLeaves, Agents
  <2>2. wire' = wire \o <<Say("session_end", 0)>> /\ UNCHANGED <<talker, ring, face>>
    BY <1>9 DEF AgentLeaves, Publish
  <2>3. Say("session_end", 0) \in Messages /\ Say("session_end", 0).type # "question_progress"
    BY <1>0, SayType, SayFields
  <2>4. QuestionHeard'
    BY <2>1, <2>2, <2>3, PublishTells DEF CountdownInv
  <2>5. NumbersGrow'
    BY <1>00, <2>1 DEF NumbersGrow, Interviewing
  <2> QED
    BY <2>1, <2>2, <2>4, <2>5, DisarmedTells
<1> QED
  BY <1>1, <1>2, <1>3, <1>4, <1>5, <1>6, <1>7, <1>8, <1>9
-----------------------------------------------------------------------------
(* The page's side.                                                         *)

LEMMA EffectKeeps ==
  ASSUME NEW r \in Rings
  PROVE  Effect(r) \in Rings /\ Effect(r).left = r.left /\ Effect(r).counting = r.counting
         /\ Effect(r).active = r.active
<1>1. /\ [r EXCEPT !.dirty = TRUE] \in Rings /\ [r EXCEPT !.dirty = TRUE].counting = r.counting
      /\ [r EXCEPT !.dirty = TRUE].left = r.left /\ [r EXCEPT !.dirty = TRUE].active = r.active
  BY DEF Rings
<1> QED
  BY <1>1 DEF Effect

LEMMA EndSessionTells ==
  ASSUME RoomTyped, CountsSomething, endSession(ring)
  PROVE  /\ face'.question = face.question /\ face'.connected = face.connected /\ face'.ended
         /\ ring'.active = ring.active /\ CountsSomething'
<1> USE DEF RoomTyped
<1>1. CASE face.ended
  BY <1>1, EffectKeeps DEF endSession, CountsSomething
<1>2. CASE ~face.ended
  <2>1. /\ face'.question = face.question /\ face'.connected = face.connected /\ face'.ended
    BY <1>2 DEF endSession, Faces
  <2> DEFINE r == Effect(ring)
  <2>2. r \in Rings /\ r.active = ring.active
    BY EffectKeeps
  <2>3. ring' = clearCountdown(r)
    BY <1>2 DEF endSession
  <2> HIDE DEF r
  <2>4. ring'.active = ring.active /\ ring'.counting = FALSE
    BY <2>2, <2>3 DEF clearCountdown, Rings
  <2> QED
    BY <2>1, <2>4 DEF CountsSomething
<1> QED
  BY <1>1, <1>2

(* What a message leaves of the page: the question if it says one, the      *)
(* agent's countdown if it says that.                                       *)
LEMMA HearsTells ==
  ASSUME RoomTyped, CountsSomething, NEW m \in Messages, Hears(m)
  PROVE  /\ face'.question = IF m.type = "question_progress" THEN m.n ELSE face.question
         /\ face'.connected = face.connected
         /\ face.ended => face'.ended
         /\ ring.active \/ m.type = "question_progress" => ring'.active
         /\ m.type \in {"timer_started", "timer_resumed"} /\ ring.active /\ ~face'.ended =>
              ring'.counting /\ ring'.left = m.n
         /\ CountsSomething'
<1> USE DEF RoomTyped
<1>0. m.n \in Nat /\ (m.type # "question_progress" => m.n \in 0 .. Countdown /\ m.n # Off)
  BY RoomBounds DEF Messages, Off
<1>01. m.type # "question_progress" => m.n \in 0 .. Off
  BY <1>0, RoomCounts
<1>1. CASE m.type = "question_progress"
  <2> DEFINE c == clearCountdown(ring)
  <2>1. c \in Rings /\ c.counting = FALSE
    BY RingTypes, RoomCounts DEF clearCountdown, Rings
  <2>2. ring' = Effect([c EXCEPT !.awaiting = TRUE, !.active = TRUE, !.grace = FALSE, !.talking = FALSE])
    BY <1>1 DEF Hears
  <2> HIDE DEF c
  <2> DEFINE r == [c EXCEPT !.awaiting = TRUE, !.active = TRUE, !.grace = FALSE, !.talking = FALSE]
  <2>3. r \in Rings /\ r.counting = FALSE /\ r.active = TRUE
    BY <2>1 DEF Rings
  <2>4. ring'.counting = FALSE /\ ring'.active = TRUE
    BY <2>2, <2>3, EffectKeeps
  <2>5. face' = [face EXCEPT !.question = m.n]
    BY <1>1 DEF Hears
  <2>6. face'.question = m.n /\ face'.connected = face.connected /\ face'.ended = face.ended
    BY <2>5 DEF Faces
  <2> QED
    BY <1>1, <2>4, <2>6 DEF CountsSomething
<1>2. CASE m.type = "timer_started"
  <2>1. face' = face /\ (face.ended => ring' = ring)
    BY <1>2 DEF Hears
  <2>2. ASSUME ~face.ended PROVE ring'.counting = TRUE /\ ring'.left = m.n /\ ring'.active = TRUE
    <3> DEFINE b == [ring EXCEPT !.awaiting = FALSE, !.active = TRUE, !.grace = FALSE]
    <3>1. b \in Rings /\ b.active = TRUE
      BY DEF Rings
    <3>2. ring' = Effect(startCountdown(b, m.n))
      BY <1>2, <2>2 DEF Hears
    <3> HIDE DEF b
    <3> DEFINE r == startCountdown(b, m.n)
    <3>3. r \in Rings /\ r.counting = TRUE /\ r.left = m.n /\ r.active = TRUE
      BY <1>01, <1>2, <3>1 DEF startCountdown, Rings
    <3> QED
      BY <3>2, <3>3, EffectKeeps
  <2> QED
    BY <1>0, <1>2, <2>1, <2>2 DEF CountsSomething
<1>3. CASE m.type = "agent_speaking"
  <2> DEFINE c == clearCountdown(ring)
  <2>1. c \in Rings /\ c.counting = FALSE /\ c.active = ring.active
    BY RingTypes, RoomCounts DEF clearCountdown, Rings
  <2>2. face' = face /\ ring' = Effect([c EXCEPT !.awaiting = FALSE, !.grace = FALSE, !.talking = FALSE])
    BY <1>3 DEF Hears
  <2> HIDE DEF c
  <2> DEFINE r == [c EXCEPT !.awaiting = FALSE, !.grace = FALSE, !.talking = FALSE]
  <2>3. r \in Rings /\ r.counting = FALSE /\ r.active = ring.active
    BY <2>1 DEF Rings
  <2>4. ring'.counting = FALSE /\ ring'.active = ring.active
    BY <2>2, <2>3, EffectKeeps
  <2> QED
    BY <1>3, <2>2, <2>4 DEF CountsSomething
<1>4. CASE m.type = "user_speaking"
  <2> DEFINE c == freezeCountdown(ring)
  <2>1. c \in Rings /\ c.counting = FALSE /\ c.active = ring.active
    BY RingTypes DEF freezeCountdown, Rings
  <2>2. face' = face /\ ring' = Effect([c EXCEPT !.left = m.n, !.grace = FALSE, !.talking = TRUE])
    BY <1>4 DEF Hears
  <2> HIDE DEF c
  <2> DEFINE r == [c EXCEPT !.left = m.n, !.grace = FALSE, !.talking = TRUE]
  <2>3. r \in Rings /\ r.counting = FALSE /\ r.active = ring.active
    BY <1>01, <1>4, <2>1 DEF Rings
  <2>4. ring'.counting = FALSE /\ ring'.active = ring.active
    BY <2>2, <2>3, EffectKeeps
  <2> QED
    BY <1>4, <2>2, <2>4 DEF CountsSomething
<1>5. CASE m.type = "grace_period_started"
  <2> DEFINE c == clearCountdown(ring)
  <2>1. c \in Rings /\ c.counting = FALSE /\ c.active = ring.active
    BY RingTypes, RoomCounts DEF clearCountdown, Rings
  <2>2. face' = face /\ ring' = Effect([c EXCEPT !.grace = TRUE, !.talking = FALSE])
    BY <1>5 DEF Hears
  <2> HIDE DEF c
  <2> DEFINE r == [c EXCEPT !.grace = TRUE, !.talking = FALSE]
  <2>3. r \in Rings /\ r.counting = FALSE /\ r.active = ring.active
    BY <2>1 DEF Rings
  <2>4. ring'.counting = FALSE /\ ring'.active = ring.active
    BY <2>2, <2>3, EffectKeeps
  <2> QED
    BY <1>5, <2>2, <2>4 DEF CountsSomething
<1>6. CASE m.type = "timer_resumed"
  <2> DEFINE b == [ring EXCEPT !.grace = FALSE, !.talking = FALSE]
  <2>1. b \in Rings /\ b.active = ring.active /\ b.counting = ring.counting /\ b.left = ring.left
    BY DEF Rings
  <2>2. /\ ring' = Effect(IF b.active /\ ~face.ended THEN startCountdown(b, m.n) ELSE b)
        /\ face' = face
    BY <1>6 DEF Hears
  <2> HIDE DEF b
  <2>3. CASE ring.active /\ ~face.ended
    <3> DEFINE r == startCountdown(b, m.n)
    <3>1. r \in Rings /\ r.counting = TRUE /\ r.left = m.n /\ r.active = ring.active
      BY <1>01, <1>6, <2>1 DEF startCountdown, Rings
    <3>2. ring' = Effect(r)
      BY <2>1, <2>2, <2>3
    <3>3. ring'.counting = TRUE /\ ring'.left = m.n /\ ring'.active = ring.active
      BY <3>1, <3>2, EffectKeeps
    <3> QED
      BY <1>0, <1>6, <2>2, <3>3 DEF CountsSomething
  <2>4. CASE ~(ring.active /\ ~face.ended)
    <3>1. ring' = Effect(b)
      BY <2>1, <2>2, <2>4
    <3>2. ring'.counting = ring.counting /\ ring'.left = ring.left /\ ring'.active = ring.active
      BY <2>1, <3>1, EffectKeeps
    <3> QED
      BY <1>6, <2>2, <2>4, <3>2 DEF CountsSomething
  <2> QED
    BY <2>3, <2>4
<1>7. CASE m.type \in {"session_end", "terminated"}
  <2>1. endSession(ring)
    BY <1>7 DEF Hears
  <2> QED
    BY <1>7, <2>1, EndSessionTells
<1>8. CASE m.type = "interview_closing"
  <2> DEFINE c == clearCountdown(ring)
  <2>1. c \in Rings /\ c.counting = FALSE /\ c.active = ring.active
    BY RingTypes, RoomCounts DEF clearCountdown, Rings
  <2>2. /\ face' = [face EXCEPT !.closing = TRUE]
        /\ ring' = Effect([c EXCEPT !.grace = FALSE, !.talking = FALSE])
    BY <1>8 DEF Hears
  <2> HIDE DEF c
  <2> DEFINE r == [c EXCEPT !.grace = FALSE, !.talking = FALSE]
  <2>3. r \in Rings /\ r.counting = FALSE /\ r.active = ring.active
    BY <2>1 DEF Rings
  <2>4. ring'.counting = FALSE /\ ring'.active = ring.active
    BY <2>2, <2>3, EffectKeeps
  <2>5. face'.question = face.question /\ face'.connected = face.connected /\ face'.ended = face.ended
    BY <2>2 DEF Faces
  <2> QED
    BY <1>8, <2>4, <2>5 DEF CountsSomething
<1> QED
  BY <1>1, <1>2, <1>3, <1>4, <1>5, <1>6, <1>7, <1>8 DEF Messages
LEMMA DataTells ==
  ASSUME RoomTyped, CountdownInv, DataReceived
  PROVE  CountdownInv'
<1> USE DEF RoomTyped
<1> DEFINE m == Head(wire)
<1>1. /\ m \in Messages /\ Hears(m) /\ wire' = Tail(wire) /\ wire # <<>> /\ face.connected
      /\ UNCHANGED <<ai, talker>>
  BY DEF DataReceived
<1>2. /\ m = wire[1] /\ Len(wire) \in Nat
      /\ Len(Tail(wire)) = Len(wire) - 1
      /\ Tail(wire) # <<>> => Tail(wire)[Len(Tail(wire))] = wire[Len(wire)]
      /\ Tail(wire) = <<>> => Len(wire) = 1
  <2>1. wire \in Seq(Messages) /\ wire # <<>> /\ Len(wire) \in Nat \ {0}
    BY <1>1
  <2>2. Tail(wire) \in Seq(Messages) /\ Len(Tail(wire)) = Len(wire) - 1 /\ m = wire[1]
    BY <2>1
  <2>3. \A i \in 1 .. Len(wire) - 1 : Tail(wire)[i] = wire[i + 1]
    BY <2>1
  <2> DEFINE v == Tail(wire)
  <2>4. v \in Seq(Messages) /\ Len(v) = Len(wire) - 1 /\ \A i \in 1 .. Len(wire) - 1 : v[i] = wire[i + 1]
    BY <2>2, <2>3
  <2> HIDE DEF v
  <2>5. v # <<>> => Len(v) \in 1 .. Len(wire) - 1 /\ Len(v) + 1 = Len(wire)
    BY <2>1, <2>4
  <2>6. v = <<>> => Len(wire) = 1
    BY <2>1, <2>4
  <2>7. v # <<>> => v[Len(v)] = wire[Len(wire)]
    BY <2>4, <2>5
  <2> QED
    BY <2>1, <2>2, <2>6, <2>7 DEF v
<1> HIDE DEF m
<1>3. CountsSomething
  BY DEF CountdownInv
<1>4. /\ face'.question = IF m.type = "question_progress" THEN m.n ELSE face.question
      /\ face'.connected = face.connected
      /\ face.ended => face'.ended
      /\ ring.active \/ m.type = "question_progress" => ring'.active
      /\ m.type \in {"timer_started", "timer_resumed"} /\ ring.active /\ ~face'.ended =>
           ring'.counting /\ ring'.left = m.n
      /\ CountsSomething'
  BY <1>1, <1>3, HearsTells
<1>5. QuestionHeard'
  <2> SUFFICES ASSUME ai.number > 0
               PROVE  \/ QuestionOnTheWay(Tail(wire), ai.number)
                      \/ NoQuestion(Tail(wire)) /\ face'.question = ai.number /\ ring'.active
    BY <1>1 DEF QuestionHeard
  <2>1. CASE QuestionOnTheWay(wire, ai.number)
    BY <1>1, <1>4, <2>1, TailTells DEF m
  <2>2. CASE NoQuestion(wire) /\ face.question = ai.number /\ ring.active
    BY <1>1, <1>4, <2>2, TailTells DEF m
  <2> QED
    BY <1>1, <2>1, <2>2 DEF CountdownInv, QuestionHeard
<1>6. TimerHeard'
  <2> SUFFICES ASSUME ai.timer # Off, ~ai.over, ~face'.ended
               PROVE  IF Tail(wire) = <<>> THEN ai.timer # 0 => ring'.counting /\ ring'.left >= ai.timer
                      ELSE /\ wire[Len(wire)].type \in {"timer_started", "timer_resumed"}
                           /\ wire[Len(wire)].n >= ai.timer
    BY <1>1, <1>2 DEF TimerHeard
  <2>1. wire[Len(wire)].type \in {"timer_started", "timer_resumed"} /\ wire[Len(wire)].n >= ai.timer
    BY <1>1, <1>4 DEF CountdownInv, TimerHeard
  <2>2. ASSUME Tail(wire) = <<>> PROVE ring'.counting /\ ring'.left >= ai.timer
    <3>1. m.type \in {"timer_started", "timer_resumed"} /\ m.n >= ai.timer
      BY <1>2, <2>1, <2>2
    <3>2. ai.number > 0
      BY DEF CountdownInv, NumbersGrow
    <3>3. ~QuestionOnTheWay(wire, ai.number)
      BY <1>2, <2>2, <3>1 DEF QuestionOnTheWay
    <3>4. ring.active
      BY <1>1, <3>2, <3>3 DEF CountdownInv, QuestionHeard
    <3> QED
      BY <1>4, <3>1, <3>4
  <2> QED
    BY <2>1, <2>2
<1>7. NumbersGrow' /\ ArmedInSilence'
  BY <1>1 DEF CountdownInv, NumbersGrow, Interviewing, ArmedInSilence
<1> QED
  BY <1>4, <1>5, <1>6, <1>7 DEF CountdownInv

LEMMA PageTells ==
  ASSUME RoomTyped, CountdownInv,
         \/ StateReceived \/ FallbackEffect \/ SecondPasses \/ EndInterview
         \/ handleVisibilityChange \/ \E late \in BOOLEAN : ConnectionLost(late)
  PROVE  CountdownInv'
<1> USE DEF RoomTyped
<1>1. CASE StateReceived
  <2>1. UNCHANGED <<ai, wire, talker, face>>
    BY <1>1 DEF StateReceived
  <2>2. ring'.active = ring.active /\ ring'.counting = ring.counting /\ ring'.left = ring.left
    BY <1>1 DEF StateReceived, Rings
  <2> QED
    BY <2>1, <2>2
    DEF CountdownInv, NumbersGrow, Interviewing, QuestionHeard, ArmedInSilence, TimerHeard, CountsSomething
<1>2. CASE FallbackEffect
  <2> DEFINE b == [ring EXCEPT !.dirty = FALSE]
  <2>1. UNCHANGED <<ai, wire, talker, face>>
    BY <1>2 DEF FallbackEffect
  <2>2. b \in Rings /\ b.active = ring.active /\ b.counting = ring.counting /\ b.left = ring.left
    BY DEF Rings
  <2>3. ring' = b \/ (~b.counting /\ ring' = startCountdown(b, Countdown))
    BY <1>2 DEF FallbackEffect
  <2> HIDE DEF b
  <2>4. Countdown \in 0 .. Off /\ Countdown # Off
    BY RoomBounds DEF Off
  <2>5. \/ ring'.active = ring.active /\ ring'.counting = ring.counting /\ ring'.left = ring.left
        \/ ~ring.counting /\ ring'.active = ring.active /\ ring'.left # Off
    BY <2>2, <2>3, <2>4 DEF startCountdown, Rings
  <2> QED
    BY <2>1, <2>5
    DEF CountdownInv, NumbersGrow, Interviewing, QuestionHeard, ArmedInSilence, TimerHeard, CountsSomething
<1>3. CASE SecondPasses
  <2> DEFINE t == IF ai.timer = Off THEN Off ELSE ai.timer - 1
  <2>1. t \in 0 .. Off /\ (ai.timer = Off <=> t = Off) /\ (t # Off => t = ai.timer - 1)
    BY <1>3, RoomBounds DEF SecondPasses, Agents, Off
  <2>2. ai' = [ai EXCEPT !.timer = t] /\ UNCHANGED <<wire, talker, face>>
    BY <1>3 DEF SecondPasses, Agents
  <2> HIDE DEF t
  <2>3. /\ ai'.timer = t /\ ai'.over = ai.over /\ ai'.number = ai.number /\ ai'.question = ai.question
        /\ ai'.grace = ai.grace /\ ai'.state = ai.state /\ ai'.phase = ai.phase
    BY <2>2 DEF Agents
  <2> DEFINE left == ring.left - 1
  <2>4. /\ ring.left \in 0 .. Off /\ ai.timer \in 0 .. Off
        /\ (ring.left > 1 => left \in 0 .. Off /\ left # Off)
    BY RoomBounds DEF Rings, Agents, Off
  <2>5. /\ ring'.active = ring.active
        /\ ~ring.counting => ring' = ring
        /\ ring.counting /\ ring.left > 1 => ring'.left = left /\ ring'.counting
        /\ ring.counting /\ ~(ring.left > 1) => ~ring'.counting
    <3>1. CASE ~ring.counting
      BY <1>3, <3>1 DEF SecondPasses
    <3>2. CASE ring.counting /\ ring.left > 1
      <4>1. ring' = [ring EXCEPT !.left = left]
        BY <1>3, <3>2 DEF SecondPasses, Rings
      <4> HIDE DEF left
      <4> QED
        BY <2>4, <3>2, <4>1 DEF Rings
    <3>3. CASE ring.counting /\ ~(ring.left > 1)
      <4>1. ring' = clearCountdown(ring)
        BY <1>3, <3>3 DEF SecondPasses
      <4> QED
        BY <3>3, <4>1, RoomCounts DEF clearCountdown, Rings
    <3> QED
      BY <3>1, <3>2, <3>3
  <2>6. NumbersGrow' /\ ArmedInSilence'
    BY <2>1, <2>2, <2>3 DEF CountdownInv, NumbersGrow, Interviewing, ArmedInSilence
  <2>7. QuestionHeard'
    BY <2>2, <2>3, <2>5 DEF CountdownInv, QuestionHeard
  <2>8. CountsSomething'
    BY <2>4, <2>5 DEF CountdownInv, CountsSomething
  <2>9. TimerHeard'
    <3> SUFFICES ASSUME t # Off, ~ai.over, face.connected, ~face.ended
                 PROVE  IF wire = <<>> THEN t # 0 => ring'.counting /\ ring'.left >= t
                        ELSE /\ wire[Len(wire)].type \in {"timer_started", "timer_resumed"}
                             /\ wire[Len(wire)].n >= t
      BY <2>2, <2>3 DEF TimerHeard
    <3>1. ai.timer # Off /\ t = ai.timer - 1 /\ ai.timer # 0
      BY <1>3, <2>1 DEF SecondPasses
    <3>2. CASE wire = <<>>
      <4>1. ring.counting /\ ring.left >= ai.timer
        BY <3>1, <3>2 DEF CountdownInv, TimerHeard
      <4> QED
        BY <2>1, <2>4, <2>5, <3>1, <3>2, <4>1
    <3>3. CASE wire # <<>>
      <4>1. /\ wire[Len(wire)].type \in {"timer_started", "timer_resumed"}
            /\ wire[Len(wire)].n >= ai.timer
        BY <3>1, <3>3 DEF CountdownInv, TimerHeard
      <4>2. wire[Len(wire)].n \in Nat
        <5>1. wire[Len(wire)] \in Messages
          BY <3>3
        <5> QED
          BY <5>1, RoomBounds DEF Messages
      <4> QED
        BY <2>4, <3>1, <3>3, <4>1, <4>2
    <3> QED
      BY <3>2, <3>3
  <2> QED
    BY <2>6, <2>7, <2>8, <2>9 DEF CountdownInv
<1>4. CASE EndInterview
  <2>1. endSession(ring) /\ UNCHANGED <<ai, wire, talker>>
    BY <1>4 DEF EndInterview
  <2>2. /\ face'.question = face.question /\ face'.connected = face.connected /\ face'.ended
        /\ ring'.active = ring.active /\ CountsSomething'
    BY <2>1, EndSessionTells DEF CountdownInv
  <2> QED
    BY <2>1, <2>2 DEF CountdownInv, NumbersGrow, Interviewing, QuestionHeard, ArmedInSilence, TimerHeard
<1>5. CASE handleVisibilityChange
  <2>1. /\ face' = [face EXCEPT !.violation = TRUE]
        /\ UNCHANGED <<talker, ring>>
    BY <1>5 DEF handleVisibilityChange
  <2>2. face'.question = face.question /\ face'.connected = face.connected /\ face'.ended = face.ended
    BY <2>1 DEF Faces
  <2>3. CASE UNCHANGED <<ai, wire>>
    BY <2>1, <2>2, <2>3
    DEF CountdownInv, NumbersGrow, Interviewing, QuestionHeard, ArmedInSilence, TimerHeard, CountsSomething
  <2>4. CASE /\ ai' = [ai EXCEPT !.phase = "gone", !.timer = Off, !.grace = FALSE]
             /\ Publish(<<Say("terminated", 0)>>)
    <3>1. /\ ai'.timer = Off /\ ai'.grace = FALSE /\ ai'.number = ai.number /\ ai'.question = ai.question
          /\ ai'.phase = "gone"
      BY <2>4 DEF Agents
    <3>2. wire' = wire \o <<Say("terminated", 0)>>
      BY <2>4 DEF Publish
    <3>3. Say("terminated", 0) \in Messages /\ Say("terminated", 0).type # "question_progress"
      <4>1. 0 \in 0 .. Countdown
        BY RoomBounds
      <4> QED
        BY <4>1, SayType, SayFields
    <3>4. QuestionHeard'
      BY <2>1, <2>2, <3>1, <3>2, <3>3, AppendOther DEF CountdownInv, QuestionHeard
    <3> QED
      BY <2>1, <2>2, <3>1, <3>4
      DEF CountdownInv, NumbersGrow, Interviewing, ArmedInSilence, TimerHeard, CountsSomething
  <2> QED
    BY <1>5, <2>3, <2>4 DEF handleVisibilityChange
<1>6. ASSUME NEW late \in BOOLEAN, ConnectionLost(late)
      PROVE  CountdownInv'
  <2>1. \/ ring' = clearCountdown(ring) /\ face' = [face EXCEPT !.connected = FALSE, !.ended = TRUE, !.ends = @ + 1]
        \/ ring' = ring /\ face' = [face EXCEPT !.connected = FALSE]
    BY <1>6, Zenon DEF ConnectionLost
  <2>2. UNCHANGED <<ai, talker>>
    BY <1>6, Zenon DEF ConnectionLost
  <2> DEFINE n == face.ends + 1
  <2>3. n \in Nat
    BY DEF Faces
  <2>4. \/ ring' = clearCountdown(ring) /\ face' = [face EXCEPT !.connected = FALSE, !.ended = TRUE, !.ends = n]
        \/ ring' = ring /\ face' = [face EXCEPT !.connected = FALSE]
    BY <2>1 DEF Faces
  <2> HIDE DEF n
  <2>5. face'.connected = FALSE
    BY <2>3, <2>4 DEF Faces
  <2>6. ~clearCountdown(ring).counting
    BY RingTypes
  <2> QED
    BY <2>2, <2>4, <2>5, <2>6
    DEF CountdownInv, NumbersGrow, Interviewing, QuestionHeard, ArmedInSilence, TimerHeard, CountsSomething
<1> QED
  BY <1>1, <1>2, <1>3, <1>4, <1>5, <1>6

(* Whatever is on the data channel and however late: a page that has heard  *)
(* all of it shows the agent's question and counts down with the agent, for *)
(* any length of the countdown, of the interview and of the channel.        *)
THEOREM RoomCountsWithTheAgent == RoomSpec => []CountdownIsTheAgents
<1>1. RoomInit => CountdownInv
  <2> SUFFICES ASSUME RoomInit PROVE CountdownInv
    OBVIOUS
  <2>1. /\ ai.number = 0 /\ ai.timer = Off /\ ai.question = FALSE /\ ai.grace = FALSE
        /\ ai.phase = "greeting" /\ ring.counting = FALSE
    BY DEF RoomInit
  <2> QED
    BY <2>1
    DEF CountdownInv, NumbersGrow, Interviewing, QuestionHeard, ArmedInSilence, TimerHeard, CountsSomething
<1>2. RoomTyped /\ CountdownInv /\ [RoomNext]_roomVars => CountdownInv'
  <2> SUFFICES ASSUME RoomTyped, CountdownInv, [RoomNext]_roomVars PROVE CountdownInv'
    OBVIOUS
  <2>1. CASE UNCHANGED roomVars
    BY <2>1
    DEF roomVars, CountdownInv, NumbersGrow, Interviewing, QuestionHeard, ArmedInSilence, TimerHeard,
        CountsSomething
  <2> QED
    BY <2>1, AgentTells, DataTells, PageTells DEF RoomNext
<1>3. CountdownInv => CountdownIsTheAgents
  <2>1. wire = <<>> => ~QuestionOnTheWay(wire, ai.number)
    BY DEF QuestionOnTheWay
  <2> QED
    BY <2>1 DEF CountdownInv, QuestionHeard, TimerHeard, CountsSomething, CountdownIsTheAgents
<1> QED
  BY <1>1, <1>2, <1>3, RoomTypedInductive, PTL DEF RoomSpec

-----------------------------------------------------------------------------
(* Applying: the page's answers are true, and an application has the resume *)
(* it names.                                                                *)

SomeFile == Resumes \union {NoFile}
SubmissionPlaces == {"check", "duplicate", "insert", "answer"}
SubmitCodes == {0, 201, 403, 409, 500}
Submissions == [nr : Nat, at : SubmissionPlaces, answer : SubmitCodes,
                settled : BOOLEAN, resume : SomeFile, name : SomeFile]

(* The constraint keeps the applications at one, and whoever is told of one *)
(* is told by a submission that found or inserted it.                       *)
OneAtMost == applications = {} \/ \E s \in Submissions : applications = {s}
Truthful == \A s \in submissions : s.answer \in {201, 409} => applications # {}
ShownIsKept ==
    /\ applyPage.submitting => applyPage.at = "form"
    /\ applyPage.at \in {"thanked", "already_applied"} => applications # {}
    /\ confirmations = IF applyPage.at = "thanked" THEN 1 ELSE 0

(* As long as no file was chosen during an upload, the one under way is the *)
(* one named, and when none is, the one stored is, unless the field says    *)
(* that something failed.                                                   *)
FieldIsTrue ==
    ~upload.overlapped =>
        /\ upload.underWay = {} \/ upload.underWay = {chosen.resumeFilename}
        /\ upload.uploading <=> upload.underWay # {}
        /\ ~upload.uploading /\ ~upload.error => chosen.resumePath = chosen.resumeFilename
NamesAreTrue == \A s \in submissions \union applications : s.settled => s.resume = s.name

ApplyingInv ==
    /\ ApplyingTypeOK /\ submissions \subseteq Submissions
    /\ OneAtMost /\ Truthful /\ ShownIsKept
    /\ FieldIsTrue /\ NamesAreTrue

LEMMA ApplyingInitially == ApplyingInit => ApplyingInv
  BY DEF ApplyingInit, ApplyingInv, ApplyingTypeOK, OneAtMost, Truthful, ShownIsKept, FieldIsTrue, NamesAreTrue

LEMMA SubmissionGoesOn ==
  ASSUME NEW s \in Submissions, NEW at \in SubmissionPlaces, NEW answer \in SubmitCodes
  PROVE  [s EXCEPT !.at = at, !.answer = answer] \in Submissions
  BY DEF Submissions

(* A submission goes on, and the page is as it was.                         *)
LEMMA WorksKeeps ==
  ASSUME ApplyingInv, NEW s \in submissions, NEW at \in SubmissionPlaces,
         NEW answer \in SubmitCodes, Works(s, at, answer),
         \/ applications' = applications
         \/ applications = {} /\ applications' = {s},
         answer \in {201, 409} => applications' # {}
  PROVE  ApplyingInv'
<1> DEFINE t == [s EXCEPT !.at = at, !.answer = answer]
<1>1. s \in Submissions /\ t \in Submissions
  <2>1. s \in Submissions
    BY DEF ApplyingInv
  <2> QED BY <2>1, SubmissionGoesOn
<1>2. /\ t.answer = answer /\ t.settled = s.settled /\ t.resume = s.resume /\ t.name = s.name
      /\ submissions' = (submissions \ {s}) \union {t}
  BY <1>1 DEF Works, Submissions
<1>3. UNCHANGED <<vacancy, changes, applyPage, upload, chosen, confirmations>>
  BY DEF Works
<1>4. ApplyingTypeOK' /\ FieldIsTrue'
  BY <1>3 DEF ApplyingInv, ApplyingTypeOK, FieldIsTrue
<1>5. applications # {} => applications' # {}
  OBVIOUS
<1> HIDE DEF t
<1>6. submissions' \subseteq Submissions /\ OneAtMost'
  BY <1>1, <1>2 DEF ApplyingInv, OneAtMost
<1>7. Truthful' /\ ShownIsKept'
  BY <1>2, <1>3, <1>5 DEF ApplyingInv, Truthful, ShownIsKept
<1>8. NamesAreTrue'
  BY <1>2 DEF ApplyingInv, NamesAreTrue
<1> QED
  BY <1>4, <1>6, <1>7, <1>8 DEF ApplyingInv

LEMMA ApplyingStep == ApplyingInv /\ [ApplyingNext]_applyingVars => ApplyingInv'
<1> SUFFICES ASSUME ApplyingInv, [ApplyingNext]_applyingVars PROVE ApplyingInv'
  OBVIOUS
<1>types. ApplyingTypeOK /\ submissions \subseteq Submissions
  BY DEF ApplyingInv
\* A step of the page before the form, or of the vacancy.
<1>shows. ASSUME NEW at \in {"read", "not_found", "closed", "form"}, applyPage.at \in {"lookup", "read"}, Shows(at)
          PROVE  ApplyingInv'
  <2>1. ~applyPage.submitting /\ applyPage' = [applyPage EXCEPT !.at = at] /\ applyPage.at # "thanked"
    BY <1>shows DEF ApplyingInv, ShownIsKept, Shows
  <2>2. ApplyingTypeOK' /\ ShownIsKept'
    BY <1>shows, <2>1, <1>types DEF ApplyingInv, ApplyingTypeOK, ShownIsKept, Shows
  <2> QED
    BY <1>shows, <2>2 DEF Shows, ApplyingInv, OneAtMost, Truthful, FieldIsTrue, NamesAreTrue
<1>1. CASE \E v \in Vacancies : VacancyChanges(v)
  BY <1>1 DEF VacancyChanges, ApplyingInv, ApplyingTypeOK, OneAtMost, Truthful, ShownIsKept, FieldIsTrue, NamesAreTrue
<1>2. CASE StatusLookup \/ StatusLookupFails \/ JobRead
  BY <1>2, <1>shows DEF StatusLookup, StatusLookupFails, JobRead
\* A step of the upload field.
<1>field. ASSUME UNCHANGED <<vacancy, changes, applyPage, submissions, applications, confirmations>>,
                 ApplyingTypeOK', FieldIsTrue'
          PROVE  ApplyingInv'
  BY <1>field DEF ApplyingInv, OneAtMost, Truthful, ShownIsKept, NamesAreTrue
<1>3. CASE \E f \in Resumes : SelectFile(f) \/ UploadDone(f) \/ UploadFails(f)
  <2> SUFFICES ASSUME NEW f \in Resumes, SelectFile(f) \/ UploadDone(f) \/ UploadFails(f) PROVE ApplyingInv'
    BY <1>3
  <2>1. ApplyingTypeOK'
    <3>1. CASE SelectFile(f)
      <4> DEFINE n == upload.made + 1
      <4>1. n \in Nat
        BY <1>types DEF ApplyingTypeOK
      <4>2. upload' = [upload EXCEPT !.made = n, !.selected = f, !.uploading = TRUE, !.uploaded = FALSE,
                                     !.error = FALSE, !.underWay = @ \union {f},
                                     !.overlapped = @ \/ upload.underWay # {}]
            /\ chosen' = [chosen EXCEPT !.resumeFilename = f]
            /\ UNCHANGED <<vacancy, changes, applyPage, confirmations>>
        BY <3>1 DEF SelectFile
      <4> HIDE DEF n
      <4> QED BY <4>1, <4>2, <1>types DEF ApplyingTypeOK
    <3>2. CASE UploadDone(f)
      BY <3>2, <1>types DEF UploadDone, ApplyingTypeOK
    <3>3. CASE UploadFails(f)
      BY <3>3, <1>types DEF UploadFails, ApplyingTypeOK
    <3> QED BY <3>1, <3>2, <3>3
  <2>2. FieldIsTrue'
    <3>1. CASE SelectFile(f)
      BY <3>1, <1>types DEF SelectFile, ApplyingTypeOK, ApplyingInv, FieldIsTrue
    <3>2. CASE UploadDone(f)
      BY <3>2, <1>types DEF UploadDone, ApplyingTypeOK, ApplyingInv, FieldIsTrue
    <3>3. CASE UploadFails(f)
      BY <3>3, <1>types DEF UploadFails, ApplyingTypeOK, ApplyingInv, FieldIsTrue
    <3> QED BY <3>1, <3>2, <3>3
  <2> QED BY <1>field, <2>1, <2>2 DEF SelectFile, UploadDone, UploadFails
<1>4. CASE SelectInvalid
  <2>1. ApplyingTypeOK' /\ FieldIsTrue'
    BY <1>4, <1>types DEF SelectInvalid, ApplyingTypeOK, ApplyingInv, FieldIsTrue
  <2> QED BY <1>4, <1>field, <2>1 DEF SelectInvalid
<1>5. CASE handleSubmit
  <2> DEFINE s == [nr |-> applyPage.sent + 1, at |-> "check", answer |-> 0, settled |-> Settled,
                   resume |-> chosen.resumePath, name |-> chosen.resumeFilename]
  <2>1. applyPage' = [applyPage EXCEPT !.submitting = TRUE, !.error = FALSE, !.sent = @ + 1]
        /\ applyPage.at = "form" /\ submissions' = submissions \union {s}
        /\ UNCHANGED <<vacancy, changes, upload, chosen, applications, confirmations>>
    BY <1>5 DEF handleSubmit
  <2>2. s \in Submissions
    BY <1>types DEF ApplyingTypeOK, Submissions, SubmissionPlaces, SubmitCodes, Settled, SomeFile
  <2>3. s.answer = 0 /\ (s.settled => s.resume = s.name)
    BY DEF Settled, ApplyingInv, FieldIsTrue
  <2> HIDE DEF s
  <2>4. ApplyingTypeOK'
    <3> DEFINE n == applyPage.sent + 1
    <3>1. n \in Nat /\ applyPage' = [applyPage EXCEPT !.submitting = TRUE, !.error = FALSE, !.sent = n]
      BY <2>1, <1>types DEF ApplyingTypeOK
    <3> HIDE DEF n
    <3> QED BY <2>1, <3>1, <1>types DEF ApplyingTypeOK
  <2>6. ShownIsKept' /\ FieldIsTrue'
    <3>1. applyPage'.at = "form"
      BY <2>1, <1>types DEF ApplyingTypeOK
    <3> QED BY <2>1, <3>1 DEF ApplyingInv, ShownIsKept, FieldIsTrue
  <2>5. Truthful' /\ NamesAreTrue' /\ OneAtMost'
    BY <2>1, <2>3 DEF ApplyingInv, Truthful, NamesAreTrue, OneAtMost
  <2> QED BY <2>1, <2>2, <2>4, <2>5, <2>6, <1>types DEF ApplyingInv
<1>6. CASE SubmitAnswerLost
  <2>1. ApplyingTypeOK' /\ ShownIsKept'
    BY <1>6, <1>types DEF SubmitAnswerLost, ApplyingInv, ApplyingTypeOK, ShownIsKept
  <2> QED BY <1>6, <2>1 DEF SubmitAnswerLost, ApplyingInv, OneAtMost, Truthful, FieldIsTrue, NamesAreTrue
<1>7. ASSUME NEW s \in submissions,
             VerifyPost(s) \/ CheckDuplicate(s) \/ InsertApplication(s) \/ SubmissionFails(s)
      PROVE  ApplyingInv'
  <2>1. CASE VerifyPost(s)
    BY <2>1, WorksKeeps DEF SubmissionPlaces, SubmitCodes, VerifyPost
  <2>2. CASE CheckDuplicate(s)
    BY <2>2, WorksKeeps DEF SubmissionPlaces, SubmitCodes, CheckDuplicate
  <2>3. CASE InsertApplication(s)
    <3>1. CASE IsDuplicate
      BY <2>3, <3>1, WorksKeeps DEF SubmissionPlaces, SubmitCodes, InsertApplication
    <3>2. CASE ~IsDuplicate
      <4>1. applications = {} /\ applications' = {s} /\ Works(s, "answer", 201)
        BY <2>3, <3>2 DEF InsertApplication, IsDuplicate
      <4> QED BY <4>1, WorksKeeps DEF SubmissionPlaces, SubmitCodes
    <3> QED BY <3>1, <3>2
  <2>4. CASE SubmissionFails(s)
    BY <2>4, WorksKeeps DEF SubmissionPlaces, SubmitCodes, SubmissionFails
  <2> QED BY <1>7, <2>1, <2>2, <2>3, <2>4
<1>8. ASSUME NEW s \in submissions, SubmitAnswer(s) PROVE ApplyingInv'
  <2>1. UNCHANGED <<vacancy, changes, upload, chosen, applications>> /\ submissions' = submissions \ {s}
    BY <1>8 DEF SubmitAnswer
  <2>2. s.answer \in {201, 409} => applications # {}
    BY DEF ApplyingInv, Truthful
  <2>3. ApplyingTypeOK' /\ ShownIsKept'
    <3>1. CASE IsAwaited(s)
      <4> DEFINE at == CASE s.answer = 201 -> "thanked" [] s.answer = 409 -> "already_applied" [] OTHER -> "form"
      <4>1. applyPage' = [applyPage EXCEPT !.submitting = FALSE, !.error = s.answer \in {403, 500}, !.at = at]
            /\ confirmations' = (IF s.answer = 201 THEN confirmations + 1 ELSE confirmations)
        BY <1>8, <3>1 DEF SubmitAnswer
      <4>2. applyPage.at = "form" /\ confirmations = 0
        BY <3>1 DEF IsAwaited, ApplyingInv, ShownIsKept
      <4>3. /\ at \in {"thanked", "already_applied", "form"}
            /\ at = "thanked" <=> s.answer = 201
            /\ at \in {"thanked", "already_applied"} => applications # {}
        BY <2>2
      <4> HIDE DEF at
      <4> DEFINE failed == s.answer \in {403, 500}
      <4>5. failed \in BOOLEAN /\ applyPage' = [applyPage EXCEPT !.submitting = FALSE, !.error = failed, !.at = at]
        BY <4>1
      <4> HIDE DEF failed
      <4>4. /\ applyPage'.at = at /\ ~applyPage'.submitting
            /\ applyPage' \in [at : {"lookup", "read", "not_found", "closed", "form", "thanked", "already_applied"},
                      submitting : BOOLEAN, error : BOOLEAN, sent : Nat]
        BY <4>3, <4>5, <1>types DEF ApplyingTypeOK
      <4> QED BY <2>1, <4>1, <4>2, <4>3, <4>4, <1>types DEF ApplyingTypeOK, ShownIsKept
    <3>2. CASE ~IsAwaited(s)
      BY <1>8, <2>1, <3>2 DEF SubmitAnswer, ApplyingInv, ApplyingTypeOK, ShownIsKept
    <3> QED BY <3>1, <3>2
  <2> QED BY <2>1, <2>3, <1>types DEF ApplyingInv, OneAtMost, Truthful, FieldIsTrue, NamesAreTrue
<1>9. CASE UNCHANGED applyingVars
  BY <1>9 DEF applyingVars, ApplyingInv, ApplyingTypeOK, OneAtMost, Truthful, ShownIsKept, FieldIsTrue, NamesAreTrue
<1> QED
  BY <1>1, <1>2, <1>3, <1>4, <1>5, <1>6, <1>7, <1>8, <1>9 DEF ApplyingNext

(* However many submissions of one candidate the endpoint works on at once, *)
(* and whichever answers are lost: who is thanked, or told to have applied  *)
(* already, has one application, nobody ever has two, and at most one mail  *)
(* confirms it.                                                             *)
THEOREM ApplyingAnswersTrue == ApplyingSpec => []AnswersAreTrue
<1>1. ApplyingInv => AnswersAreTrue
  <2> SUFFICES ASSUME ApplyingInv PROVE AnswersAreTrue
    OBVIOUS
  <2>1. CASE applications = {}
    <3>1. Cardinality(applications) = 0
      BY <2>1, FS_EmptySet
    <3> QED BY <2>1, <3>1 DEF ApplyingInv, ShownIsKept, AnswersAreTrue
  <2>2. CASE \E s \in Submissions : applications = {s}
    <3>1. Cardinality(applications) = 1
      BY <2>2, FS_Singleton
    <3> QED BY <3>1 DEF ApplyingInv, ShownIsKept, AnswersAreTrue
  <2> QED BY <2>1, <2>2 DEF ApplyingInv, OneAtMost
<1> QED BY <1>1, ApplyingInitially, ApplyingStep, PTL DEF ApplyingSpec

(* Uploads may end in any order and fail: an application sent while its     *)
(* field showed one stored file has the file it names.                      *)
THEOREM ApplyingResumeNamed == ApplyingSpec => []ResumeIsTheOneNamed
<1>1. ApplyingInv => ResumeIsTheOneNamed
  BY DEF ApplyingInv, NamesAreTrue, ResumeIsTheOneNamed
<1> QED BY <1>1, ApplyingInitially, ApplyingStep, PTL DEF ApplyingSpec
=============================================================================
