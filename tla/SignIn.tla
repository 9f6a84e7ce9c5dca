------------------------------- MODULE SignIn -------------------------------
(***************************************************************************)
(* Who sees which page: the middleware that looks at every request, the    *)
(* layouts that look at the user's team, the login page, the sign-out      *)
(* button, and the listener that sends the browser to a login page when    *)
(* its session has ended.  One browser, one person, one navigation after   *)
(* the other; a navigation started from the page's code may come while     *)
(* another is under way and replaces it.                                   *)
(*                                                                         *)
(* Abstracted: a page stands for the pages under its path; of the session's*)
(* tokens, whether they are good, dead (a refresh would fail) or not there.*)
(***************************************************************************)
EXTENDS Naturals

CONSTANT MaxVisits  \* bound: addresses entered, sign-ins and sign-outs

ASSUME VisitsAssumption == MaxVisits \in Nat

AdminPages == {"/dashboard"}
PublicPages == {"/", "/apply", "/auth/login", "/auth/login?type=client", "/auth/login?type=candidate"}
Paths == AdminPages \union PublicPages \union {"/portal", "/client", "/interview"}
LoginPages == PublicPages \ {"/", "/apply"}
Persons == {"admin", "member", "candidate", "client"}

VARIABLES
    person,    \* who uses the browser; "member" was invited and has no password
    token,     \* the session in the browser: "good", "dead" or "none"
    page,      \* the page on the screen
    request,   \* the navigation under way: where to, and how far it got
    login,     \* the login page's form
    leaving,   \* the sign-out button waits for signOut(), to go where it goes
    visits     \* counter for the bound

signInVars == <<person, token, page, request, login, leaving, visits>>

NewForm == [otpSent |-> FALSE, loading |-> FALSE, error |-> FALSE]
NoRequest == [to |-> "/", at |-> "none"]
IsStaff == person \in {"admin", "member"}
User == token = "good"

GoTo(p) == request' = [to |-> p, at |-> "middleware"]

-----------------------------------------------------------------------------
(* Requests.                                                                *)

Visit(p) ==
    /\ visits < MaxVisits /\ visits' = visits + 1
    /\ request.at = "none" /\ leaving = "no"
    /\ GoTo(p)
    /\ UNCHANGED <<person, token, page, login, leaving>>

\* The login page a path is sent to when nobody is signed in.
LoginFor(p) == CASE p = "/portal" -> "/auth/login?type=candidate"
                 [] p = "/client" -> "/auth/login?type=client"
                 [] OTHER         -> "/auth/login"

\* Public pages pass untouched.  Elsewhere the session is looked up, and the
\* tokens of a dead one are cleared.
PublicPasses ==
    /\ request.at = "middleware" /\ request.to \in PublicPages
    /\ request' = [request EXCEPT !.at = "layout"]
    /\ UNCHANGED <<person, token, page, login, leaving, visits>>

\* A redirect carries the cleared cookies along.
redirectTo(p) ==
    /\ GoTo(p)
    /\ token' = IF User THEN token ELSE "none"

MiddlewareRedirects ==
    /\ request.at = "middleware"
    /\ request.to \in AdminPages \union {"/portal", "/client"} /\ ~User
    /\ redirectTo(LoginFor(request.to))
    /\ UNCHANGED <<person, page, login, leaving, visits>>

MiddlewarePasses ==
    /\ request.at = "middleware" /\ request.to \notin PublicPages
    /\ User \/ request.to = "/interview"
    /\ request' = [request EXCEPT !.at = "layout"]
    /\ token' = IF User THEN token ELSE "none"
    /\ UNCHANGED <<person, page, login, leaving, visits>>

\* The layouts ask once more: the session may have died meanwhile.
Redirected(p) ==
    /\ GoTo(p)
    /\ UNCHANGED <<person, token, page, login, leaving, visits>>

AdminLayoutRedirects ==
    /\ request.at = "layout" /\ request.to \in AdminPages
    /\ ~User \/ ~IsStaff
    /\ Redirected("/auth/login")

CandidateLayoutRedirects ==
    /\ request.at = "layout" /\ request.to = "/portal" /\ ~User
    /\ Redirected("/auth/login?type=candidate")

ClientLayoutRedirects ==
    /\ request.at = "layout" /\ request.to = "/client"
    /\ \/ ~User /\ Redirected("/auth/login?type=client")
       \/ User /\ IsStaff /\ Redirected("/dashboard")

Rendered ==
    /\ request.at = "layout"
    /\ request.to \in AdminPages => User /\ IsStaff
    /\ request.to = "/portal" => User
    /\ request.to = "/client" => User /\ ~IsStaff
    /\ page' = request.to
    /\ request' = NoRequest
    /\ login' = NewForm
    /\ UNCHANGED <<person, token, leaving, visits>>

-----------------------------------------------------------------------------
(* The login page: a password for staff, a code by mail for the others.     *)

PasswordForm == page = "/auth/login" /\ request.at = "none"
CodeForm == page \in LoginPages \ {"/auth/login"} /\ request.at = "none"

Submit ==
    /\ ~login.loading
    /\ visits < MaxVisits /\ visits' = visits + 1
    /\ login' = [login EXCEPT !.loading = TRUE, !.error = FALSE]

Fails ==
    /\ login.loading
    /\ login' = [login EXCEPT !.loading = FALSE, !.error = TRUE]
    /\ UNCHANGED <<person, token, page, request, leaving, visits>>

\* Each of the three handlers stands for its button, too.
handleAdminLogin ==
    /\ PasswordForm /\ Submit
    /\ UNCHANGED <<person, token, page, request, leaving>>

AdminLoggedIn ==
    /\ PasswordForm /\ login.loading /\ person = "admin"
    /\ token' = "good"
    /\ GoTo("/dashboard")
    /\ UNCHANGED <<person, page, login, leaving, visits>>

LoginFails == (PasswordForm \/ CodeForm) /\ Fails

handleSendOtp ==
    /\ CodeForm /\ ~login.otpSent /\ Submit
    /\ UNCHANGED <<person, token, page, request, leaving>>

OtpSent ==
    /\ CodeForm /\ ~login.otpSent /\ login.loading
    /\ login' = [login EXCEPT !.otpSent = TRUE, !.loading = FALSE]
    /\ UNCHANGED <<person, token, page, request, leaving, visits>>

handleVerifyOtp ==
    /\ CodeForm /\ login.otpSent /\ Submit
    /\ UNCHANGED <<person, token, page, request, leaving>>

\* A candidate goes to the interview at once, not to the portal.
OtpVerified ==
    /\ CodeForm /\ login.otpSent /\ login.loading
    /\ token' = "good"
    /\ GoTo(IF page = "/auth/login?type=client" THEN "/client" ELSE "/interview")
    /\ UNCHANGED <<person, page, login, leaving, visits>>

\* The link of a mail with a code in it: /auth/callback.
Callback(ok) ==
    /\ visits < MaxVisits /\ visits' = visits + 1
    /\ request.at = "none" /\ leaving = "no"
    /\ token' = IF ok THEN "good" ELSE token
    /\ GoTo(IF ok THEN "/dashboard" ELSE "/auth/login")
    /\ UNCHANGED <<person, page, login, leaving>>

-----------------------------------------------------------------------------
(* The end of a session.                                                    *)

SessionDies ==
    /\ token = "good"
    /\ token' = "dead"
    /\ UNCHANGED <<person, page, request, login, leaving, visits>>

\* The pages with a layout listen: SIGNED_OUT clears the tokens and replaces
\* whatever navigation is under way.
Listening == page \in AdminPages \union {"/portal", "/client", "/interview"}

LoginAfterwards == CASE page = "/client"                    -> "/auth/login?type=client"
                     [] page \in {"/portal", "/interview"} -> "/auth/login?type=candidate"
                     [] OTHER                                -> "/auth/login"

(* Mutant: the listener clears the tokens and goes nowhere.                  *)
SignedOutEventMutant ==
    /\ token = "dead" /\ Listening
    /\ token' = "none"
    /\ UNCHANGED <<person, page, request, login, leaving, visits>>

SignedOutEvent ==
    /\ token = "dead" /\ Listening
    /\ token' = "none"
    /\ GoTo(LoginAfterwards)
    /\ UNCHANGED <<person, page, login, leaving, visits>>

handleLogout ==
    /\ Listening /\ token # "none" /\ leaving = "no"
    /\ visits < MaxVisits /\ visits' = visits + 1
    /\ leaving' = "signing out"
    /\ UNCHANGED <<person, token, page, request, login>>

SignedOut ==
    /\ leaving = "signing out"
    /\ leaving' = "signed out"
    /\ token' = "none"
    /\ IF Listening THEN GoTo(LoginAfterwards) ELSE UNCHANGED request
    /\ UNCHANGED <<person, page, login, visits>>

\* The button's own navigation comes after the listener's and replaces it,
\* or finds it done.
LoggedOut ==
    /\ leaving = "signed out"
    /\ leaving' = "no"
    /\ GoTo(IF page \in {"/client", "/auth/login?type=client"} THEN "/auth/login?type=client" ELSE "/")
    /\ UNCHANGED <<person, token, page, login, visits>>

-----------------------------------------------------------------------------
SignInInit ==
    /\ person \in Persons
    /\ token = "none"
    /\ page = "/"
    /\ request = NoRequest
    /\ login = NewForm
    /\ leaving = "no"
    /\ visits = 0

SignInNext ==
    \/ \E p \in Paths : Visit(p)
    \/ PublicPasses \/ MiddlewareRedirects \/ MiddlewarePasses
    \/ AdminLayoutRedirects \/ CandidateLayoutRedirects \/ ClientLayoutRedirects \/ Rendered
    \/ handleAdminLogin \/ AdminLoggedIn \/ LoginFails
    \/ handleSendOtp \/ OtpSent \/ handleVerifyOtp \/ OtpVerified
    \/ \E ok \in BOOLEAN : Callback(ok)
    \/ SessionDies \/ SignedOutEvent \/ handleLogout \/ SignedOut \/ LoggedOut

SignInSpec == SignInInit /\ [][SignInNext]_signInVars

-----------------------------------------------------------------------------
(* Properties.                                                              *)

SignInTypeOK ==
    /\ person \in Persons /\ token \in {"good", "dead", "none"}
    /\ page \in Paths
    /\ request \in [to : Paths, at : {"none", "middleware", "layout"}]
    /\ visits \in Nat
    /\ login \in [otpSent : BOOLEAN, loading : BOOLEAN, error : BOOLEAN]
    /\ leaving \in {"no", "signing out", "signed out"}

\* Nobody without a session stays on a page that needs one: the listener,
\* the button or the middleware has a navigation under way.
NobodyIsLeftBehind ==
    page \in AdminPages \union {"/portal", "/client"} /\ token = "none"
        => request.at # "none" \/ leaving = "signed out"

=============================================================================
