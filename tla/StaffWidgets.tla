---------------------------- MODULE StaffWidgets ----------------------------
(***************************************************************************)
(* The buttons of the staff's and the client's pages that ask the backend  *)
(* for one thing and show what became of it: the Re-screen and Rescore     *)
(* buttons of a row, the resume downloads, and the client's request for a  *)
(* change, which is sent from a dialog.                                    *)
(*                                                                         *)
(* React unmounts a button whose row is filtered away, or whose row gets   *)
(* its score, and mounts a new one that knows nothing of the request the   *)
(* old one has under way.  A request, its handling and its answer are      *)
(* steps of their own: the answer may be lost, whatever the backend did or *)
(* is still to do.                                                         *)
(***************************************************************************)
EXTENDS Naturals

CONSTANT MaxRequests  \* bound: requests of one button, texts of one dialog

ASSUME MaxRequestsAssumption == MaxRequests \in Nat

Buttons == {"rescore", "rescreen", "resume", "zip", "change"}

VARIABLES
    which,     \* the button: they share nothing, a behaviour is about one
    button,    \* what it shows
    mount,     \* which mounting of the button is on the screen
    asked,     \* requests made
    requests,  \* each of them: its subject, what the backend did, what the page heard
    change     \* the dialog of the change request: is it open, its text, texts typed

widgetVars == <<which, button, mount, asked, requests, change>>

-----------------------------------------------------------------------------
(* Requests.                                                                *)

Unasked == [subject |-> 0, backend |-> "none", heard |-> "none"]

\* What a request is about: a button's row as the button saw it, or a text.
Subject == IF which = "change" THEN change.text ELSE mount

\* Is the button that asked still there?
Mine(n) == which = "change" \/ requests[n].subject = mount

Ask(b) ==
    /\ which = b
    /\ asked < MaxRequests
    /\ asked' = asked + 1
    /\ requests' = [requests EXCEPT ![asked + 1] = [subject |-> Subject, backend |-> "none", heard |-> "waiting"]]
    /\ button' = "loading"
    /\ UNCHANGED <<which, mount, change>>

\* The backend does what it is asked, or refuses, or finds nothing to do.
Handle(n) ==
    /\ n \in 1 .. asked /\ requests[n].backend = "none"
    /\ \E done \in {"took", "refused"} : requests' = [requests EXCEPT ![n].backend = done]
    /\ UNCHANGED <<which, button, mount, asked, change>>

Learns(n, what, shown) ==
    /\ requests[n].heard = "waiting"
    /\ requests' = [requests EXCEPT ![n].heard = what]
    /\ button' = IF Mine(n) THEN shown ELSE button
    /\ UNCHANGED <<which, mount, asked>>

Served(b, shown) == \E n \in 1 .. asked : which = b /\ requests[n].backend = "took" /\ Learns(n, "told", shown)

\* An error of the backend, or an answer that never comes: it looks the same.
Unserved(b, shown) ==
    \E n \in 1 .. asked :
        /\ which = b
        /\ \/ requests[n].backend = "refused" /\ Learns(n, "told", shown)
           \/ Learns(n, "lost", shown)

-----------------------------------------------------------------------------
(* The buttons.                                                             *)

\* Rescore: Retry after a failure, nothing more after a success.  An answer
\* that queued nothing is a failure.
RescoreClick == button \in {"idle", "failed"} /\ Ask("rescore")

RescoreAnswer ==
    /\ Served("rescore", "done") \/ Unserved("rescore", "failed")
    /\ UNCHANGED change

(* Mutant: the button is not disabled while its request is under way.        *)
ReScreenClickMutant == button # "done" /\ Ask("rescreen")

ReScreenClick == button = "idle" /\ Ask("rescreen")

\* A failure is silent: the button is as before.
ReScreenAnswer ==
    /\ Served("rescreen", "done") \/ Unserved("rescreen", "idle")
    /\ UNCHANGED change

\* A resume's link; the signed address is opened at once.
ResumeClick == button # "loading" /\ Ask("resume")

ResumeAnswer ==
    /\ Served("resume", "idle") \/ Unserved("resume", "failed")
    /\ UNCHANGED change

\* All resumes of a job, in one archive; some may not be available.
ZipClick == button # "loading" /\ Ask("zip")

ZipAnswer ==
    /\ \/ \E shown \in {"idle", "partial"} : Served("zip", shown)
       \/ Unserved("zip", "failed")
    /\ UNCHANGED change

-----------------------------------------------------------------------------
(* The change request: its dialog may be dismissed, and its text changed,   *)
(* while it is sending; what is sent is the text of the click.              *)

handleOpenChange(next) ==
    /\ which = "change" /\ next # change.open
    /\ change' = [change EXCEPT !.open = next]
    /\ button' = IF next /\ button # "loading" THEN "idle" ELSE button
    /\ UNCHANGED <<which, mount, asked, requests>>

TypeChange ==
    /\ which = "change" /\ change.open /\ button # "done" /\ change.typed < MaxRequests
    /\ LET fresh == change.typed + 1 IN
       change' = [change EXCEPT !.text = fresh, !.typed = fresh]
    /\ UNCHANGED <<which, button, mount, asked, requests>>

handleSend ==
    /\ change.open /\ change.text # 0
    /\ button \in {"idle", "failed"}
    /\ Ask("change")

\* "Sent" empties the text, and with it what was typed meanwhile.
ChangeAnswer ==
    \/ Served("change", "done") /\ change' = [change EXCEPT !.text = 0]
    \/ Unserved("change", "failed") /\ UNCHANGED change

-----------------------------------------------------------------------------
(* The button's row leaves the screen and comes back.                       *)

Remount ==
    /\ which \in {"rescore", "rescreen", "resume"}
    /\ button # "idle"
    /\ button' = "idle"
    /\ mount' = mount + 1
    /\ UNCHANGED <<which, asked, requests, change>>

-----------------------------------------------------------------------------
WidgetInit ==
    /\ which \in Buttons
    /\ button = "idle"
    /\ mount = 1
    /\ asked = 0
    /\ requests = [n \in 1 .. MaxRequests |-> Unasked]
    /\ change = [open |-> FALSE, text |-> 0, typed |-> 0]

WidgetNext ==
    \/ RescoreClick \/ RescoreAnswer \/ ReScreenClick \/ ReScreenAnswer
    \/ ResumeClick \/ ResumeAnswer \/ ZipClick \/ ZipAnswer
    \/ \E next \in BOOLEAN : handleOpenChange(next)
    \/ TypeChange \/ handleSend \/ ChangeAnswer
    \/ \E n \in 1 .. MaxRequests : Handle(n)
    \/ Remount

WidgetSpec == WidgetInit /\ [][WidgetNext]_widgetVars

-----------------------------------------------------------------------------
(* Properties.                                                              *)

WidgetTypeOK ==
    /\ which \in Buttons
    /\ button \in {"idle", "loading", "done", "failed", "partial"}
    /\ mount \in Nat
    /\ asked \in 0 .. MaxRequests
    /\ requests \in [1 .. MaxRequests -> [subject : Nat, backend : {"none", "took", "refused"},
                                         heard : {"none", "waiting", "told", "lost"}]]
    /\ change \in [open : BOOLEAN, text : 0 .. MaxRequests, typed : 0 .. MaxRequests]

\* What the backend does twice for one button or one text, a re-scoring, a
\* re-screening, a mail to the team, it does because the answer to the first
\* request was lost: no clicks, retries, dialogs dismissed and opened again,
\* nor late answers of buttons that are gone make a page ask again for what
\* it was told is done.  And what a page says was done, it was.
TwiceOnlyIfAnswerLost ==
    /\ which \in {"rescore", "rescreen", "change"} =>
         \A n \in 1 .. asked : \A m \in 1 .. n - 1 :
             /\ requests[m].subject = requests[n].subject
             /\ requests[m].backend = "took" /\ requests[n].backend = "took"
             => requests[m].heard = "lost"
    /\ button \in {"done", "partial"} => asked > 0 /\ requests[asked].backend = "took"

=============================================================================
