---------------------------- MODULE InterviewRoom ----------------------------
(***************************************************************************)
(* The room a candidate sits in: the page's countdown, question number and *)
(* end, driven by what the agent publishes on the data channel, and by the *)
(* agent's state, which reaches the page on a channel of its own.          *)
(*                                                                         *)
(* Messages arrive in order and with any delay.  The agent is reduced to   *)
(* when it publishes what; InterviewConductor has the whole of it.  React  *)
(* runs the effect of the fallback timer some time after one of its inputs *)
(* changed.                                                                *)
(***************************************************************************)
EXTENDS Naturals, Sequences

CONSTANTS
    Countdown,   \* NO_RESPONSE_TIMEOUT, seconds
    RoomLength,  \* max_questions
    MaxWire,     \* bound: messages under way
    MaxTalks     \* bound: times the candidate starts to speak

ASSUME RoomAssumption == {Countdown, RoomLength, MaxWire, MaxTalks} \subseteq Nat \ {0}

Off == Countdown + 1  \* no timer, nothing shown
AgentStates == {"speaking", "listening", "thinking"}

VARIABLES
    ai,     \* the agent: its state, its timer, where the interview is
    wire,   \* the messages published
    talker, \* the candidate
    ring,   \* the page's countdown and what it depends on
    face,   \* the rest of the page: question, connection, ends
    shows   \* the agent's state as the page knows it

roomVars == <<ai, wire, talker, ring, face, shows>>

Say(type, n) == [type |-> type, n |-> n]
Publish(messages) == Len(wire) + Len(messages) <= MaxWire /\ wire' = wire \o messages

-----------------------------------------------------------------------------
(* The agent.                                                               *)

Going == ai.phase # "gone"
Interviewing == ai.phase = "interview"

\* _arm_timer publishes what it arms.
Arm(a, type, over) ==
    IF Interviewing /\ a.question /\ a.timer = Off
    THEN /\ ai' = [a EXCEPT !.timer = a.left, !.over = over]
         /\ Publish(<<Say(type, a.left)>>)
    ELSE ai' = a /\ UNCHANGED wire

\* Every speech cancels the timer and the grace period.  The first one of the
\* interview proper is the first question.
AgentSpeaks ==
    /\ Going /\ ai.state # "speaking"
    /\ ai' = [ai EXCEPT !.state = "speaking", !.timer = Off, !.grace = FALSE,
                        !.number = IF Interviewing /\ @ = 0 THEN 1 ELSE @]
    /\ IF Interviewing
       THEN Publish(<<Say("agent_speaking", 0)>>
                    \o IF ai.number = 0 THEN <<Say("question_progress", 1)>> ELSE <<>>)
       ELSE UNCHANGED wire
    /\ UNCHANGED <<talker, ring, face, shows>>

\* What it said may be a question, or a word in between.
AgentListens ==
    /\ Going /\ ai.state # "listening"
    /\ \E asked \in {ai.question, ai.question \/ (Interviewing /\ ai.state = "speaking")} :
         LET a == [ai EXCEPT !.state = "listening", !.question = asked]
         IN  IF a.grace THEN ai' = a /\ UNCHANGED wire ELSE Arm(a, "timer_started", talker.speaking)
    /\ UNCHANGED <<talker, ring, face, shows>>

AgentThinks ==
    /\ Going /\ ai.state = "listening"
    /\ ai' = [ai EXCEPT !.state = "thinking"]
    /\ UNCHANGED <<wire, talker, ring, face, shows>>

\* The candidate's answer to the greeting starts the interview.
FirstQuestionDue ==
    /\ ai.phase = "greeting" /\ ai.state # "speaking"
    /\ ai' = [ai EXCEPT !.phase = "interview"]
    /\ UNCHANGED <<wire, talker, ring, face, shows>>

TalkStarts ==
    /\ ai.phase # "gone" /\ ~talker.speaking /\ talker.talks < MaxTalks
    /\ talker' = [speaking |-> TRUE, talks |-> talker.talks + 1]
    /\ LET left == IF ai.timer = Off THEN ai.left ELSE ai.timer
       IN  /\ ai' = [ai EXCEPT !.grace = FALSE, !.left = left, !.timer = Off]
           /\ Publish(<<Say("user_speaking", left)>>)
    /\ UNCHANGED <<ring, face, shows>>

\* Only a silence the agent listens to begins a grace period.
TalkStops ==
    /\ talker.speaking /\ talker' = [talker EXCEPT !.speaking = FALSE]
    /\ IF Interviewing /\ ai.state = "listening"
       THEN ai' = [ai EXCEPT !.grace = TRUE] /\ Publish(<<Say("grace_period_started", ai.left)>>)
       ELSE UNCHANGED <<ai, wire>>
    /\ UNCHANGED <<ring, face, shows>>

\* Few words: the countdown goes on.  More words: another silence to confirm.
GraceEnds ==
    /\ Interviewing /\ ai.grace
    /\ \/ Arm([ai EXCEPT !.grace = FALSE], "timer_resumed", FALSE)
       \/ /\ ai' = [ai EXCEPT !.grace = FALSE, !.confirming = TRUE]
          /\ Publish(<<Say("grace_period_started", ai.left)>>)
    /\ UNCHANGED <<talker, ring, face, shows>>

\* _do_advance: the next question, or the end.
Advances ==
    /\ Interviewing /\ ai.question
    /\ ai.timer = 0 \/ (ai.confirming /\ ~talker.speaking)
    /\ LET a == [ai EXCEPT !.timer = Off, !.grace = FALSE, !.confirming = FALSE, !.left = Countdown,
                           !.question = FALSE]
       IN  IF ai.number = RoomLength
           THEN ai' = [a EXCEPT !.phase = "closing"] /\ Publish(<<Say("interview_closing", 0)>>)
           ELSE ai' = [a EXCEPT !.number = @ + 1] /\ Publish(<<Say("question_progress", ai.number + 1)>>)
    /\ UNCHANGED <<talker, ring, face, shows>>

\* The goodbye is said, or the time is up.
AgentLeaves ==
    /\ ai.phase \in {"interview", "closing"}
    /\ ai' = [ai EXCEPT !.phase = "gone", !.timer = Off, !.grace = FALSE]
    /\ Publish(<<Say("session_end", 0)>>)
    /\ UNCHANGED <<talker, ring, face, shows>>

-----------------------------------------------------------------------------
(* The page's countdown.                                                    *)

(* Mutant: a countdown that runs goes on.                                   *)
startCountdownMutant(r, from) == IF r.counting THEN r ELSE [r EXCEPT !.left = from, !.counting = TRUE]
startCountdown(r, from) == [r EXCEPT !.left = from, !.counting = TRUE]
clearCountdown(r) == [r EXCEPT !.left = Off, !.counting = FALSE]
freezeCountdown(r) == [r EXCEPT !.counting = FALSE]

\* The effect looks again when one of these is another than before.
Effect(r) == IF <<r.active, r.grace, r.talking>> # <<ring.active, ring.grace, ring.talking>>
             THEN [r EXCEPT !.dirty = TRUE] ELSE r

(* Mutant: sessionEndedRef is not looked at.                                *)
endSessionMutant(r) ==
    /\ ring' = clearCountdown(Effect(r))
    /\ face' = [face EXCEPT !.ended = TRUE, !.ends = @ + 1]

\* endSession does its work once, whoever calls it.
endSession(r) ==
    /\ ring' = IF face.ended THEN Effect(r) ELSE clearCountdown(Effect(r))
    /\ face' = IF face.ended THEN face ELSE [face EXCEPT !.ended = TRUE, !.ends = @ + 1]

\* The handler of DataReceived.
Hears(m) ==
    CASE m.type = "question_progress" ->
           /\ ring' = Effect([clearCountdown(ring) EXCEPT !.awaiting = TRUE, !.active = TRUE,
                                                          !.grace = FALSE, !.talking = FALSE])
           /\ face' = [face EXCEPT !.question = m.n]
      [] m.type = "timer_started" ->
           /\ ring' = IF face.ended THEN ring
                      ELSE Effect(startCountdown([ring EXCEPT !.awaiting = FALSE, !.active = TRUE,
                                                              !.grace = FALSE], m.n))
           /\ UNCHANGED face
      [] m.type = "agent_speaking" ->
           /\ ring' = Effect([clearCountdown(ring) EXCEPT !.awaiting = FALSE, !.grace = FALSE,
                                                          !.talking = FALSE])
           /\ UNCHANGED face
      [] m.type = "user_speaking" ->
           /\ ring' = Effect([freezeCountdown(ring) EXCEPT !.left = m.n, !.grace = FALSE, !.talking = TRUE])
           /\ UNCHANGED face
      [] m.type = "grace_period_started" ->
           /\ ring' = Effect([clearCountdown(ring) EXCEPT !.grace = TRUE, !.talking = FALSE])
           /\ UNCHANGED face
      [] m.type = "timer_resumed" ->
           /\ LET r == [ring EXCEPT !.grace = FALSE, !.talking = FALSE]
              IN  ring' = Effect(IF r.active /\ ~face.ended THEN startCountdown(r, m.n) ELSE r)
           /\ UNCHANGED face
      [] m.type \in {"session_end", "terminated"} -> endSession(ring)
      [] m.type = "interview_closing" ->
           /\ ring' = Effect([clearCountdown(ring) EXCEPT !.grace = FALSE, !.talking = FALSE])
           /\ face' = [face EXCEPT !.closing = TRUE]

DataReceived ==
    /\ wire # <<>> /\ face.connected
    /\ Hears(Head(wire))
    /\ wire' = Tail(wire)
    /\ UNCHANGED <<ai, talker, shows>>

\* useVoiceAssistant's state.
StateReceived ==
    /\ face.connected /\ shows # ai.state
    /\ shows' = ai.state
    /\ ring' = [ring EXCEPT !.dirty = TRUE]
    /\ UNCHANGED <<ai, wire, talker, face>>

\* The fallback starts a countdown when the agent seems to wait for an answer.
FallbackEffect ==
    /\ ring.dirty
    /\ LET r == [ring EXCEPT !.dirty = FALSE]
       IN  ring' = IF /\ shows = "listening" /\ r.active /\ ~face.ended
                      /\ ~r.counting /\ ~r.grace /\ ~r.talking /\ ~r.awaiting
                   THEN startCountdown(r, Countdown) ELSE r
    /\ UNCHANGED <<ai, wire, talker, face, shows>>

\* A second passes for the agent and for the page.
SecondPasses ==
    /\ ai.timer \notin {0, Off} \/ ring.counting
    /\ ai.timer # 0
    /\ ai' = [ai EXCEPT !.timer = IF @ = Off THEN Off ELSE @ - 1]
    /\ ring' = IF ~ring.counting THEN ring
               ELSE IF ring.left > 1 THEN [ring EXCEPT !.left = @ - 1] ELSE clearCountdown(ring)
    /\ UNCHANGED <<wire, talker, face, shows>>

-----------------------------------------------------------------------------
(* The ways out of the room.                                                *)

EndInterview == face.connected /\ ~face.ended /\ ~face.violation /\ endSession(ring)
                /\ UNCHANGED <<ai, wire, talker, shows>>

\* The connection is lost for good, more than five seconds after it came about
\* or not.  Nothing is said after it.
ConnectionLost(late) ==
    /\ face.connected
    /\ IF late /\ ~face.ended /\ ~face.violation
       THEN /\ ring' = clearCountdown(ring)
            /\ face' = [face EXCEPT !.connected = FALSE, !.ended = TRUE, !.ends = @ + 1]
       ELSE face' = [face EXCEPT !.connected = FALSE] /\ UNCHANGED ring
    /\ wire' = <<>>
    /\ UNCHANGED <<ai, talker, shows>>

\* The tab is hidden: the agent is told, and answers that it terminated.
handleVisibilityChange ==
    /\ face.connected /\ ring.active /\ ~face.ended /\ ~face.violation
    /\ face' = [face EXCEPT !.violation = TRUE]
    /\ \/ /\ ai.phase # "gone"
          /\ ai' = [ai EXCEPT !.phase = "gone", !.timer = Off, !.grace = FALSE]
          /\ Publish(<<Say("terminated", 0)>>)
       \/ UNCHANGED <<ai, wire>>
    /\ UNCHANGED <<talker, ring, shows>>

-----------------------------------------------------------------------------
RoomInit ==
    /\ ai = [phase |-> "greeting", state |-> "speaking", timer |-> Off, left |-> Countdown, over |-> FALSE,
             question |-> FALSE, grace |-> FALSE, confirming |-> FALSE, number |-> 0]
    /\ wire = <<>>
    /\ talker = [speaking |-> FALSE, talks |-> 0]
    /\ ring = [left |-> Off, counting |-> FALSE, grace |-> FALSE, talking |-> FALSE, active |-> FALSE,
               awaiting |-> FALSE, dirty |-> FALSE]
    /\ face = [question |-> 1, connected |-> TRUE, ended |-> FALSE, ends |-> 0, closing |-> FALSE,
               violation |-> FALSE]
    /\ shows = "speaking"

RoomNext ==
    \/ AgentSpeaks \/ AgentListens \/ AgentThinks \/ FirstQuestionDue \/ TalkStarts \/ TalkStops
    \/ GraceEnds \/ Advances \/ AgentLeaves
    \/ DataReceived \/ StateReceived \/ FallbackEffect \/ SecondPasses
    \/ EndInterview \/ handleVisibilityChange
    \/ \E late \in BOOLEAN : ConnectionLost(late)

RoomSpec == RoomInit /\ [][RoomNext]_roomVars

-----------------------------------------------------------------------------
(* Properties.                                                              *)

RoomTypeOK ==
    /\ ai.phase \in {"greeting", "interview", "closing", "gone"} /\ ai.state \in AgentStates
    /\ ai.timer \in 0 .. Off /\ ai.left \in 0 .. Countdown /\ ai.number \in 0 .. RoomLength
    /\ Len(wire) <= MaxWire
    /\ talker \in [speaking : BOOLEAN, talks : 0 .. MaxTalks]
    /\ ring.left \in 0 .. Off
    /\ face.ends \in Nat
    /\ shows \in AgentStates

\* The candidate is never passed over without notice: once the page has heard
\* everything, it shows the question the agent is at, and counts down whenever
\* the agent does, with at least as much left.  (A countdown that the agent
\* started while the candidate was talking is the exception: the end of the
\* talk hides it.)
CountdownIsTheAgents ==
    /\ ring.counting => ring.left # Off
    /\ wire = <<>> /\ face.connected /\ ~face.ended =>
         /\ ai.number > 0 => face.question = ai.number
         /\ ai.timer \notin {0, Off} /\ ~ai.over => ring.counting /\ ring.left >= ai.timer

\* However many of the agent's last word, the button, the lost connection and
\* the hidden tab come together, the page asks once to end the session, and no
\* countdown starts after it.
EndsOnce == face.ends <= 1 /\ (face.ended => ~ring.counting)
=============================================================================
