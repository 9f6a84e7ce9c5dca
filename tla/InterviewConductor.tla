------------------------- MODULE InterviewConductor -------------------------
(***************************************************************************)
(* The LiveKit agent that conducts one interview: the coroutines and event *)
(* handlers of entrypoint.py, which share one event loop and a dozen       *)
(* mutable cells.  A coroutine runs alone between two awaits; at an await  *)
(* any other handler may run, so every await ends an action here.          *)
(*                                                                         *)
(* Time is counted in seconds: Tick lets one pass for every sleeping       *)
(* coroutine, and a sleep that is over is served before the next second.   *)
(* Speech and model calls take any time.                                   *)
(*                                                                         *)
(* Abstracted: the wording of questions and answers (an answer is its      *)
(* length, by the ranges of _SILENCE_TIERS), what is published to the      *)
(* candidate's page, and the database (see InterviewSession).              *)
(***************************************************************************)
EXTENDS Naturals, Sequences

CONSTANTS
    max_questions,        \* of the interview template
    NO_RESPONSE_SECONDS,  \* silence after which a question is passed over
    Faults,               \* what may fail
    Events                \* what may happen besides question and answer

FaultKinds == {"generate"}
EventKinds == {"repeat", "overlap", "duration", "tab_switch", "disconnect"}

ASSUME MaxQuestionsAssumption == max_questions \in Nat \ {0}
ASSUME NoResponseAssumption == NO_RESPONSE_SECONDS \in Nat \ {0}
ASSUME FaultsAssumption == Faults \subseteq FaultKinds
ASSUME EventsAssumption == Events \subseteq EventKinds

VARIABLES
    phase,      \* _interview_phase
    question,   \* is _repeatable_question set?
    count,      \* _qa_number
    words,      \* length of _current_answer_parts
    repeatUsed, \* _repeat_used
    agent,      \* _agent_state
    user,       \* _user_state
    turn,       \* has the candidate spoken since the last committed turn?
    speech,     \* what the agent is saying, then what it will say next
    timer,      \* _no_response_task
    remaining,  \* _timer_remaining
    grace,      \* _grace_task, in its first sleep
    confirms,   \* seconds left of each coroutine in its second sleep
    q1,         \* is _trigger_q1 waiting for the first question?
    step,       \* where _advance_question is (idle: _advancing is False)
    closing,    \* _awaiting_close and controller.closing, and how far it got
    switch,     \* is _terminate_tab_switch past its first await?
    ended,      \* controller.ended
    silence,    \* history: seconds of silence since the question was set
    heard       \* history: did the candidate speak since it was asked?

timing == <<timer, remaining, grace, confirms>>
talking == <<agent, user, turn, speech>>
asking == <<phase, question, count, repeatUsed, q1, step>>
ending == <<closing, switch, ended>>
history == <<silence, heard>>
vars == <<asking, words, talking, timing, ending, history>>

-----------------------------------------------------------------------------
(* Constants of the program, and types.                                    *)

SPEAK_GRACE_SECONDS == 3

(* Word counts, by range: 0 is no word, 1 up to 10, then 11, 16 and 31.    *)
Lengths == 0 .. 4
Enough(n) == n > 1
silence_needed(n) == CASE n = 4 -> 2 [] n = 3 -> 3 [] n = 2 -> 4

(* A task handle: None, or a task that sleeps, or one that is over but was *)
(* never taken out of its cell.                                            *)
None == [task |-> "none", left |-> 0]
Done == [task |-> "done", left |-> 0]
Sleeping(n) == [task |-> "sleeping", left |-> n]
Tasks(n) == [task : {"none", "sleeping", "done"}, left : 0 .. n]

Speeches == {"greeting", "reply", "skip", "repeat", "blocked", "goodbye"}
Questions == {"reply", "skip"}

TypeOK ==
    /\ phase \in {"greeting", "interview"}
    /\ question \in BOOLEAN
    /\ count \in 0 .. max_questions
    /\ words \in Lengths
    /\ repeatUsed \in BOOLEAN
    /\ agent \in {"listening", "thinking", "speaking"}
    /\ user \in {"listening", "speaking"}
    /\ turn \in BOOLEAN
    /\ speech \in Seq(Speeches)
    /\ timer \in Tasks(NO_RESPONSE_SECONDS)
    /\ remaining \in 0 .. NO_RESPONSE_SECONDS
    /\ grace \in Tasks(SPEAK_GRACE_SECONDS)
    /\ confirms \subseteq 0 .. 4
    /\ q1 \in BOOLEAN
    /\ step \in {"idle", "silent", "answered", "saying", "closing"}
    /\ closing \in {"no", "goodbye", "pause"}
    /\ switch \in BOOLEAN
    /\ ended \in BOOLEAN
    /\ silence \in 0 .. NO_RESPONSE_SECONDS
    /\ heard \in BOOLEAN

(* The agent has joined the room and is greeting the candidate.            *)
Init ==
    /\ phase = "greeting"
    /\ question = FALSE
    /\ count = 0
    /\ words = 0
    /\ repeatUsed = FALSE
    /\ agent = "speaking"
    /\ user = "listening"
    /\ turn = FALSE
    /\ speech = <<"greeting">>
    /\ timer = None
    /\ remaining = NO_RESPONSE_SECONDS
    /\ grace = None
    /\ confirms = {}
    /\ q1 = FALSE
    /\ step = "idle"
    /\ closing = "no"
    /\ switch = FALSE
    /\ ended = FALSE
    /\ silence = 0
    /\ heard = FALSE

-----------------------------------------------------------------------------
(* Helpers.                                                                *)

Greeted == "greeting" \notin {speech[i] : i \in DOMAIN speech}
Over == closing # "no" \/ ended

(* Mutant: armed with no question.                                         *)
ArmedMutant(active) ==
    IF phase = "interview" /\ ~Over /\ timer = None
    THEN Sleeping(remaining) ELSE timer

(* _arm_timer.                                                             *)
Armed(active) ==
    IF phase = "interview" /\ ~Over /\ timer = None /\ active
    THEN Sleeping(remaining) ELSE timer

(* agent_state_changed to "listening": the agent has nothing more to say.  *)
Listening(active) ==
    /\ agent' = "listening"
    /\ timer' = IF grace = None THEN Armed(active) ELSE timer

(* Mutant: the comparison is strict.                                       *)
IsLastMutant(n) == n > max_questions

(* _do_advance closes the interview with the recruiter's last question.    *)
IsLast(n) == n >= max_questions

(* Mutant: the next question gets what the last one left.                  *)
FullCountdownMutant == remaining

(* Every question has the whole countdown.                                 *)
FullCountdown == NO_RESPONSE_SECONDS

(* _advance_question runs _do_advance up to its first await: the question  *)
(* is recorded, and the last one closes the interview.                     *)
MayAdvance == ~Over /\ step = "idle" /\ question
Advance(answered) ==
    /\ timer' = None
    /\ grace' = None
    /\ remaining' = FullCountdown
    /\ words' = 0
    /\ repeatUsed' = FALSE
    /\ count' = count + 1
    /\ question' = FALSE
    /\ silence' = 0
    /\ \/ /\ IsLast(count')
          /\ step' = "closing"
          /\ closing' = "goodbye"
          /\ speech' = Append(speech, "goodbye")
       \/ /\ ~IsLast(count')
          /\ step' = IF answered THEN "answered" ELSE "silent"
          /\ UNCHANGED <<closing, speech>>
    /\ UNCHANGED <<phase, q1, agent, user, turn, switch, ended, heard>>

-----------------------------------------------------------------------------
(* The clock.                                                              *)

Asleep(t) == t.task = "sleeping"
Due(t) == Asleep(t) /\ t.left = 0
Passed(t) == IF Asleep(t) THEN Sleeping(t.left - 1) ELSE t
Quiet == user = "listening" /\ agent # "speaking"

Tick ==
    /\ ~ended
    /\ Asleep(timer) \/ Asleep(grace) \/ confirms # {}
    /\ ~Due(timer) /\ ~Due(grace) /\ 0 \notin confirms
    /\ timer' = Passed(timer)
    /\ grace' = Passed(grace)
    /\ confirms' = {n - 1 : n \in confirms}
    /\ silence' = IF Quiet /\ question /\ silence < NO_RESPONSE_SECONDS
                  THEN silence + 1 ELSE silence
    /\ UNCHANGED <<asking, words, talking, remaining, ending, heard>>

-----------------------------------------------------------------------------
(* The candidate.  What the microphone hears while the agent speaks is     *)
(* thrown away, so the candidate's state changes only in between; one who  *)
(* speaks while the next question is on its way ("overlap") may still be   *)
(* "speaking" when the agent is.                                           *)

Waiting ==
    agent = "listening" /\ speech = <<>> /\ ~q1 /\ step \in {"idle", "closing"}

UserSpeaks ==
    /\ ~ended
    /\ user = "listening"
    /\ agent # "speaking"
    /\ Waiting \/ "overlap" \in Events
    /\ user' = "speaking"
    /\ turn' = TRUE
    /\ heard' = TRUE
    /\ grace' = None
    /\ remaining' = IF timer = None THEN remaining ELSE timer.left
    /\ timer' = None
    /\ UNCHANGED <<asking, words, agent, speech, confirms, ending, silence>>

UserStops ==
    /\ ~ended
    /\ user = "speaking"
    /\ agent # "speaking"
    /\ user' = "listening"
    /\ grace' = IF phase = "interview" /\ ~Over /\ agent = "listening"
                THEN Sleeping(SPEAK_GRACE_SECONDS) ELSE grace
    /\ UNCHANGED <<asking, words, agent, turn, speech, timer, remaining,
                   confirms, ending, history>>

(* A final piece of transcript, whenever the recogniser delivers it.       *)
Transcribe ==
    /\ ~ended
    /\ turn
    /\ \E n \in Lengths : n > words /\ words' = n
    /\ UNCHANGED <<asking, talking, timing, ending, history>>

(* LiveKit commits the candidate's turn: the first one starts the first    *)
(* question, a request to repeat is served, any other is left to the       *)
(* timers.  LiveKit then asks the model for a reply of its own.            *)
TurnCommits ==
    /\ ~ended
    /\ turn /\ user = "listening" /\ speech = <<>> /\ agent = "listening"
    /\ turn' = FALSE
    /\ agent' = "thinking"
    /\ \/ /\ phase = "greeting"
          /\ words > 0
          /\ phase' = "interview"
          /\ question' = FALSE
          /\ q1' = TRUE
          /\ timer' = None
          /\ UNCHANGED <<repeatUsed, speech>>
       \/ /\ phase = "interview"
          /\ UNCHANGED <<phase, question, q1, repeatUsed, timer, speech>>
       \/ /\ phase = "interview" /\ closing = "no" /\ question
          /\ "repeat" \in Events
          /\ repeatUsed' = TRUE
          /\ speech' = <<IF repeatUsed THEN "blocked" ELSE "repeat">>
          /\ UNCHANGED <<phase, question, q1, timer>>
    /\ UNCHANGED <<count, step, words, user, remaining, grace, confirms,
                   ending, history>>

(* llm_node gives that reply nothing to say.                               *)
AutoReplyBlocked ==
    /\ ~ended
    /\ agent = "thinking" /\ speech = <<>>
    /\ Listening(question)
    /\ UNCHANGED <<asking, words, user, turn, speech, remaining, grace,
                   confirms, ending, history>>

-----------------------------------------------------------------------------
(* Asking.  llm_node lets the reply of generate_reply through unless the   *)
(* interview is closing.                                                   *)

WithReply == IF closing = "no" THEN Append(speech, "reply") ELSE speech

(* Mutant: no fallback for the first question.                             *)
TriggerQ1Mutant ==
    /\ ~ended
    /\ q1
    /\ q1' = FALSE
    /\ question' \in BOOLEAN
    /\ speech' = WithReply
    /\ UNCHANGED <<phase, count, repeatUsed, step, words, agent, user, turn,
                   timing, ending, history>>

(* _trigger_q1 has its question, from the generator or the fallback.       *)
TriggerQ1 ==
    /\ ~ended
    /\ q1
    /\ q1' = FALSE
    /\ question' = TRUE
    /\ speech' = WithReply
    /\ UNCHANGED <<phase, count, repeatUsed, step, words, agent, user, turn,
                   timing, ending, history>>

(* Mutant: no fallback for the question after a silence.                   *)
GenerateAfterSilenceMutant ==
    /\ ~ended
    /\ step = "silent"
    /\ step' = "saying"
    /\ question' \in BOOLEAN
    /\ speech' = Append(speech, "skip")
    /\ UNCHANGED <<phase, count, repeatUsed, q1, words, agent, user, turn,
                   timing, ending, history>>

(* _do_advance after a silent candidate: the question is spoken directly,  *)
(* with the fallback when there is none.                                   *)
GenerateAfterSilence ==
    /\ ~ended
    /\ step = "silent"
    /\ step' = "saying"
    /\ question' = TRUE
    /\ speech' = Append(speech, "skip")
    /\ UNCHANGED <<phase, count, repeatUsed, q1, words, agent, user, turn,
                   timing, ending, history>>

(* _do_advance after an answer: the model words the question, or invents   *)
(* one when there is none.                                                 *)
GenerateAfterAnswer ==
    /\ ~ended
    /\ step = "answered"
    /\ step' = "idle"
    /\ question' \in {TRUE, "generate" \notin Faults}
    /\ speech' = WithReply
    /\ UNCHANGED <<phase, count, repeatUsed, q1, words, agent, user, turn,
                   timing, ending, history>>

SpeechStarts ==
    /\ ~ended
    /\ speech # <<>>
    /\ agent # "speaking"
    /\ agent' = "speaking"
    /\ timer' = None
    /\ grace' = None
    /\ UNCHANGED <<asking, words, user, turn, speech, remaining, confirms,
                   ending, history>>

(* What was said is added to the conversation, and whoever awaited it goes *)
(* on.                                                                     *)
SpeechEnds ==
    /\ ~ended
    /\ agent = "speaking"
    /\ speech' = Tail(speech)
    /\ question' = (question \/ (phase = "interview" /\ count = 0))
    /\ Listening(question')
    /\ step' = IF Head(speech) = "skip" THEN "idle" ELSE step
    /\ closing' = IF Head(speech) = "goodbye" THEN "pause" ELSE closing
    /\ heard' = (heard /\ Head(speech) \notin Questions)
    /\ UNCHANGED <<phase, count, repeatUsed, q1, words, user, turn, remaining,
                   grace, confirms, switch, ended, silence>>

-----------------------------------------------------------------------------
(* The sleepers wake.  One that finds nothing to do returns, and its       *)
(* handle stays in its cell.                                               *)

TimeoutFires ==
    /\ ~ended
    /\ Due(timer)
    /\ \/ /\ Over \/ phase # "interview" \/ user = "speaking"
          /\ timer' = Done
          /\ UNCHANGED <<asking, words, talking, remaining, grace, ending,
                         history>>
       \/ /\ ~Over /\ phase = "interview" /\ user # "speaking"
          /\ IF MayAdvance
             THEN Advance(words > 0)
             ELSE /\ timer' = None
                  /\ UNCHANGED <<asking, words, talking, remaining, grace,
                                 ending, history>>
    /\ UNCHANGED confirms

(* The conditions _grace_then_decide tests after each of its sleeps.       *)
MayDecide ==
    phase = "interview" /\ ~Over /\ user # "speaking" /\ step = "idle"

(* The handle is dropped before the second sleep, which nothing can cancel *)
(* from then on.                                                           *)
GraceFires ==
    /\ ~ended
    /\ Due(grace)
    /\ \/ /\ ~MayDecide
          /\ grace' = Done
          /\ UNCHANGED <<timer, confirms>>
       \/ /\ MayDecide /\ Enough(words)
          /\ grace' = None
          /\ confirms' = confirms \union {silence_needed(words)}
          /\ UNCHANGED timer
       \/ /\ MayDecide /\ ~Enough(words)
          /\ grace' = None
          /\ timer' = Armed(question)
          /\ UNCHANGED confirms
    /\ UNCHANGED <<asking, words, talking, remaining, ending, history>>

ConfirmFires ==
    /\ ~ended
    /\ 0 \in confirms
    /\ confirms' = confirms \ {0}
    /\ IF MayDecide /\ MayAdvance
       THEN Advance(TRUE)
       ELSE UNCHANGED <<asking, words, talking, timer, remaining, grace,
                        ending, history>>

-----------------------------------------------------------------------------
(* The ends of an interview.                                               *)

DurationWatchdog ==
    /\ "duration" \in Events
    /\ Greeted
    /\ ~Over
    /\ closing' = "goodbye"
    /\ speech' = Append(speech, "goodbye")
    /\ timer' = None
    /\ grace' = None
    /\ UNCHANGED <<asking, words, agent, user, turn, remaining, confirms,
                   switch, ended, history>>

(* Mutant: nobody follows up the watchdog's farewell.                      *)
FinishClosingMutant ==
    /\ ~ended
    /\ closing = "pause" /\ step = "closing"
    /\ ended' = TRUE
    /\ UNCHANGED <<asking, words, talking, timing, closing, switch, history>>

(* Three seconds after the farewell.                                       *)
FinishClosing ==
    /\ ~ended
    /\ closing = "pause"
    /\ ended' = TRUE
    /\ UNCHANGED <<asking, words, talking, timing, closing, switch, history>>

TabSwitch ==
    /\ "tab_switch" \in Events
    /\ ~ended
    /\ ~switch
    /\ switch' = TRUE
    /\ timer' = None
    /\ grace' = None
    /\ UNCHANGED <<asking, words, talking, remaining, confirms, closing,
                   ended, history>>

TabSwitchFinish ==
    /\ ~ended
    /\ switch
    /\ ended' = TRUE
    /\ UNCHANGED <<asking, words, talking, timing, closing, switch, history>>

(* The session closes, or the room is left: the handlers are installed     *)
(* after the greeting.                                                     *)
Disconnect ==
    /\ "disconnect" \in Events
    /\ Greeted
    /\ ~ended
    /\ ended' = TRUE
    /\ timer' = None
    /\ grace' = None
    /\ UNCHANGED <<asking, words, talking, remaining, confirms, closing,
                   switch, history>>

-----------------------------------------------------------------------------
Candidate == UserSpeaks \/ UserStops \/ Transcribe \/ TurnCommits
Speaks == AutoReplyBlocked \/ SpeechStarts \/ SpeechEnds
Asks == TriggerQ1 \/ GenerateAfterSilence \/ GenerateAfterAnswer
Wakes == TimeoutFires \/ GraceFires \/ ConfirmFires
Finishes == FinishClosing \/ TabSwitchFinish
Interrupts == DurationWatchdog \/ TabSwitch \/ Disconnect

Next ==
    \/ Candidate \/ Interrupts
    \/ Tick \/ Speaks \/ Asks \/ Wakes \/ Finishes
Spec == Init /\ [][Next]_vars

(* The event loop runs every coroutine that is ready, time passes, calls   *)
(* of models and speech return, and nobody speaks without a pause.         *)
Fairness ==
    /\ WF_vars(Tick)
    /\ WF_vars(Speaks)
    /\ WF_vars(Asks)
    /\ WF_vars(Wakes)
    /\ WF_vars(Finishes)
    /\ WF_vars(UserStops)

FairSpec == Spec /\ Fairness

-----------------------------------------------------------------------------
(* An interview that goes on always has a question: one the candidate may  *)
(* answer, or one being generated (_advance_question does nothing without  *)
(* a question, and no timer is armed, so an interview without one stands   *)
(* still).                                                                 *)
AlwaysAQuestion ==
    phase = "interview" /\ ~Over =>
        question \/ q1 \/ step \in {"silent", "answered"}

(* The countdown runs only on a question the candidate may answer, never   *)
(* while the agent speaks (_arm_timer, agent_state_changed).               *)
TimerOnlyOnQuestion ==
    Asleep(timer) => question /\ agent # "speaking" /\ closing = "no"

(* However often the candidate's few words interrupt the countdown, a      *)
(* question is never passed over before it has been silent for             *)
(* NO_RESPONSE_SECONDS in all (pause and resume of the timer).             *)
SilenceCounted ==
    Asleep(timer) => silence + timer.left >= NO_RESPONSE_SECONDS

(* Where the interview is, for the candidate.                              *)
Stage ==
    IF ended THEN "ended" ELSE IF closing # "no" THEN "closing" ELSE phase

(* The conductor is an interview: it records each question once, in order, *)
(* and none once the interview closes, whichever of the timers, the        *)
(* watchdog and the tab switch gets there first.                           *)
Protocol == INSTANCE InterviewProtocol WITH stage <- Stage, recorded <- count
ImplementsProtocol == Protocol!ProtocolSpec

(* An interview whose candidate falls silent for good is brought to its    *)
(* end by the timers, whatever was pending.                                *)
SilentInterviewEnds ==
    <>(phase = "interview") /\ <>[](user = "listening") => <>ended

(* An interview that closes ends, even if the candidate keeps talking.     *)
ClosingEnds == closing # "no" ~> ended

(* So an interview ends, in either way.                                    *)
InterviewEnds == SilentInterviewEnds /\ ClosingEnds

-----------------------------------------------------------------------------
(* What the documents and comments say, and the code does not keep.        *)

(* A question counts as answered only if the candidate has spoken since it *)
(* was asked.                                                              *)
AnswersAreHeard == [][count' # count /\ words > 0 => heard]_vars
=============================================================================
