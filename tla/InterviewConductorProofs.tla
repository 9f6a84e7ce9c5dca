---------------------- MODULE InterviewConductorProofs ----------------------
(***************************************************************************)
(* Theorems about InterviewConductor, for every number of questions, every *)
(* countdown and every choice of events.  Advance, the step the coroutines *)
(* compete for, has lemmas of its own.                                     *)
(***************************************************************************)
EXTENDS InterviewConductor, TLAPS

(* An interview with a question left to ask has not closed, and whoever    *)
(* speaks has something to say.                                            *)
Counted == count < max_questions \/ Over
Voiced == agent = "speaking" => speech # <<>>
TypeInv == TypeOK /\ Counted /\ Voiced

(* The cells of the two handles.                                           *)
LEMMA HandleTypes ==
  /\ None \in Tasks(NO_RESPONSE_SECONDS) /\ Done \in Tasks(NO_RESPONSE_SECONDS)
  /\ None \in Tasks(SPEAK_GRACE_SECONDS) /\ Done \in Tasks(SPEAK_GRACE_SECONDS)
  /\ Sleeping(SPEAK_GRACE_SECONDS) \in Tasks(SPEAK_GRACE_SECONDS)
  /\ \A n \in 0 .. NO_RESPONSE_SECONDS : Sleeping(n) \in Tasks(NO_RESPONSE_SECONDS)
  BY NoResponseAssumption DEF None, Done, Sleeping, Tasks, SPEAK_GRACE_SECONDS

(* A second passes, for a sleep that is not over.                          *)
LEMMA PassedType ==
  ASSUME NEW n \in Nat, NEW t \in Tasks(n), ~Due(t)
  PROVE  t.left \in 0 .. n /\ Passed(t) \in Tasks(n)
  BY DEF Due, Asleep, Passed, Sleeping, Tasks

(* Whatever the agent is told to say comes after what it is saying.        *)
LEMMA SpeechTypes ==
  ASSUME NEW s \in Seq(Speeches)
  PROVE  /\ \A item \in {"goodbye", "reply", "skip"} :
               Append(s, item) \in Seq(Speeches) /\ Append(s, item) # <<>>
         /\ s # <<>> => Tail(s) \in Seq(Speeches)
         /\ <<"greeting">> \in Seq(Speeches) /\ <<"greeting">> # <<>>
         /\ <<"blocked">> \in Seq(Speeches) /\ <<"repeat">> \in Seq(Speeches)
  BY DEF Speeches

LEMMA ArmedType ==
  ASSUME TypeOK, NEW active \in BOOLEAN
  PROVE  Armed(active) \in Tasks(NO_RESPONSE_SECONDS)
  BY HandleTypes DEF Armed, TypeOK

(* Recording a question keeps the types; it needs one left to record.      *)
LEMMA AdvanceType ==
  ASSUME TypeInv, MayAdvance, NEW answered \in BOOLEAN, Advance(answered),
         confirms' \subseteq 0 .. 4
  PROVE  TypeInv'
<1> USE MaxQuestionsAssumption, NoResponseAssumption
<1>1. timer' \in Tasks(NO_RESPONSE_SECONDS) /\ grace' \in Tasks(SPEAK_GRACE_SECONDS)
  BY HandleTypes DEF Advance
<1>2. count < max_questions /\ count' \in 0 .. max_questions
  BY DEF TypeInv, TypeOK, Counted, MayAdvance, Advance
<1>3. speech' \in Seq(Speeches) /\ (speech # <<>> => speech' # <<>>)
  BY SpeechTypes DEF TypeInv, TypeOK, Advance
<1>4. Counted' /\ Voiced'
  BY <1>2, <1>3 DEF TypeInv, TypeOK, Counted, Voiced, Over, Advance, IsLast
<1>5. /\ remaining' \in 0 .. NO_RESPONSE_SECONDS /\ words' \in Lengths
      /\ silence' \in 0 .. NO_RESPONSE_SECONDS
  BY DEF Advance, FullCountdown, Lengths
<1>6. /\ step' \in {"idle", "silent", "answered", "saying", "closing"}
      /\ closing' \in {"no", "goodbye", "pause"}
  BY DEF TypeInv, TypeOK, Advance
<1>7. TypeOK'
  BY <1>1, <1>2, <1>3, <1>5, <1>6 DEF TypeInv, TypeOK, Advance
<1> QED
  BY <1>4, <1>7 DEF TypeInv

(* The types, with what keeps them, are inductive.                         *)
LEMMA TypeInductive == Spec => []TypeInv
<1> USE MaxQuestionsAssumption, NoResponseAssumption
<1>1. Init => TypeInv
  <2>1. <<"greeting">> \in Seq(Speeches) /\ <<"greeting">> # <<>>
    BY DEF Speeches
  <2>2. Init => /\ count \in 0 .. max_questions /\ words \in Lengths
                /\ remaining \in 0 .. NO_RESPONSE_SECONDS
                /\ silence \in 0 .. NO_RESPONSE_SECONDS
                /\ confirms \subseteq 0 .. 4
                /\ Counted
    BY DEF Init, Lengths, Counted
  <2> QED
    BY <2>1, <2>2, HandleTypes DEF Init, TypeInv, TypeOK, Voiced
<1>2. TypeInv /\ [Next]_vars => TypeInv'
  <2> SUFFICES ASSUME TypeInv, [Next]_vars PROVE TypeInv'
    OBVIOUS
  <2> USE DEF TypeInv, TypeOK, Counted, Voiced, Over, asking, talking, timing,
      ending, history
  <2>1. CASE UserSpeaks
    <3>1. timer.left \in 0 .. NO_RESPONSE_SECONDS
      BY DEF Tasks
    <3> QED
      BY <2>1, <3>1, HandleTypes DEF UserSpeaks
  <2>2. CASE UserStops
    BY <2>2, HandleTypes DEF UserStops
  <2>3. CASE Transcribe
    BY <2>3 DEF Transcribe
  <2>4. CASE TurnCommits
    BY <2>4, HandleTypes, SpeechTypes DEF TurnCommits
  <2>5. CASE AutoReplyBlocked
    BY <2>5, ArmedType DEF AutoReplyBlocked, Listening
  <2>6. CASE TriggerQ1
    <3>1. speech' \in Seq(Speeches) /\ (speech # <<>> => speech' # <<>>)
      BY <2>6, SpeechTypes DEF TriggerQ1, WithReply
    <3>2. question' \in BOOLEAN /\ Counted' /\ Voiced'
      BY <2>6, <3>1 DEF TriggerQ1
    <3>3. /\ step' \in {"idle", "silent", "answered", "saying", "closing"}
          /\ q1' \in BOOLEAN
      BY <2>6 DEF TriggerQ1
    <3>4. UNCHANGED <<phase, count, repeatUsed, words, agent, user, turn, timing, ending, history>>
      BY <2>6 DEF TriggerQ1
    <3> QED
      BY <3>1, <3>2, <3>3, <3>4
  <2>7. CASE GenerateAfterSilence
    <3>1. speech' \in Seq(Speeches) /\ (speech # <<>> => speech' # <<>>)
      BY <2>7, SpeechTypes DEF GenerateAfterSilence
    <3>2. question' \in BOOLEAN /\ Counted' /\ Voiced'
      BY <2>7, <3>1 DEF GenerateAfterSilence
    <3>3. /\ step' \in {"idle", "silent", "answered", "saying", "closing"}
          /\ q1' \in BOOLEAN
      BY <2>7 DEF GenerateAfterSilence
    <3>4. UNCHANGED <<phase, count, repeatUsed, words, agent, user, turn, timing, ending, history>>
      BY <2>7 DEF GenerateAfterSilence
    <3> QED
      BY <3>1, <3>2, <3>3, <3>4
  <2>8. CASE GenerateAfterAnswer
    <3>1. speech' \in Seq(Speeches) /\ (speech # <<>> => speech' # <<>>)
      BY <2>8, SpeechTypes DEF GenerateAfterAnswer, WithReply
    <3>2. question' \in BOOLEAN /\ Counted' /\ Voiced'
      BY <2>8, <3>1 DEF GenerateAfterAnswer
    <3>3. /\ step' \in {"idle", "silent", "answered", "saying", "closing"}
          /\ q1' \in BOOLEAN
      BY <2>8 DEF GenerateAfterAnswer
    <3>4. UNCHANGED <<phase, count, repeatUsed, words, agent, user, turn, timing, ending, history>>
      BY <2>8 DEF GenerateAfterAnswer
    <3> QED
      BY <3>1, <3>2, <3>3, <3>4
  <2>9. CASE SpeechStarts
    BY <2>9, HandleTypes DEF SpeechStarts
  <2>10. CASE SpeechEnds
    <3>1. speech' \in Seq(Speeches)
      BY <2>10, SpeechTypes DEF SpeechEnds
    <3>2. timer' \in Tasks(NO_RESPONSE_SECONDS) /\ agent' = "listening"
      <4>1. question' \in BOOLEAN
        BY <2>10 DEF SpeechEnds
      <4> QED
        BY <2>10, <4>1, ArmedType DEF SpeechEnds, Listening
    <3> QED
      BY <2>10, <3>1, <3>2 DEF SpeechEnds
  <2>11. CASE TimeoutFires
    <3>1. CASE MayAdvance /\ Advance(words > 0)
      <4>1. confirms' \subseteq 0 .. 4 /\ (words > 0) \in BOOLEAN
        BY <2>11 DEF TimeoutFires
      <4> QED
        BY <3>1, <4>1, AdvanceType
    <3>2. CASE ~(MayAdvance /\ Advance(words > 0))
      BY <2>11, <3>2, HandleTypes DEF TimeoutFires
    <3> QED
      BY <3>1, <3>2
  <2>12. CASE GraceFires
    <3>1. Enough(words) => silence_needed(words) \in 0 .. 4
      BY DEF Enough, silence_needed, Lengths
    <3>2. Armed(question) \in Tasks(NO_RESPONSE_SECONDS)
      BY ArmedType
    <3> QED
      <4>1. /\ timer' \in Tasks(NO_RESPONSE_SECONDS)
            /\ grace' \in Tasks(SPEAK_GRACE_SECONDS)
        BY <2>12, <3>2, HandleTypes DEF GraceFires
      <4>2. \/ UNCHANGED confirms
            \/ /\ Enough(words)
               /\ confirms' = confirms \union {silence_needed(words)}
        BY <2>12 DEF GraceFires
      <4>3. confirms' \subseteq 0 .. 4
        BY <3>1, <4>2
      <4> QED
        BY <2>12, <4>1, <4>3 DEF GraceFires
  <2>13. CASE ConfirmFires
    <3>1. CASE MayDecide /\ MayAdvance
      <4>1. confirms' \subseteq 0 .. 4 /\ Advance(TRUE)
        BY <2>13, <3>1 DEF ConfirmFires
      <4> QED
        BY <3>1, <4>1, AdvanceType
    <3>2. CASE ~(MayDecide /\ MayAdvance)
      <4>1. /\ UNCHANGED <<asking, words, talking, timer, remaining, grace>>
            /\ UNCHANGED <<ending, history>>
        BY <2>13, <3>2 DEF ConfirmFires
      <4>2. confirms' \subseteq 0 .. 4
        BY <2>13 DEF ConfirmFires
      <4> QED
        BY <4>1, <4>2
    <3> QED
      BY <3>1, <3>2
  <2>14. CASE DurationWatchdog
    <3>1. speech' \in Seq(Speeches) /\ (speech # <<>> => speech' # <<>>)
      BY <2>14, SpeechTypes DEF DurationWatchdog
    <3> QED
      BY <2>14, <3>1, HandleTypes DEF DurationWatchdog
  <2>15. CASE FinishClosing
    BY <2>15 DEF FinishClosing
  <2>16. CASE TabSwitch
    BY <2>16, HandleTypes DEF TabSwitch
  <2>17. CASE TabSwitchFinish
    BY <2>17 DEF TabSwitchFinish
  <2>18. CASE Disconnect
    BY <2>18, HandleTypes DEF Disconnect
  <2>19. CASE Tick
    <3>1. timer' \in Tasks(NO_RESPONSE_SECONDS) /\ grace' \in Tasks(SPEAK_GRACE_SECONDS)
      BY <2>19, PassedType DEF Tick, SPEAK_GRACE_SECONDS
    <3>2. confirms' \subseteq 0 .. 4
      BY <2>19 DEF Tick
    <3>3. silence' \in 0 .. NO_RESPONSE_SECONDS
      BY <2>19 DEF Tick
    <3> QED
      BY <2>19, <3>1, <3>2, <3>3 DEF Tick
  <2>20. CASE UNCHANGED vars
    BY <2>20 DEF vars
  <2> QED
    BY <2>1, <2>2, <2>3, <2>4, <2>5, <2>6, <2>7, <2>8, <2>9, <2>10,
       <2>11, <2>12, <2>13, <2>14, <2>15, <2>16, <2>17, <2>18, <2>19, <2>20
    DEF Next, Candidate, Interrupts, Speaks, Asks, Wakes, Finishes
<1> QED
  BY <1>1, <1>2, PTL DEF Spec

(* Type correctness: no handler or coroutine leaves a variable outside its *)
(* type; in particular the questions recorded never exceed the recruiter's *)
(* number, whoever records them.                                           *)
THEOREM ConductorTypes == Spec => []TypeOK
<1>1. TypeInv => TypeOK
  BY DEF TypeInv
<1> QED
  BY <1>1, TypeInductive, PTL

-----------------------------------------------------------------------------
(* The conductor conducts an interview: whatever the timers, the watchdog, *)
(* the tab switch and the candidate do, a question is recorded one at a    *)
(* time, only before the interview closes, and the last one closes it.     *)
THEOREM ConductorImplementsProtocol == Spec => ImplementsProtocol
<1> USE MaxQuestionsAssumption
<1>1. Init => Protocol!ProtocolInit
  BY DEF Init, Stage, Protocol!ProtocolInit
<1>2. TypeInv /\ [Next]_vars => [Protocol!ProtocolNext]_(Protocol!protocolVars)
  <2> SUFFICES ASSUME TypeInv, [Next]_vars
               PROVE  [Protocol!ProtocolNext]_(Protocol!protocolVars)
    OBVIOUS
  <2> USE DEF Protocol!ProtocolNext, Protocol!protocolVars, Stage, asking, ending, Over
  <2> phase \in {"greeting", "interview"} /\ count \in Nat
    BY DEF TypeInv, TypeOK
  <2>1. CASE UNCHANGED <<phase, count, closing, ended>>
    BY <2>1
  <2>2. ASSUME NEW answered \in BOOLEAN, Advance(answered), MayAdvance, phase = "interview"
        PROVE  Protocol!Record
    <3>1. count < max_questions
      BY <2>2 DEF TypeInv, Counted, MayAdvance
    <3> QED
      BY <2>2, <3>1 DEF Advance, MayAdvance, IsLast, Protocol!Record
  <2>3. CASE TurnCommits
    BY <2>3 DEF TurnCommits, Protocol!Begin
  <2>4. CASE SpeechEnds
    BY <2>4 DEF SpeechEnds, Protocol!Close
  <2>5. CASE TimeoutFires
    <3>1. CASE MayAdvance /\ Advance(words > 0) /\ phase = "interview"
      <4>1. (words > 0) \in BOOLEAN
        OBVIOUS
      <4>2. Protocol!Record
        BY <2>2, <3>1, <4>1, Zenon
      <4> QED
        BY <4>2
    <3>2. CASE ~(MayAdvance /\ Advance(words > 0) /\ phase = "interview")
      BY <2>1, <2>5, <3>2 DEF TimeoutFires
    <3> QED
      BY <3>1, <3>2
  <2>6. CASE ConfirmFires
    <3>1. CASE MayDecide /\ MayAdvance
      BY <2>2, <2>6, <3>1 DEF ConfirmFires, MayDecide
    <3>2. CASE ~(MayDecide /\ MayAdvance)
      <4>1. UNCHANGED <<asking, ending>>
        BY <2>6, <3>2 DEF ConfirmFires
      <4> QED
        BY <2>1, <4>1
    <3> QED
      BY <3>1, <3>2
  <2>7. CASE DurationWatchdog
    BY <2>7 DEF DurationWatchdog, Protocol!Close
  <2>8. CASE Finishes \/ TabSwitch \/ Disconnect
    BY <2>8 DEF Finishes, FinishClosing, TabSwitchFinish, TabSwitch, Disconnect,
       Protocol!End
  <2>9. CASE UserSpeaks \/ UserStops \/ Transcribe \/ Asks
    BY <2>1, <2>9 DEF UserSpeaks, UserStops, Transcribe, Asks, TriggerQ1,
       GenerateAfterSilence, GenerateAfterAnswer
  <2>10. CASE AutoReplyBlocked \/ SpeechStarts \/ GraceFires \/ Tick \/ UNCHANGED vars
    BY <2>1, <2>10 DEF AutoReplyBlocked, SpeechStarts, GraceFires, Tick, vars
  <2> QED
    BY <2>3, <2>4, <2>5, <2>6, <2>7, <2>8, <2>9, <2>10
    DEF Next, Candidate, Interrupts, Speaks, Wakes
<1> QED
  BY <1>1, <1>2, TypeInductive, PTL DEF Spec, ImplementsProtocol, Protocol!ProtocolSpec

(* Once the interview closes, whoever closed it, nothing is recorded any   *)
(* more: no coroutine still asleep advances a question.                    *)
THEOREM NothingRecordedLate == Spec => Protocol!NothingAfterClosing
<1>1. [Protocol!ProtocolNext]_(Protocol!protocolVars)
        => [(Stage \in {"closing", "ended"}) => UNCHANGED count]_(Protocol!protocolVars)
  BY DEF Protocol!ProtocolNext, Protocol!protocolVars, Protocol!Begin, Protocol!Record,
     Protocol!Close, Protocol!End
<1> QED
  BY <1>1, ConductorImplementsProtocol, PTL
  DEF ImplementsProtocol, Protocol!ProtocolSpec, Protocol!NothingAfterClosing

-----------------------------------------------------------------------------
(* Where in what it says and will say the agent says one thing.            *)
Places(s, item) == {i \in DOMAIN s : s[i] = item}

LEMMA PlacesAppend ==
  ASSUME NEW s \in Seq(Speeches), NEW item \in Speeches, NEW other \in Speeches
  PROVE  /\ item # other => Places(Append(s, other), item) = Places(s, item)
         /\ Places(Append(s, item), item) = Places(s, item) \union {Len(s) + 1}
  BY DEF Places

LEMMA PlacesTail ==
  ASSUME NEW s \in Seq(Speeches), s # <<>>, NEW item \in Speeches
  PROVE  /\ Places(Tail(s), item) = {i - 1 : i \in Places(s, item) \ {1}}
         /\ Head(s) = item <=> 1 \in Places(s, item)
  BY DEF Places

(* The farewell is said by an interview that closes; a question after a    *)
(* silence is said once, while _do_advance awaits it; grace runs for a     *)
(* candidate the agent listens to; while a question is being generated     *)
(* there is none, and nothing is said before the first.                    *)
Farewell == closing = "no" => Places(speech, "goodbye") = {}
OneSkip ==
    /\ step # "saying" => Places(speech, "skip") = {}
    /\ \E k \in Nat : Places(speech, "skip") \subseteq {k}
GraceWaits == Asleep(grace) => agent # "speaking"
Pending ==
    /\ phase = "greeting" => step = "idle"
    /\ q1 /\ closing = "no" => speech = <<>> /\ ~question /\ step = "idle"
    /\ step \in {"silent", "answered"} /\ closing = "no" => ~question /\ count > 0
QuestionInv ==
    /\ Farewell
    /\ Pending
    /\ OneSkip
    /\ GraceWaits
    /\ TimerOnlyOnQuestion
    /\ "generate" \notin Faults => AlwaysAQuestion

LEMMA NotAsleep == ~Asleep(None) /\ ~Asleep(Done)
  BY DEF Asleep, None, Done

(* A recorded question leaves no timer, and the next one on its way.       *)
LEMMA AdvanceQuestion ==
  ASSUME TypeInv, QuestionInv, MayAdvance, phase = "interview",
         NEW answered \in BOOLEAN, Advance(answered)
  PROVE  QuestionInv'
<1>1. /\ Places(speech', "skip") = Places(speech, "skip")
      /\ closing' = "no" => speech' = speech
  <2>1. speech \in Seq(Speeches) /\ {"skip", "goodbye"} \subseteq Speeches
    BY DEF TypeInv, TypeOK, Speeches
  <2> QED
    BY <2>1, PlacesAppend DEF Advance
<1>2. Farewell' /\ OneSkip'
  BY <1>1 DEF QuestionInv, Farewell, OneSkip, Advance, MayAdvance, Over
<1>3. GraceWaits' /\ TimerOnlyOnQuestion'
  BY NotAsleep DEF GraceWaits, TimerOnlyOnQuestion, Advance
<1>4. AlwaysAQuestion'
  BY DEF AlwaysAQuestion, Advance, Over
<1>5. Pending'
  <2>1. count \in Nat /\ count' = count + 1
    BY DEF TypeInv, TypeOK, Advance
  <2> QED
    BY <2>1 DEF QuestionInv, Pending, Advance, MayAdvance, Over
<1> QED
  BY <1>2, <1>3, <1>4, <1>5 DEF QuestionInv

(* So are these, with the types.                                           *)
LEMMA QuestionInductive == Spec => []QuestionInv
<1>1. Init => QuestionInv
  <2>1. Places(<<"greeting">>, "skip") = {} /\ Places(<<"greeting">>, "goodbye") = {}
    BY DEF Places
  <2> QED
    BY <2>1, NotAsleep DEF Init, QuestionInv, Farewell, Pending, OneSkip, GraceWaits,
       TimerOnlyOnQuestion, AlwaysAQuestion
<1>2. TypeInv /\ QuestionInv /\ [Next]_vars => QuestionInv'
  <2> SUFFICES ASSUME TypeInv, QuestionInv, [Next]_vars PROVE QuestionInv'
    OBVIOUS
  <2> USE DEF QuestionInv, asking, talking, timing, ending, history
  <2>a. speech \in Seq(Speeches) /\ {"skip", "goodbye", "reply"} \subseteq Speeches
    BY DEF TypeInv, TypeOK, Speeches
  <2>b. ASSUME speech' = speech, step' = step, closing' = closing
        PROVE  Farewell' /\ OneSkip'
    BY <2>b DEF Farewell, OneSkip
  <2>e. ASSUME UNCHANGED <<speech, closing, asking>>
        PROVE  Pending'
    BY <2>e DEF Pending
  <2>c. ASSUME UNCHANGED <<phase, question, q1, step, closing, ended>>,
               "generate" \notin Faults
        PROVE  AlwaysAQuestion'
    BY <2>c DEF AlwaysAQuestion, Over
  <2>d. ASSUME NEW active \in BOOLEAN, Asleep(Armed(active))
        PROVE  Asleep(timer) \/ (active /\ closing = "no")
    BY <2>d DEF Armed, Over
  <2>1. CASE UserSpeaks
    <3>1. GraceWaits' /\ TimerOnlyOnQuestion'
      BY <2>1, NotAsleep DEF UserSpeaks, GraceWaits, TimerOnlyOnQuestion
    <3> QED
      BY <2>1, <2>b, <2>c, <2>e, <3>1 DEF UserSpeaks
  <2>2. CASE UserStops
    <3>1. GraceWaits' /\ TimerOnlyOnQuestion'
      BY <2>2 DEF UserStops, GraceWaits, TimerOnlyOnQuestion
    <3> QED
      BY <2>2, <2>b, <2>c, <2>e, <3>1 DEF UserStops
  <2>3. CASE Transcribe
    <3>1. GraceWaits' /\ TimerOnlyOnQuestion'
      BY <2>3 DEF Transcribe, GraceWaits, TimerOnlyOnQuestion
    <3> QED
      BY <2>3, <2>b, <2>c, <2>e, <3>1 DEF Transcribe
  <2>4. CASE TurnCommits
    <3>1. Farewell' /\ OneSkip'
      <4>1. \A item \in {"skip", "goodbye"} :
              /\ Places(<<"repeat">>, item) = {} /\ Places(<<"blocked">>, item) = {}
        BY DEF Places
      <4>2. speech' = speech \/ speech' = <<"repeat">> \/ speech' = <<"blocked">>
        BY <2>4 DEF TurnCommits
      <4> QED
        BY <2>4, <2>b, <4>1, <4>2 DEF TurnCommits, Farewell, OneSkip
    <3>2. GraceWaits' /\ TimerOnlyOnQuestion'
      BY <2>4, NotAsleep DEF TurnCommits, GraceWaits, TimerOnlyOnQuestion
    <3>3. ASSUME "generate" \notin Faults PROVE AlwaysAQuestion'
      BY <2>4, <3>3 DEF TurnCommits, AlwaysAQuestion, Over
    <3>20. Pending'
      BY <2>4 DEF TurnCommits, Pending
    <3> QED
      BY <3>1, <3>2, <3>3, <3>20
  <2>5. CASE AutoReplyBlocked
    <3>1. question \in BOOLEAN
      BY DEF TypeInv, TypeOK
    <3>2. GraceWaits' /\ TimerOnlyOnQuestion'
      BY <2>5, <2>d, <3>1 DEF AutoReplyBlocked, Listening, GraceWaits, TimerOnlyOnQuestion
    <3> QED
      BY <2>5, <2>b, <2>c, <2>e, <3>2 DEF AutoReplyBlocked
  <2>6. CASE TriggerQ1
    <3>1. \A item \in {"skip", "goodbye"} : Places(speech', item) = Places(speech, item)
      BY <2>6, <2>a, PlacesAppend DEF TriggerQ1, WithReply
    <3>2. Farewell' /\ OneSkip'
      BY <2>6, <3>1 DEF TriggerQ1, Farewell, OneSkip
    <3>3. GraceWaits' /\ TimerOnlyOnQuestion'
      BY <2>6 DEF TriggerQ1, GraceWaits, TimerOnlyOnQuestion
    <3>4. ASSUME "generate" \notin Faults PROVE AlwaysAQuestion'
      BY <2>6, <3>4 DEF TriggerQ1, AlwaysAQuestion
    <3>20. Pending'
      BY <2>6 DEF TriggerQ1, Pending
    <3> QED
      BY <3>2, <3>3, <3>4, <3>20
  <2>7. CASE GenerateAfterSilence
    <3>1. /\ Places(speech', "goodbye") = Places(speech, "goodbye")
          /\ Places(speech', "skip") = Places(speech, "skip") \union {Len(speech) + 1}
      BY <2>7, <2>a, PlacesAppend DEF GenerateAfterSilence
    <3>2. Farewell' /\ OneSkip'
      <4>1. Places(speech, "skip") = {} /\ Len(speech) + 1 \in Nat
        BY <2>7, <2>a DEF GenerateAfterSilence, OneSkip
      <4> QED
        BY <2>7, <3>1, <4>1 DEF GenerateAfterSilence, Farewell, OneSkip
    <3>3. GraceWaits' /\ TimerOnlyOnQuestion'
      BY <2>7 DEF GenerateAfterSilence, GraceWaits, TimerOnlyOnQuestion
    <3>4. AlwaysAQuestion'
      BY <2>7 DEF GenerateAfterSilence, AlwaysAQuestion
    <3>20. Pending'
      BY <2>7 DEF GenerateAfterSilence, Pending
    <3> QED
      BY <3>2, <3>3, <3>4, <3>20
  <2>8. CASE GenerateAfterAnswer
    <3>1. \A item \in {"skip", "goodbye"} : Places(speech', item) = Places(speech, item)
      BY <2>8, <2>a, PlacesAppend DEF GenerateAfterAnswer, WithReply
    <3>2. Farewell' /\ OneSkip'
      BY <2>8, <3>1 DEF GenerateAfterAnswer, Farewell, OneSkip
    <3>3. GraceWaits' /\ TimerOnlyOnQuestion'
      BY <2>8 DEF GenerateAfterAnswer, GraceWaits, TimerOnlyOnQuestion, Pending
    <3>4. ASSUME "generate" \notin Faults PROVE AlwaysAQuestion'
      BY <2>8, <3>4 DEF GenerateAfterAnswer, AlwaysAQuestion
    <3>20. Pending'
      BY <2>8 DEF GenerateAfterAnswer, Pending
    <3> QED
      BY <3>2, <3>3, <3>4, <3>20
  <2>9. CASE SpeechStarts
    <3>1. GraceWaits' /\ TimerOnlyOnQuestion'
      BY <2>9, NotAsleep DEF SpeechStarts, GraceWaits, TimerOnlyOnQuestion
    <3> QED
      BY <2>9, <2>b, <2>c, <2>e, <3>1 DEF SpeechStarts
  <2>10. CASE SpeechEnds
    <3> DEFINE Moved(item) == {i - 1 : i \in Places(speech, item) \ {1}}
    <3>1. speech # <<>>
      BY <2>10 DEF SpeechEnds, TypeInv, Voiced
    <3>2. \A item \in {"skip", "goodbye"} :
            /\ Places(speech', item) = Moved(item)
            /\ Head(speech) = item <=> 1 \in Places(speech, item)
      BY <2>10, <2>a, <3>1, PlacesTail DEF SpeechEnds
    <3>3. Farewell'
      BY <2>10, <3>2 DEF SpeechEnds, Farewell
    <3>4. PICK k \in Nat : Places(speech, "skip") \subseteq {k}
      BY DEF OneSkip
    <3>5. OneSkip'
      <4>1. CASE Head(speech) = "skip"
        <5>1. Places(speech', "skip") = {}
          BY <3>2, <3>4, <4>1
        <5> QED
          BY <5>1 DEF OneSkip
      <4>2. CASE Head(speech) # "skip"
        <5>1. Places(speech', "skip") \subseteq {k - 1}
          BY <3>2, <3>4
        <5>2. k - 1 \in Nat \/ Places(speech', "skip") = {}
          <6>1. k = 0 => Places(speech, "skip") = {}
            BY <2>a, <3>4 DEF Places
          <6> QED
            BY <3>2, <3>4, <6>1
        <5>3. \E n \in Nat : Places(speech', "skip") \subseteq {n}
          BY <5>1, <5>2
        <5>4. step # "saying" => Places(speech', "skip") = {}
          BY <3>2 DEF OneSkip
        <5> QED
          BY <2>10, <4>2, <5>3, <5>4 DEF SpeechEnds, OneSkip
      <4> QED
        BY <4>1, <4>2
    <3>6. GraceWaits' /\ TimerOnlyOnQuestion'
      <4>1. question' \in BOOLEAN
        BY <2>10 DEF SpeechEnds, TypeInv, TypeOK
      <4>2. closing = "no" => closing' = "no"
        BY <2>10, <3>2 DEF SpeechEnds, Farewell
      <4>3. Asleep(timer') => question' /\ closing = "no"
        BY <2>10, <2>d, <4>1 DEF SpeechEnds, Listening, TimerOnlyOnQuestion
      <4> QED
        BY <2>10, <4>2, <4>3 DEF SpeechEnds, Listening, GraceWaits, TimerOnlyOnQuestion
    <3>7. ASSUME "generate" \notin Faults PROVE AlwaysAQuestion'
      <4>1. Head(speech) = "skip" => step = "saying"
        BY <3>2 DEF OneSkip
      <4>2. closing' = "no" => closing = "no"
        BY <2>10 DEF SpeechEnds
      <4> QED
        BY <2>10, <3>7, <4>1, <4>2 DEF SpeechEnds, AlwaysAQuestion, Over
    <3>20. Pending'
      <4>1. closing' = "no" => closing = "no"
        BY <2>10 DEF SpeechEnds
      <4>2. question' <=> question \/ (phase = "interview" /\ count = 0)
        BY <2>10 DEF SpeechEnds
      <4>3. count > 0 => count # 0
        BY DEF TypeInv, TypeOK
      <4>4. step' \in {step, "idle"} /\ UNCHANGED <<phase, count, q1>>
        BY <2>10 DEF SpeechEnds
      <4> QED
        BY <3>1, <4>1, <4>2, <4>3, <4>4 DEF Pending
    <3> QED
      BY <3>3, <3>5, <3>6, <3>7, <3>20
  <2>11. CASE TimeoutFires
    <3>1. CASE MayAdvance /\ Advance(words > 0) /\ phase = "interview"
      <4>1. (words > 0) \in BOOLEAN
        OBVIOUS
      <4> QED
        BY <3>1, <4>1, AdvanceQuestion, Zenon
    <3>2. CASE ~(MayAdvance /\ Advance(words > 0) /\ phase = "interview")
      <4>1. /\ timer' \in {Done, None} /\ UNCHANGED grace
            /\ UNCHANGED <<asking, talking, ending>>
        BY <2>11, <3>2 DEF TimeoutFires
      <4>2. GraceWaits' /\ TimerOnlyOnQuestion'
        BY <4>1, NotAsleep DEF GraceWaits, TimerOnlyOnQuestion
      <4> QED
        BY <2>b, <2>c, <2>e, <4>1, <4>2
    <3> QED
      BY <3>1, <3>2
  <2>12. CASE GraceFires
    <3>1. agent # "speaking" /\ question \in BOOLEAN
      BY <2>12 DEF GraceFires, Due, GraceWaits, TypeInv, TypeOK
    <3>2. GraceWaits' /\ TimerOnlyOnQuestion'
      BY <2>12, <2>d, <3>1 DEF GraceFires, GraceWaits, TimerOnlyOnQuestion
    <3> QED
      BY <2>12, <2>b, <2>c, <2>e, <3>2 DEF GraceFires
  <2>13. CASE ConfirmFires
    <3>1. CASE MayDecide /\ MayAdvance
      <4>1. Advance(TRUE) /\ phase = "interview"
        BY <2>13, <3>1 DEF ConfirmFires, MayDecide
      <4> QED
        BY <3>1, <4>1, AdvanceQuestion
    <3>2. CASE ~(MayDecide /\ MayAdvance)
      <4>1. UNCHANGED <<asking, talking, timer, grace, ending>>
        BY <2>13, <3>2 DEF ConfirmFires
      <4>2. GraceWaits' /\ TimerOnlyOnQuestion'
        BY <4>1 DEF GraceWaits, TimerOnlyOnQuestion
      <4> QED
        BY <2>b, <2>c, <2>e, <4>1, <4>2
    <3> QED
      BY <3>1, <3>2
  <2>14. CASE DurationWatchdog
    <3>1. Places(speech', "skip") = Places(speech, "skip")
      BY <2>14, <2>a, PlacesAppend DEF DurationWatchdog
    <3>2. Farewell' /\ OneSkip'
      BY <2>14, <3>1 DEF DurationWatchdog, Farewell, OneSkip
    <3>3. GraceWaits' /\ TimerOnlyOnQuestion' /\ AlwaysAQuestion'
      BY <2>14, NotAsleep
      DEF DurationWatchdog, GraceWaits, TimerOnlyOnQuestion, AlwaysAQuestion, Over
    <3>20. Pending'
      BY <2>14 DEF DurationWatchdog, Pending
    <3> QED
      BY <3>2, <3>3, <3>20
  <2>15. CASE FinishClosing \/ TabSwitchFinish \/ Disconnect
    <3>1. GraceWaits' /\ TimerOnlyOnQuestion' /\ AlwaysAQuestion'
      BY <2>15, NotAsleep DEF FinishClosing, TabSwitchFinish, Disconnect, GraceWaits,
         TimerOnlyOnQuestion, AlwaysAQuestion, Over
    <3> QED
      BY <2>15, <2>b, <2>e, <3>1 DEF FinishClosing, TabSwitchFinish, Disconnect
  <2>16. CASE TabSwitch
    <3>1. GraceWaits' /\ TimerOnlyOnQuestion'
      BY <2>16, NotAsleep DEF TabSwitch, GraceWaits, TimerOnlyOnQuestion
    <3> QED
      BY <2>16, <2>b, <2>c, <2>e, <3>1 DEF TabSwitch
  <2>17. CASE Tick
    <3>1. (Asleep(timer') => Asleep(timer)) /\ (Asleep(grace') => Asleep(grace))
      BY <2>17 DEF Tick, Passed, Asleep
    <3>2. GraceWaits' /\ TimerOnlyOnQuestion'
      BY <2>17, <3>1 DEF Tick, GraceWaits, TimerOnlyOnQuestion
    <3> QED
      BY <2>17, <2>b, <2>c, <2>e, <3>2 DEF Tick
  <2>18. CASE UNCHANGED vars
    <3>1. GraceWaits' /\ TimerOnlyOnQuestion'
      BY <2>18 DEF vars, GraceWaits, TimerOnlyOnQuestion
    <3> QED
      BY <2>18, <2>b, <2>c, <2>e, <3>1 DEF vars
  <2> QED
    BY <2>1, <2>2, <2>3, <2>4, <2>5, <2>6, <2>7, <2>8, <2>9, <2>10, <2>11,
       <2>12, <2>13, <2>14, <2>15, <2>16, <2>17, <2>18
    DEF Next, Candidate, Interrupts, Speaks, Asks, Wakes, Finishes
<1> QED
  BY <1>1, <1>2, TypeInductive, PTL DEF Spec

(* The countdown runs only on a question the candidate may answer, while   *)
(* the agent is silent and the interview is not closing.                   *)
THEOREM CountdownOnQuestion == Spec => []TimerOnlyOnQuestion
<1>1. QuestionInv => TimerOnlyOnQuestion
  BY DEF QuestionInv
<1> QED
  BY <1>1, QuestionInductive, PTL

(* As long as the question generator answers, an interview that goes on    *)
(* has a question or is getting one: it never stands still.                *)
THEOREM QuestionAlways ==
  ASSUME "generate" \notin Faults
  PROVE  Spec => []AlwaysAQuestion
<1>1. QuestionInv => AlwaysAQuestion
  BY DEF QuestionInv
<1> QED
  BY <1>1, QuestionInductive, PTL

-----------------------------------------------------------------------------
(* The pauses of the countdown.  What the timer has left, asleep or woken  *)
(* for nothing, and the silence there was already are together the whole   *)
(* countdown; so is what a pause leaves for the next timer.                *)
LeftToRun ==
    /\ timer # None => silence + timer.left >= NO_RESPONSE_SECONDS
    /\ silence + remaining >= NO_RESPONSE_SECONDS

(* A candidate who speaks in turn has the agent listening to the end: the  *)
(* countdown does not run meanwhile.                                       *)
Attentive ==
    user = "speaking" /\ ~Over =>
        /\ agent = "listening" /\ speech = <<>> /\ ~q1
        /\ step \in {"idle", "closing"}
        /\ ~Asleep(timer)

SilenceInv == LeftToRun /\ Attentive

LEMMA SilenceInductive ==
  ASSUME "overlap" \notin Events
  PROVE  Spec => []SilenceInv
<1> USE NoResponseAssumption
<1>1. Init => SilenceInv
  BY DEF Init, SilenceInv, LeftToRun, Attentive, None
<1>2. TypeInv /\ QuestionInv /\ SilenceInv /\ [Next]_vars => SilenceInv'
  <2> SUFFICES ASSUME TypeInv, QuestionInv, SilenceInv, [Next]_vars PROVE SilenceInv'
    OBVIOUS
  <2> USE DEF asking, talking, timing, ending, history
  <2>a. /\ silence \in Nat /\ remaining \in Nat /\ silence <= NO_RESPONSE_SECONDS
        /\ timer.left \in Nat /\ user \in {"listening", "speaking"}
    BY DEF TypeInv, TypeOK, Tasks
  <2>b. ASSUME UNCHANGED <<timer, silence, remaining>>
        PROVE  LeftToRun'
    BY <2>b DEF SilenceInv, LeftToRun
  <2>c. ASSUME NEW active \in BOOLEAN, UNCHANGED <<silence, remaining>>,
               timer' \in {None, timer, Armed(active)}
        PROVE  LeftToRun'
    BY <2>a, <2>c DEF SilenceInv, LeftToRun, Armed, Sleeping
  <2>d. ASSUME UNCHANGED <<user, closing, ended, agent, speech, q1, step>>,
               Asleep(timer') => Asleep(timer)
        PROVE  Attentive'
    BY <2>d DEF SilenceInv, Attentive, Over
  <2>e. ASSUME NEW answered \in BOOLEAN, Advance(answered), user # "speaking"
        PROVE  SilenceInv'
    BY <2>a, <2>e DEF Advance, FullCountdown, SilenceInv, LeftToRun, Attentive, None
  <2>1. CASE UserSpeaks
    <3>1. LeftToRun'
      BY <2>1, <2>a DEF UserSpeaks, SilenceInv, LeftToRun
    <3>2. Attentive'
      BY <2>1, NotAsleep DEF UserSpeaks, Waiting, Attentive
    <3> QED
      BY <3>1, <3>2 DEF SilenceInv
  <2>2. CASE UserStops
    BY <2>2, <2>b DEF UserStops, SilenceInv, Attentive
  <2>3. CASE Transcribe
    BY <2>3, <2>b, <2>d DEF Transcribe, SilenceInv
  <2>4. CASE TurnCommits
    <3>1. LeftToRun'
      <4>1. timer' \in {None, timer} /\ UNCHANGED <<silence, remaining>>
        BY <2>4 DEF TurnCommits
      <4> QED
        BY <2>c, <4>1
    <3> QED
      BY <2>4, <3>1 DEF TurnCommits, SilenceInv, Attentive
  <2>5. CASE AutoReplyBlocked
    <3>1. question \in BOOLEAN /\ timer' \in {timer, Armed(question)}
      BY <2>5 DEF TypeInv, TypeOK, AutoReplyBlocked, Listening
    <3>2. LeftToRun'
      BY <2>5, <2>c, <3>1 DEF AutoReplyBlocked
    <3>3. Attentive'
      BY <2>5 DEF AutoReplyBlocked, SilenceInv, Attentive, Over
    <3> QED
      BY <3>2, <3>3 DEF SilenceInv
  <2>6. CASE TriggerQ1 \/ GenerateAfterSilence \/ GenerateAfterAnswer
    <3>1. LeftToRun'
      BY <2>6, <2>b DEF TriggerQ1, GenerateAfterSilence, GenerateAfterAnswer
    <3>2. Attentive'
      BY <2>6 DEF TriggerQ1, GenerateAfterSilence, GenerateAfterAnswer, SilenceInv, Attentive, Over
    <3> QED
      BY <3>1, <3>2 DEF SilenceInv
  <2>7. CASE SpeechStarts
    <3>1. LeftToRun'
      BY <2>7, <2>c DEF SpeechStarts
    <3>2. Attentive'
      BY <2>7 DEF SpeechStarts, SilenceInv, Attentive, Over
    <3> QED
      BY <3>1, <3>2 DEF SilenceInv
  <2>8. CASE SpeechEnds
    <3>1. question' \in BOOLEAN /\ timer' \in {timer, Armed(question')}
      BY <2>8 DEF TypeInv, TypeOK, SpeechEnds, Listening
    <3>2. LeftToRun'
      BY <2>8, <2>c, <3>1 DEF SpeechEnds
    <3>3. Attentive'
      BY <2>8 DEF SpeechEnds, SilenceInv, Attentive, Over
    <3> QED
      BY <3>2, <3>3 DEF SilenceInv
  <2>9. CASE TimeoutFires
    <3>1. CASE MayAdvance /\ Advance(words > 0) /\ user # "speaking"
      <4>1. (words > 0) \in BOOLEAN
        OBVIOUS
      <4> QED
        BY <2>e, <3>1, <4>1, Zenon
    <3>2. CASE /\ timer' \in {Done, None} /\ timer.left = 0 /\ Due(timer)
               /\ UNCHANGED <<asking, words, talking, remaining, grace, ending, history>>
      <4>1. LeftToRun'
        BY <2>a, <3>2 DEF SilenceInv, LeftToRun, Due, Asleep, None, Done
      <4>2. Attentive'
        BY <2>d, <3>2, NotAsleep
      <4> QED
        BY <4>1, <4>2 DEF SilenceInv
    <3> QED
      BY <2>9, <3>1, <3>2 DEF TimeoutFires, Due
  <2>10. CASE GraceFires
    <3>1. question \in BOOLEAN /\ timer' \in {timer, Armed(question)}
      BY <2>10 DEF TypeInv, TypeOK, GraceFires
    <3>2. LeftToRun'
      BY <2>10, <2>c, <3>1 DEF GraceFires
    <3>3. Attentive'
      BY <2>10, <2>d DEF GraceFires, MayDecide, Attentive
    <3> QED
      BY <3>2, <3>3 DEF SilenceInv
  <2>11. CASE ConfirmFires
    <3>1. CASE Advance(TRUE) /\ user # "speaking"
      BY <3>1, <2>e
    <3>2. CASE UNCHANGED <<asking, words, talking, timer, remaining, grace, ending, history>>
      BY <2>b, <2>d, <3>2 DEF SilenceInv
    <3> QED
      BY <2>11, <3>1, <3>2 DEF ConfirmFires, MayDecide
  <2>12. CASE DurationWatchdog \/ TabSwitch \/ Disconnect
    <3>1. LeftToRun'
      BY <2>12, <2>c DEF DurationWatchdog, TabSwitch, Disconnect
    <3>2. Attentive'
      BY <2>12, <2>d, NotAsleep
      DEF DurationWatchdog, TabSwitch, Disconnect, SilenceInv, Attentive, Over
    <3> QED
      BY <3>1, <3>2 DEF SilenceInv
  <2>13. CASE FinishClosing \/ TabSwitchFinish
    BY <2>13, <2>b DEF FinishClosing, TabSwitchFinish, SilenceInv, Attentive, Over
  <2>14. CASE Tick
    <3>1. Attentive'
      BY <2>14, <2>d DEF Tick, Passed, Asleep
    <3>2. CASE Asleep(timer)
      <4>1. Quiet /\ question
        BY <2>14, <2>a, <3>2
        DEF Tick, QuestionInv, TimerOnlyOnQuestion, SilenceInv, Attentive, Quiet, Over
      <4>2. timer'.left = timer.left - 1 /\ timer' # None /\ timer # None
        BY <2>14, <3>2 DEF Tick, Passed, Sleeping, Asleep, None
      <4>3. silence' = (IF silence < NO_RESPONSE_SECONDS THEN silence + 1 ELSE silence)
        BY <2>14, <4>1 DEF Tick
      <4>4. timer.left # 0 /\ UNCHANGED remaining
        BY <2>14, <3>2 DEF Tick, Due
      <4> QED
        BY <2>a, <3>1, <4>2, <4>3, <4>4 DEF SilenceInv, LeftToRun
    <3>3. CASE ~Asleep(timer)
      <4>1. timer' = timer /\ UNCHANGED remaining
        BY <2>14, <3>3 DEF Tick, Passed
      <4>2. silence' = silence \/ silence' = silence + 1
        BY <2>14 DEF Tick
      <4>3. LeftToRun'
        BY <2>a, <4>1, <4>2 DEF SilenceInv, LeftToRun
      <4> QED
        BY <3>1, <4>3 DEF SilenceInv
    <3> QED
      BY <3>2, <3>3
  <2>15. CASE UNCHANGED vars
    BY <2>15, <2>b, <2>d DEF vars, SilenceInv
  <2> QED
    BY <2>1, <2>2, <2>3, <2>4, <2>5, <2>6, <2>7, <2>8, <2>9, <2>10, <2>11, <2>12,
       <2>13, <2>14, <2>15
    DEF Next, Candidate, Interrupts, Speaks, Asks, Wakes, Finishes
<1> QED
  BY <1>1, <1>2, TypeInductive, QuestionInductive, PTL DEF Spec

(* A candidate who takes turns is never passed over early: however often a *)
(* few words stop the countdown, a question is not given up before it has  *)
(* been silent for NO_RESPONSE_SECONDS in all.  (One who talks into the    *)
(* pause between two questions may lose time: the timer is armed while     *)
(* they speak.)                                                            *)
THEOREM SilenceIsCounted ==
  ASSUME "overlap" \notin Events
  PROVE  Spec => []SilenceCounted
<1>1. TypeInv /\ SilenceInv => SilenceCounted
  BY DEF SilenceInv, LeftToRun, SilenceCounted, Asleep, None
<1> QED
  BY <1>1, TypeInductive, SilenceInductive, PTL
=============================================================================
