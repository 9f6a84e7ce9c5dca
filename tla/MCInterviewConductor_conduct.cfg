SPECIFICATION FairSpec
CONSTANTS
    max_questions = 3
    NO_RESPONSE_SECONDS = 5
    Faults = {}
    Events = {"repeat", "duration", "tab_switch", "disconnect"}
INVARIANT TypeOK
INVARIANT SilenceCounted
PROPERTY InterviewEnds
CHECK_DEADLOCK FALSE
