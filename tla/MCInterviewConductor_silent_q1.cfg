SPECIFICATION Spec
CONSTANTS
    max_questions = 2
    NO_RESPONSE_SECONDS = 5
    Faults = {}
    Events = {}
PROPERTY AnswersAreHeard
CHECK_DEADLOCK FALSE
