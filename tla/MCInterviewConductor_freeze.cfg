SPECIFICATION Spec
CONSTANTS
    max_questions = 2
    NO_RESPONSE_SECONDS = 5
    Faults = {"generate"}
    Events = {}
INVARIANT AlwaysAQuestion
CHECK_DEADLOCK FALSE
