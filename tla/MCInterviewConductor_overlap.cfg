SPECIFICATION FairSpec
CONSTANTS
    max_questions = 3
    NO_RESPONSE_SECONDS = 2
    Faults = {}
    Events = {"repeat", "overlap", "duration", "tab_switch", "disconnect"}
INVARIANT AlwaysAQuestion
INVARIANT TimerOnlyOnQuestion
PROPERTY ImplementsProtocol
CHECK_DEADLOCK FALSE
