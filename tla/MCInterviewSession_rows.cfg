CONSTANTS
    j1 = j1
    t1 = t1
    t2 = t2
    Tabs = {t1, t2}
    InviteTabs = {t2}
    Jobs = {j1}
    Workers = {}
    MaxQuestions = 1
    MaxRequests = 0
    Faults = {"read", "write", "message", "crash"}
    Outside = {"end", "resend"}
SPECIFICATION Spec
CHECK_DEADLOCK FALSE
INVARIANTS TypeOK SentHasTranscript
PROPERTIES SettledIsFinal
