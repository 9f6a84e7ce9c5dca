CONSTANTS
    j1 = j1
    t1 = t1
    w1 = w1
    Tabs = {t1}
    InviteTabs = {}
    Jobs = {j1}
    Workers = {w1}
    MaxQuestions = 1
    MaxRequests = 0
    Faults = {}
    Outside = {}
SPECIFICATION Spec
CHECK_DEADLOCK FALSE
PROPERTIES ResetBeforeStart
