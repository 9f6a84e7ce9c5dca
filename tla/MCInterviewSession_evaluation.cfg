CONSTANTS
    j1 = j1
    t1 = t1
    w1 = w1
    w2 = w2
    Tabs = {t1}
    InviteTabs = {}
    Jobs = {j1}
    Workers = {w1, w2}
    MaxQuestions = 1
    MaxRequests = 1
    Faults = {"llm", "kill", "mail", "broker", "reread"}
    Outside = {"evaluate"}
SPECIFICATION Spec
CHECK_DEADLOCK FALSE
SYMMETRY Symmetric
INVARIANTS DecisionMatchesReport MailBudget
