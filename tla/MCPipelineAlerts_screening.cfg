SPECIFICATION FairPipelineSpec
CONSTANTS
    Apps = {"a"}
    MaxTasks = 1
    MaxFaults = 3
    Replicas = {"r", "s"}
INVARIANT PipelineTypeOK
INVARIANT MailedIsDecided
INVARIANT AlertsAreExact
PROPERTY NobodyIsForgotten
CHECK_DEADLOCK FALSE
