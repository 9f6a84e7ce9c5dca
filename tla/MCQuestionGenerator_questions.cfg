SPECIFICATION Spec
CONSTANTS
    Limits <- MCLimits
    Customs <- MCCustoms
    Projects <- MCProjects
    Ratios <- MCRatios
    Null = Null
    Faults = {"anchored", "generated"}
INVARIANT TypeOK
INVARIANT WithinShare
INVARIANT OnSchedule
CHECK_DEADLOCK FALSE
