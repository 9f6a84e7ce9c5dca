SPECIFICATION LobbySpec
CONSTANTS
    MaxStarts = 1
    MaxOpens = 2
    Mishaps = {}
INVARIANT LinkIsEnough
CHECK_DEADLOCK FALSE
