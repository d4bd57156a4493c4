SPECIFICATION LimiterSpec
CONSTANTS
    Ids = {i1}
    Checks = {c1, c2}
    Limits <- OneLimit
    Second = 2
    CleanupInterval = 2
    MaxNow = 5
    MaxDelay = 1
    MaxWindows = 2
PROPERTIES
    NeverPastTheLimit
CHECK_DEADLOCK FALSE
