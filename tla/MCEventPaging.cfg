CONSTANTS
    PageSize = 2
    MaxSkip = 6
    Attempts = 2
    StartTs = 2
    EndTs = 3
    Timestamps = {1, 2, 3, 4}
    MaxEvents = 8
    MaxUnstamped = 1
    Keys = {1, 2, 3, 4}
    Ids = {1, 2}
SPECIFICATION MCSpec
INVARIANTS NothingMissed MissesTheOldest RepeatsBoundedByArrivals YieldsEachOnce
PROPERTY Terminates
\* the fetch ends
CHECK_DEADLOCK FALSE
