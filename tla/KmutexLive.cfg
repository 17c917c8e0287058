SPECIFICATION FairSpec
\* A wake-up that is lost in the gap can leave every thread asleep.
CHECK_DEADLOCK FALSE
CONSTANTS
    N = 3
INVARIANTS BlockedHasWaker
PROPERTIES IsMutex BlockedRuns
