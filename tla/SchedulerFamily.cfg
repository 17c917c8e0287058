SPECIFICATION Spec
CONSTANTS
    MaxPid = 4
    NumKThreads = 1
    Slice = 1
    MaxSleep = 1
    MaxKeys = 1
    OpenPoints = {"marked", "polled", "window"}
CHECK_DEADLOCK FALSE
INVARIANTS TypeOK RunQueueExact SleepersExact FreedIsUnreachable NoMissedExit
PROPERTIES ExitIsKept CollectedByParent
