SPECIFICATION Spec
CONSTANTS
    MaxPid = 2
    NumKThreads = 1
    Slice = 9
    MaxSleep = 1
    MaxKeys = 1
    OpenPoints = {"window"}
CHECK_DEADLOCK FALSE
INVARIANTS SwitchesToOwnFrame
