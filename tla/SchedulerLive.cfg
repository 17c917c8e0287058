\* Interrupts keep clear of the switch window; a kthread returns next to the
\* reaper, init and its child.
SPECIFICATION FairSpec
CONSTANTS
    MaxPid = 4
    NumKThreads = 2
    Slice = 1
    MaxSleep = 1
    MaxKeys = 0
    OpenPoints = {"marked"}
INVARIANTS SwitchesToOwnFrame
PROPERTIES NobodyStarves DeadIsFreed WaitReturns
