\* A page fault in the kernel stops it.
CHECK_DEADLOCK FALSE
CONSTANTS
    Pids = {1, 2}
    Scenarios <- MCScenarios
    INT_RANGE = 16
    MaxInodes = 16
    MaxSize = 4
SPECIFICATION Spec
INVARIANTS PathsAgree ListingsAgree FileHoldsWrites FaultsOnlyAfterClose
