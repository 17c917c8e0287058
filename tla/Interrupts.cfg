SPECIFICATION Spec
SYMMETRY Symmetry
\* The keyboard is set up once, the routing is written once, a lost CPU does
\* nothing more and the TSC is bounded.
CHECK_DEADLOCK FALSE
CONSTANTS
    Users = {u1, u2}
    Idle = idle
    MaxDepth = 3
    Sleepers = {s1, s2}
    Freq = 6
    Giga = 4
    BootTsc = 2
    InitTsc = 9
    IntervalNs = 2
    MaxSleepNs = 6
    MaxHold = 2
    MaxTsc = 32
    MaxTimeouts = 2
    MaxKeys = 2
    Pins = 3
    Irqs = {0, 1}
    Gsis = {1, 2, 4}
    Bases = {0, 3, 6}
    MaxRecords = 4
INVARIANTS FlagsMatchCode LostOnlyAfterSwitch TimerInTime InitReportsTruth RoutedAsTabled
