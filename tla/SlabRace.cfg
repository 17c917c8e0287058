SPECIFICATION Spec
CONSTANTS
    Threads = {t1, t2}
    PAGE_SIZE = 56
    HeaderSize = 40
    Sizes <- MCSizes
    Requests = {0, 8, 12, 50}
    MaxPages = 5
CHECK_DEADLOCK FALSE
INVARIANTS OneHolder
