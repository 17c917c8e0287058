\* Frames, two processes that fork, execute, exit and grow, and a small heap.
SPECIFICATION MemorySpec
CONSTANTS
    MAX_NUM_FRAMES = 6
    Top = 8
    MaxRegions = 2
    Procs = {p1, p2}
    First = p1
    Limits <- MCLimits
    Threads = {t1, t2}
    PAGE_SIZE = 56
    HeaderSize = 40
    Sizes <- MCSizes
    Requests = {0, 8, 12, 50}
    MaxPages = 4
SYMMETRY Symmetry
CHECK_DEADLOCK FALSE
INVARIANTS LastRegionServed FramesInOnePlace TablesInUse HeapConsistent
PROPERTIES IsFrameAllocator MemoryIsKept ViewsAreSeparate IsHeap
