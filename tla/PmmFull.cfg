\* One region of a memory below the bitmap's limit.
SPECIFICATION PmmSpec
CONSTANTS
    MAX_NUM_FRAMES = 8
    Top = 7
    MaxRegions = 1
CHECK_DEADLOCK FALSE
INVARIANT PanicsOnlyWhenFull
