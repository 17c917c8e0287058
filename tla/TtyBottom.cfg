SPECIFICATION Spec
CONSTANTS
  r1 = r1
  r2 = r2
  AllReaders = {r1, r2}
  Scenarios <- MCScenarios
  MaxRow = 4
  INITIAL_CAPACITY = 4
  GROWTH_RATE = 2
  fb_width = 8
  fb_height = 4
  font_width = 2
  font_height = 2
  UINT32 = 100
  HeapCells = 50
INVARIANT GlyphsFit
CHECK_DEADLOCK FALSE
