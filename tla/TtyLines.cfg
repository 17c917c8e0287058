SPECIFICATION LiveSpec
CONSTANTS
  r1 = r1
  r2 = r2
  AllReaders = {r1, r2}
  Scenarios <- MCScenarios
  MaxRow = 4
  INITIAL_CAPACITY = 4
  GROWTH_RATE = 2
  fb_width = 9
  fb_height = 5
  font_width = 2
  font_height = 2
  UINT32 = 100
  HeapCells = 50
CHECK_DEADLOCK FALSE
INVARIANTS StrokesInOrder EditingIsSound ScreenIsCurrent
PROPERTIES StrokesHandled
