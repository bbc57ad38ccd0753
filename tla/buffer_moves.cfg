SPECIFICATION MovesSpec
CONSTANTS
  CircBufferLen = 5
  MaxUint32 = 15
  MaxAge = 1
  Times = {1, 2}
INVARIANTS
  NoHoles
  CountSound
  EmptyMeansCollapsed
