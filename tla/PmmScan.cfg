SPECIFICATION FairSpec
CONSTANTS
  PAGE_SIZE = 4
  MAX_FRAMES = 8
  WORD = 4
INVARIANTS
  FindRunIsFirstFit
  ScansAreRight
PROPERTIES
  ScanEnds
