SPECIFICATION Spec
CONSTANTS
  PAGE_SIZE = 32
  MAX_FRAMES = 10
  ENTRIES = 5
  LOW_WINDOW_END = 160
  KERNEL_SPACE = 160
  DIRECTORY = 32
  LOW_TABLE = 64
  KERNEL_TABLE = 96
  IMAGE_START = 160
  READONLY_END = 192
  Heaps <- OneHeap
  Contiguous = {}
  Base <- OneBase
  Limit <- OneLimit
  PhysBase <- OnePhys
  PhysEnd <- OnePhys
  Wants <- OneWants
  Deltas <- OneDeltas
  Pointers <- OnePointers
  Pools <- OnePools
INVARIANTS
  ShrinkStopsAtUsedBlocks
