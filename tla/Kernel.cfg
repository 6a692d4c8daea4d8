SPECIFICATION KernelSpec
CONSTANTS
  PAGE_SIZE = 32
  MAX_FRAMES = 24
  ENTRIES = 7
  LOW_WINDOW_END = 224
  KERNEL_SPACE = 672
  DIRECTORY = 96
  LOW_TABLE = 128
  KERNEL_TABLE = 160
  IMAGE_START = 704
  READONLY_END = 736
  DEMAND_BASE = 224
  DEMAND_END = 288
  USER_DEMO = 448
  KHEAP_PAGE = 1024
  SMALL = 16
  BIG = 40
  TRIPLE = 96
  Heaps <- MCHeaps
  Contiguous = {"kmalloc"}
  Base <- MCBase
  Limit <- MCLimit
  PhysBase <- MCPhysBase
  PhysEnd <- MCPhysEnd
  Wants = {}
  Deltas = {}
  Pointers = {}
  Accesses <- MCAccesses
  Pools <- MCPools
  Cacheable <- MCCacheable
INVARIANTS
  CacheCoherent
  KernelSpaceIsSupervisor
  DemandPageReadsZero
  EveryFrameHasOneOwner
  ReportsAreTrue
  AllocFailsOnlyForWant
PROPERTIES
  CodeIsNeverWritten
  RefusalCostsNothing
  AllocIsRepeatable
  CommandEnds
