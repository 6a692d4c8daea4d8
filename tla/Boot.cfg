SPECIFICATION FairSpec
CONSTANTS
  PAGE_SIZE = 4
  MAX_FRAMES = 12
  REACHABLE = 16
  SIZE_FIELD = 1
  ENTRY_HEAD = 2
  MAX_REGIONS = 2
  U64_MAX = 100
  KB = 2
  BIOS_END = 8
  LOAD = 8
  IMAGE_END = 15
  IMAGE_FITS = TRUE
  KHEAP_SIZE = 12
  CARVE_FLOOR = 1
  Infos <- MCInfos
INVARIANTS
  TypeOK
  AvailableCountsFree
  RegionsAreTheMaps
  FramesAreDescribedRam
  ReservedStaysReserved
  FramesPartitioned
PROPERTIES
  BootEnds
