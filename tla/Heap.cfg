SPECIFICATION Spec
CONSTANTS
  NUM_SIZES = 7
  MemoryMap <- BootMap
  Sizes = {0, 45, 100}
  Aligned <- AlignedRequests
INVARIANTS
  TypeOK
  HeapSound
  NothingLeaked
  MetadataApart
PROPERTY ImplementsBlocks
