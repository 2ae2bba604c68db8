SPECIFICATION FairSpec
CONSTANTS
  CHECK_SIZE = 2
  MAX_CHECKSUM_COUNT = 2
  CODE_MEMORY_END = 4
  BEGIN_SRAM1 = 1
  MEM_BUFFER_SIZE = 2
  Bits = {1}
  PROM <- SmallPROM
  MaxPatches = 2
  MaxFlips = 2
INVARIANT TypeOK
INVARIANT ReferenceTracksCode
PROPERTY ChecksumResetHasCause
PROPERTY CorruptionIsFound
