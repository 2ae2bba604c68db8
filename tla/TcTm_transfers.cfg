SPECIFICATION FairSpec
CONSTANTS
  Preemptive = TRUE
  MailCapacity = 1
  MEM_BUFFER_SIZE = 2
  LAST_EVEN = 4
  FileSizes = {4}
  Uplink <- TransfersUplink
  MaxTCs = 4
  MaxResets = 0
CHECK_DEADLOCK FALSE
INVARIANT TypeOK
PROPERTY WriteEndsInResult
PROPERTY TransfersEnd
INVARIANT PointerInArea
PROPERTY RegistersCycle
