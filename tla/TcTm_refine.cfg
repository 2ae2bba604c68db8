SPECIFICATION Spec
CONSTANTS
  Preemptive = FALSE
  MailCapacity = 2
  MEM_BUFFER_SIZE = 4
  LAST_EVEN = 4
  FileSizes = {4, 6}
  Uplink <- CommandsUplink
  MaxTCs = 4
  MaxResets = 0
CHECK_DEADLOCK FALSE
INVARIANT TMMaskMatchesState
INVARIANT WritesInStandBy
PROPERTY ImplementsTmSession
