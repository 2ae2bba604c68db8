SPECIFICATION Spec
CONSTANTS
  Preemptive = FALSE
  MailCapacity = 2
  MEM_BUFFER_SIZE = 2
  LAST_EVEN = 4
  FileSizes = {4}
  Uplink <- DataWritesUplink
  MaxTCs = 7
  MaxResets = 1
CHECK_DEADLOCK FALSE
PROPERTY PatchIsSentBlock
