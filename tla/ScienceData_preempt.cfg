SPECIFICATION FairSpec
CONSTANTS
  MaxEvents = 3
  MaxQueueLength = 2
  Units = {1}
  Classes = {1}
  Qualities = {0, 1}
  CounterLimit = 2
  HitsLimit = 65535
  MailCapacity = 1
  Preemptive = TRUE
  MaxHits = 4
  MaxRequests = 2
  MaxResets = 1
INVARIANT TypeOK
INVARIANT QueuedEventsAreFilled
INVARIANT TelemetryEndIsFileEnd
INVARIANT CountersMatchFile
PROPERTY FileFrozen
PROPERTY ScienceTelemetryEnds
CHECK_DEADLOCK FALSE
