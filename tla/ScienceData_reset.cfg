SPECIFICATION Spec
CONSTANTS
  MaxEvents = 3
  MaxQueueLength = 2
  Units = {1}
  Classes = {1}
  Qualities = {1}
  CounterLimit = 255
  HitsLimit = 65535
  MailCapacity = 2
  Preemptive = FALSE
  MaxHits = 3
  MaxRequests = 2
  MaxResets = 1
INVARIANT StoredEventIsQueueHead
CHECK_DEADLOCK FALSE
