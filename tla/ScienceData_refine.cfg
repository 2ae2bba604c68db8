SPECIFICATION Spec
CONSTANTS
  MaxEvents = 3
  MaxQueueLength = 2
  Units = {1}
  Classes = {1, 2}
  Qualities = {0, 1}
  CounterLimit = 255
  HitsLimit = 65535
  MailCapacity = 2
  Preemptive = FALSE
  MaxHits = 5
  MaxRequests = 2
  MaxResets = 0
INVARIANT CountersDescribeFile
INVARIANT FileHoldsDistinctEvents
PROPERTY ImplementsScienceFile
CHECK_DEADLOCK FALSE
