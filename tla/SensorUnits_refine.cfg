SPECIFICATION FairSpec
CONSTANTS
  NUM_SU = 3
  HIT_BUDGET = 1
  Channels <- TwoChannels
  Preemptive = FALSE
PROPERTY ImplementsUnitControl
