SPECIFICATION FairSpec
CONSTANTS
  NUM_SU = 2
  HIT_BUDGET = 1
  Channels <- TwoChannels
  Preemptive = TRUE
INVARIANT TypeOK
INVARIANT OffIsUnpowered
INVARIANT AcquisitionInMode
INVARIANT SelfTestNumberInTest
PROPERTY SwitchingEnds
PROPERTY HitsEnabledAgain
