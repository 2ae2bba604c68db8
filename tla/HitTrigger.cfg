CONSTANTS
  HIT_BUDGET_DEFAULT = 2
  ADC_max_tries = 2
  MailCapacity = 2
  Channels <- TwoChannels
SPECIFICATION FairSpec
INVARIANTS TypeOK EventHasOwnMeasurements LowIsPending AcceptedResultIsOwn
PROPERTIES TriggerArmedAgain
