SPECIFICATION Spec
CONSTANTS
  NUM_SU = 1
  HIT_BUDGET = 1
  Channels <- TwoChannels
  Preemptive = TRUE
PROPERTY OnlyTelecommandsSwitchOn
