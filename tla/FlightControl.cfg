SPECIFICATION FairSpec
CONSTANTS
  STALLED_TIME = 2
  REALLY_STALLED_TIME = 3
  AVERAGING_PERIOD = 1
  MAX_PULSE = 3
  PilotPulses = {0, 2}
INVARIANTS
  TypeOK
  ServosAreFresh
  ServosObeyControl
PROPERTIES
  LinkRecovers
  RadioLossHandled
  ModesAgree
