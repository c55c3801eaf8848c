CONSTANTS
  MAX_TIMETICK = 9
  time_weight = 100
  Period = 2
  MaxTick = 6
  MaxQueue = 2
  Settings <- AllSettings
SPECIFICATION FairSpec
INVARIANTS  Manager0Woken
PROPERTIES  NobodyStuck
