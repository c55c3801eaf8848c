CONSTANTS
  TickMod = 64
  MaxTick = 9
  MaxQueue = 2
  MaxJump = 2
  Wirings <- AllWirings
SPECIFICATION Spec
INVARIANTS TriggersForward NothingMissed 
